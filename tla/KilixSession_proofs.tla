------------------------ MODULE KilixSession_proofs ------------------------
(***************************************************************************)
(* Proofs about one managed run, for any number of workers, observers,     *)
(* saves that raise and processes killed.                                  *)
(*                                                                         *)
(* The inductive invariant goes along the life of a run: what launch.json  *)
(* says while the launcher is at work (LaunchInv), that one worker claims  *)
(* the run and starts one provider (ClaimInv), where that provider and its *)
(* group are at each step of the worker (ProviderInv), that run.json is    *)
(* not final before the group is cleared (RecordInv), and that a run which *)
(* was stopped before it was claimed starts nothing (StopInv).  There is   *)
(* one lemma per action, with one step per part of the invariant.          *)
(***************************************************************************)
EXTENDS KilixSession, TLAPS

(* Nobody works on the run, and nobody was asked to. *)
NoWorkers == claim = None /\ ~requested /\ \A w \in Workers : wpc[w] = "none"

Receipted(statuses) == launch # None /\ launch.status \in statuses

(* What launch.json says at each step of the launcher; as long as it says prepared or
   failed there is no worker, except where a foreground launch goes on. *)
LaunchInv ==
    /\ lpc = "start" => run = None
    /\ lpc \in {"start", "listed"} => launch = None
    /\ lpc = "placing" => Receipted({"prepared"})
    /\ lpc \in {"starting", "verify", "started"} => Receipted({"uncertain"}) /\ placement # "foreground"
    /\ lpc = "failing" => Receipted({"failed"})
    /\ lpc = "handle" => launch # None
    /\ lpc = "run" => launch # None /\ placement = "foreground"
    /\ lpc \in {"start", "listed", "placing", "starting"} => NoWorkers
    /\ Receipted({"prepared", "failed"}) /\ ~(placement = "foreground" /\ lpc \in {"run", "done"}) => NoWorkers
    /\ launch = None => NoWorkers
    /\ launch # None \/ lpc \notin {"start", "done"} => run # None

Idle == {"none", "born", "gone"}
Before == {"claimed", "begin", "trust", "check", "start"}
Open == {"begin", "trust", "check", "start", "started", "poll", "stopping", "escalate", "look", "term", "kill",
         "reap", "final", "bury", "burying", "buried", "lost", "cont"} \cup SignalSteps
Done == leader \in {"none", "reaped", "collected"}
Lost == leader \in {"taken", "collected"}

(* One worker holds the claim, and starts one provider. *)
ClaimInv ==
    /\ \A w \in Workers : wpc[w] \notin Idle => claim = w
    /\ \A w \in Workers : claim = w => wpc[w] \notin {"none", "born"}
    /\ starts <= 1
    /\ starts = 0 <=> leader = "none"
    /\ claim = None => leader = "none"
    /\ \A w \in Workers : wpc[w] \in Before => leader = "none"

(* The provider at each step of its worker. *)
ProviderInv ==
    /\ leader \notin {"none", "running"} => code \in {"zero", "error", "signal"}
    /\ sent => interrupted
    /\ Done => ~child
    /\ Lost => ForeignWaiter
    /\ strays \in {0, 1}
    /\ strays = 1 => Lost /\ \A w \in Workers : wpc[w] \notin SignalSteps
    /\ \A w \in Workers :
        /\ wpc[w] \in SignalSteps => leader \in {"running", "exited", "taken"}
        /\ wpc[w] = "forward" => interrupted
        /\ wpc[w] \in {"reap", "buried"} => ~child /\ leader \in {"exited", "taken"}
        /\ wpc[w] = "final" => leader \in {"reaped", "collected"}
        /\ wpc[w] = "record" => Done

Final == run # None /\ run.status \in Terminal

(* The exit code of a completed run is 0, or it was lost. *)
HonestCompletion ==
    run # None /\ run.status = "completed" =>
        ~sent /\ ((leader = "reaped" /\ code = "zero") \/ leader = "collected")

(* run.json at each step of its worker. *)
RecordInv ==
    /\ \A w \in Workers :
        /\ wpc[w] \in Open => ~Final
        /\ wpc[w] = "except" /\ ~Done => ~Final
        /\ wpc[w] = "claimed" /\ Final => placement = "foreground" /\ Receipted({"failed"})
    /\ claim = None /\ Final => Receipted({"failed"}) /\ run.status = "failed"
    /\ claim # None /\ Final /\ ~run.lost => Done
    /\ HonestCompletion

(* A run that was stopped before it was claimed. *)
StopInv ==
    early =>
        /\ claim # None /\ stop /\ starts = 0
        /\ \A w \in Workers : wpc[w] \in Idle \cup {"claimed", "begin", "except", "record", "leaving"}

IInv == TypeOK /\ LaunchInv /\ ClaimInv /\ ProviderInv /\ RecordInv /\ StopInv

(* The types, in parts. *)
FileTypes ==
    /\ placement \in Placements
    /\ run \in Records \cup {None}
    /\ run # None /\ run.runner # None => run.runner = claim
    /\ launch \in Receipts \cup {None}
    /\ stop \in BOOLEAN /\ requested \in BOOLEAN
    /\ claim \in Workers \cup {None}
LauncherPoints == {"start", "listed", "placing", "starting", "verify", "started", "run", "handle", "failing", "done"}
WorkerSteps == {"none", "born", "claimed", "begin", "trust", "check", "start", "started", "poll",
                "stopping", "escalate", "look", "term", "kill", "reap", "final", "except",
                "bury", "burying", "buried", "record", "lost", "leaving", "gone",
                "cont"} \cup SignalSteps
StepTypes ==
    /\ lpc \in LauncherPoints
    /\ wpc \in [Workers -> WorkerSteps]
    /\ interrupted \in BOOLEAN /\ sent \in BOOLEAN /\ due \in BOOLEAN
    /\ leader \in {"none", "running", "exited", "taken", "reaped", "collected"}
    /\ code \in {None, "zero", "error", "signal"}
    /\ child \in BOOLEAN
ObserverTypes ==
    /\ opc \in [Observers -> {"idle", "run", "launch", "proc", "request"}]
    /\ kind \in [Observers -> {"wait", "stop"}]
    /\ seen \in [Observers -> [status : Statuses \cup {None}, runner : Workers \cup {None},
                               launch : LaunchStatuses \cup {None}]]
    /\ answer \in [Observers -> Terminal \cup {"orphaned", "uncertain", None}]
CountTypes ==
    /\ faults \in 0..MaxFaults /\ kills \in 0..MaxKills
    /\ starts \in Nat /\ strays \in Nat
    /\ early \in BOOLEAN

LEMMA TypeParts == TypeOK <=> FileTypes /\ StepTypes /\ ObserverTypes /\ CountTypes
BY DEF TypeOK, FileTypes, StepTypes, ObserverTypes, CountTypes, LauncherPoints, WorkerSteps, SignalSteps

(* A step of the launcher, of a worker or around them leaves the observers alone. *)
LEMMA SessionTypes ==
    ASSUME TypeOK, FileTypes', StepTypes', CountTypes', UNCHANGED observer
    PROVE  TypeOK'
<1>1. ObserverTypes
  BY TypeParts
<1>2. ObserverTypes'
  BY <1>1 DEF ObserverTypes, observer
<1> QED BY <1>2 DEF TypeOK, FileTypes, StepTypes, ObserverTypes, CountTypes, LauncherPoints, WorkerSteps,
   SignalSteps

(* An observer reads, and writes stop.json at most. *)
LEMMA ObserverKeeps ==
    ASSUME IInv, ObserverTypes', faults' \in 0..MaxFaults, stop' \in BOOLEAN, stop => stop', ObserverOnly
    PROVE  IInv'
<1>1. FileTypes /\ StepTypes /\ CountTypes
  BY TypeParts DEF IInv
<1>2. FileTypes' /\ StepTypes' /\ CountTypes'
  BY <1>1 DEF FileTypes, StepTypes, CountTypes, ObserverOnly, runner, provider, history
<1>3. TypeOK'
  BY <1>2 DEF TypeOK, FileTypes, StepTypes, ObserverTypes, CountTypes, LauncherPoints, WorkerSteps,
     SignalSteps
<1>4. LaunchInv' /\ ClaimInv' /\ ProviderInv'
  BY DEF IInv, LaunchInv, ClaimInv, ProviderInv, NoWorkers, Receipted, Done, ObserverOnly, runner, provider,
     history, SignalSteps, Lost
<1>5. RecordInv' /\ StopInv'
  BY DEF IInv, RecordInv, StopInv, HonestCompletion, Receipted, Final, Done, ObserverOnly, runner, provider,
     history
<1> QED BY <1>3, <1>4, <1>5 DEF IInv

-----------------------------------------------------------------------------
LEMMA LauncherFacts ==
    ASSUME TypeOK, NEW from, NEW status \in LaunchStatuses, NEW w \in Workers \cup {None}, NEW to, NEW onError,
           LauncherSteps(from, status, w, to, onError)
    PROVE  /\ lpc = from /\ faults' \in 0..MaxFaults
           /\ launch' \in Receipts \cup {None}
           /\ \/ lpc' = to /\ launch' # None /\ launch'.status = status
              \/ /\ lpc' = onError
                 /\ launch' = launch \/ (launch' # None /\ launch'.status = status)
           /\ UNCHANGED <<placement, run, stop, claim, requested, wpc, runner, provider, observer, kills, history>>
<1> DEFINE r == Receipt(status, w)
<1>1. r \in Receipts /\ r # None /\ r.status = status
  BY RecordAssumption DEF Receipt, Receipts
<1>2. \/ launch' = r /\ lpc' = to /\ UNCHANGED faults
      \/ launch' \in {launch, r} /\ lpc' = onError /\ faults < MaxFaults /\ faults' = faults + 1
  BY DEF LauncherSteps, Saves, SaveRaises
<1>3. faults \in 0..MaxFaults /\ launch \in Receipts \cup {None}
  BY DEF TypeOK
<1>4. faults' \in 0..MaxFaults
  BY <1>2, <1>3, SessionAssumption
<1> HIDE DEF r
<1> QED BY <1>1, <1>2, <1>3, <1>4 DEF LauncherSteps

(* What killpg leaves, before the leader was reaped by its own worker. *)
LEMMA SignalFacts ==
    ASSUME StepTypes, CountTypes, NEW kill \in BOOLEAN, leader \in {"running", "exited", "taken"}, GroupSignal(kill)
    PROVE  /\ leader' = leader \/ (leader = "running" /\ leader' = "exited" /\ code' = "signal")
           /\ leader' = leader => code' = code
           /\ kill => leader' # "running" /\ ~child'
           /\ code' \in {None, "zero", "error", "signal"}
           /\ child' \in BOOLEAN /\ (child' => child)
           /\ strays' \in Nat
           /\ strays' = strays \/ (strays' = strays + 1 /\ leader = "taken")
<1>2. leader' = IF kill /\ leader = "running" THEN "exited" ELSE leader
  BY DEF GroupSignal
<1>3. code' = IF kill /\ leader = "running" THEN "signal" ELSE code
  BY DEF GroupSignal
<1>4. child' = (child /\ ~kill) /\ child \in BOOLEAN
  BY DEF GroupSignal, StepTypes
<1>5. child' \in BOOLEAN /\ (child' => child) /\ (kill => ~child')
  BY <1>4
<1>6. strays' = strays + (IF leader = "taken" /\ ~child THEN 1 ELSE 0) /\ strays \in Nat
  BY DEF GroupSignal, CountTypes
<1>7. strays' \in Nat /\ (strays' = strays \/ (strays' = strays + 1 /\ leader = "taken"))
  BY <1>6
<1>8. code \in {None, "zero", "error", "signal"}
  BY DEF StepTypes
<1> QED BY <1>2, <1>3, <1>5, <1>7, <1>8

-----------------------------------------------------------------------------
(* Every step preserves every part of the invariant. *)

LEMMA KeepPrepare ==
    ASSUME IInv, Prepare
    PROVE  IInv'
<1>inv. TypeOK /\ LaunchInv /\ ClaimInv /\ ProviderInv /\ RecordInv /\ StopInv
  BY DEF IInv
<1>parts. FileTypes /\ StepTypes /\ ObserverTypes /\ CountTypes
  BY <1>inv, TypeParts
<1>save. /\ run' \in Records \cup {None}
         /\ \/ lpc' = "done" /\ run' = run
            \/ /\ lpc' \in {"listed", "done"}
               /\ run' # None /\ run'.status = "prepared" /\ run'.runner = None /\ ~run'.lost
  <2> DEFINE record == [status |-> "prepared", runner |-> None, lost |-> FALSE]
  <2>1. record \in Records /\ record # None
    <3>1. record \in Records
      BY DEF Records, Statuses
    <3> HIDE DEF record
    <3> QED BY <3>1, RecordAssumption
  <2>2. record.status = "prepared" /\ record.runner = None /\ ~record.lost
    OBVIOUS
  <2>3. \/ lpc' = "listed" /\ run' = record
        \/ lpc' = "done" /\ run' \in {run, record}
    BY DEF Prepare, Saves, SaveRaises
  <2> HIDE DEF record
  <2> QED BY <2>1, <2>2, <2>3, <1>parts DEF FileTypes
<1>types. TypeOK'
  <2>1. FileTypes'
    BY <1>save, <1>parts DEF FileTypes, Prepare, Saves, SaveRaises, provider
  <2>2. StepTypes'
    BY <1>save, <1>parts DEF StepTypes, FileTypes, LauncherPoints, WorkerSteps, Prepare, Saves, SaveRaises,
       provider, runner, SignalSteps
  <2>4. CountTypes'
    BY <1>save, <1>parts, SessionAssumption DEF CountTypes, FileTypes, Prepare, Saves, SaveRaises, provider,
       history
  <2> QED BY <1>save, <1>inv, <2>1, <2>2, <2>4, SessionTypes DEF Prepare, Saves, SaveRaises, provider
<1>launch. LaunchInv'
  BY <1>save, <1>inv DEF LaunchInv, NoWorkers, Receipted, Prepare, Saves, SaveRaises, provider
<1>claim. ClaimInv'
  BY SessionAssumption, <1>save, <1>inv DEF TypeOK, ClaimInv, Idle, Before, Prepare, Saves, SaveRaises,
     provider, history
<1>provider. ProviderInv'
  BY <1>save, <1>inv DEF TypeOK, ProviderInv, Done, Prepare, Saves, SaveRaises, provider, runner, history,
     SignalSteps, Lost
<1>record. RecordInv'
  BY SessionAssumption, <1>save, <1>inv DEF TypeOK, LaunchInv, ClaimInv, ProviderInv, RecordInv,
     HonestCompletion, NoWorkers, Receipted, Idle, Before, Open, Done, Final, Terminal, Prepare, Saves,
     SaveRaises, provider, SignalSteps, Lost
<1>stop. StopInv'
  BY SessionAssumption, <1>save, <1>inv DEF TypeOK, StopInv, Idle, Prepare, Saves, SaveRaises, provider,
     history
<1> QED BY <1>types, <1>launch, <1>claim, <1>provider, <1>record, <1>stop DEF IInv

LEMMA KeepWriteReceipt ==
    ASSUME IInv, WriteReceipt
    PROVE  IInv'
<1>inv. TypeOK /\ LaunchInv /\ ClaimInv /\ ProviderInv /\ RecordInv /\ StopInv
  BY DEF IInv
<1>parts. FileTypes /\ StepTypes /\ ObserverTypes /\ CountTypes
  BY <1>inv, TypeParts
<1>args. "prepared" \in LaunchStatuses /\ None \in Workers \cup {None}
  BY <1>inv, RecordAssumption DEF LaunchStatuses, Receipts, WriteReceipt, NotStarted
<1>steps. LauncherSteps("listed", "prepared", None, "placing", "done")
  BY DEF WriteReceipt
<1>save. /\ lpc = "listed" /\ faults' \in 0..MaxFaults /\ launch' \in Receipts \cup {None}
         /\ \/ lpc' = "placing" /\ launch' # None /\ launch'.status = "prepared"
            \/ lpc' = "done" /\ (launch' = launch \/ (launch' # None /\ launch'.status = "prepared"))
         /\ UNCHANGED <<placement, run, stop, claim, requested, wpc, runner, provider, observer, kills, history>>
  BY <1>inv, <1>args, <1>steps, LauncherFacts
<1>types. TypeOK'
  <2>1. FileTypes'
    BY <1>save, <1>parts DEF FileTypes, provider
  <2>2. StepTypes'
    BY <1>save, <1>parts DEF StepTypes, FileTypes, LauncherPoints, WorkerSteps, provider, runner,
       SignalSteps
  <2>4. CountTypes'
    BY <1>save, <1>parts, SessionAssumption DEF CountTypes, FileTypes, provider, history
  <2> QED BY <1>save, <1>inv, <2>1, <2>2, <2>4, SessionTypes DEF provider
<1>launch. LaunchInv'
  BY <1>save, <1>inv DEF LaunchInv, NoWorkers, Receipted, provider
<1>claim. ClaimInv'
  BY SessionAssumption, <1>save, <1>inv DEF TypeOK, ClaimInv, Idle, Before, provider, history
<1>provider. ProviderInv'
  BY <1>save, <1>inv DEF TypeOK, ProviderInv, Done, provider, runner, history, SignalSteps, Lost
<1>record. RecordInv'
  BY SessionAssumption, <1>save, <1>inv DEF TypeOK, LaunchInv, ClaimInv, ProviderInv, RecordInv,
     HonestCompletion, NoWorkers, Receipted, Idle, Before, Open, Done, Final, Terminal, provider,
     SignalSteps, Lost
<1>stop. StopInv'
  BY SessionAssumption, <1>save, <1>inv DEF TypeOK, StopInv, Idle, provider, history
<1> QED BY <1>types, <1>launch, <1>claim, <1>provider, <1>record, <1>stop DEF IInv

LEMMA KeepPlacementFails ==
    ASSUME IInv, PlacementFails
    PROVE  IInv'
<1>inv. TypeOK /\ LaunchInv /\ ClaimInv /\ ProviderInv /\ RecordInv /\ StopInv
  BY DEF IInv
<1>parts. FileTypes /\ StepTypes /\ ObserverTypes /\ CountTypes
  BY <1>inv, TypeParts
<1>types. TypeOK'
  <2>1. FileTypes'
    BY <1>parts DEF FileTypes, PlacementFails, files, provider
  <2>2. StepTypes'
    BY <1>parts DEF StepTypes, FileTypes, LauncherPoints, WorkerSteps, PlacementFails, provider, runner,
       SignalSteps
  <2>4. CountTypes'
    BY <1>parts, SessionAssumption DEF CountTypes, FileTypes, PlacementFails, provider, history
  <2> QED BY <1>inv, <2>1, <2>2, <2>4, SessionTypes DEF PlacementFails, provider
<1>launch. LaunchInv'
  BY <1>inv DEF LaunchInv, NoWorkers, Receipted, PlacementFails, files, provider
<1>claim. ClaimInv'
  BY SessionAssumption, <1>inv DEF TypeOK, ClaimInv, Idle, Before, PlacementFails, files, provider, history
<1>provider. ProviderInv'
  BY <1>inv DEF TypeOK, ProviderInv, Done, PlacementFails, provider, runner, history, SignalSteps, Lost
<1>record. RecordInv'
  BY SessionAssumption, <1>inv DEF TypeOK, RecordInv, HonestCompletion, Receipted, Open, Done, Final,
     PlacementFails, files, provider, runner, SignalSteps
<1>stop. StopInv'
  BY SessionAssumption, <1>inv DEF TypeOK, StopInv, Idle, PlacementFails, files, provider, history
<1> QED BY <1>types, <1>launch, <1>claim, <1>provider, <1>record, <1>stop DEF IInv

LEMMA KeepIntend ==
    ASSUME IInv, Intend
    PROVE  IInv'
<1>inv. TypeOK /\ LaunchInv /\ ClaimInv /\ ProviderInv /\ RecordInv /\ StopInv
  BY DEF IInv
<1>parts. FileTypes /\ StepTypes /\ ObserverTypes /\ CountTypes
  BY <1>inv, TypeParts
<1>args. "uncertain" \in LaunchStatuses /\ None \in Workers \cup {None}
  BY <1>inv, RecordAssumption DEF LaunchStatuses, Receipts, Intend, NotStarted
<1>steps. LauncherSteps("placing", "uncertain", None, "starting", "handle")
  BY DEF Intend
<1>save. /\ lpc = "placing" /\ faults' \in 0..MaxFaults /\ launch' \in Receipts \cup {None}
         /\ \/ lpc' = "starting" /\ launch' # None /\ launch'.status = "uncertain"
            \/ lpc' = "handle" /\ (launch' = launch \/ (launch' # None /\ launch'.status = "uncertain"))
         /\ UNCHANGED <<placement, run, stop, claim, requested, wpc, runner, provider, observer, kills, history>>
  BY <1>inv, <1>args, <1>steps, LauncherFacts
<1>guard. placement # "foreground"
  BY DEF Intend, NotStarted
<1>types. TypeOK'
  <2>1. FileTypes'
    BY <1>save, <1>guard, <1>parts DEF FileTypes, provider
  <2>2. StepTypes'
    BY <1>save, <1>guard, <1>parts DEF StepTypes, FileTypes, LauncherPoints, WorkerSteps, provider,
       runner, SignalSteps
  <2>4. CountTypes'
    BY <1>save, <1>guard, <1>parts, SessionAssumption DEF CountTypes, FileTypes, provider, history
  <2> QED BY <1>save, <1>guard, <1>inv, <2>1, <2>2, <2>4, SessionTypes DEF provider
<1>launch. LaunchInv'
  BY <1>save, <1>guard, <1>inv DEF LaunchInv, NoWorkers, Receipted, provider
<1>claim. ClaimInv'
  BY SessionAssumption, <1>save, <1>guard, <1>inv DEF TypeOK, ClaimInv, Idle, Before, provider, history
<1>provider. ProviderInv'
  BY <1>save, <1>guard, <1>inv DEF TypeOK, ProviderInv, Done, provider, runner, history, SignalSteps, Lost
<1>record. RecordInv'
  BY SessionAssumption, <1>save, <1>guard, <1>inv DEF TypeOK, LaunchInv, ClaimInv, ProviderInv, RecordInv,
     HonestCompletion, NoWorkers, Receipted, Idle, Before, Open, Done, Final, Terminal, provider,
     SignalSteps, Lost
<1>stop. StopInv'
  BY SessionAssumption, <1>save, <1>guard, <1>inv DEF TypeOK, StopInv, Idle, provider, history
<1> QED BY <1>types, <1>launch, <1>claim, <1>provider, <1>record, <1>stop DEF IInv

LEMMA KeepAskForPane ==
    ASSUME IInv, AskForPane
    PROVE  IInv'
<1>inv. TypeOK /\ LaunchInv /\ ClaimInv /\ ProviderInv /\ RecordInv /\ StopInv
  BY DEF IInv
<1>parts. FileTypes /\ StepTypes /\ ObserverTypes /\ CountTypes
  BY <1>inv, TypeParts
<1>types. TypeOK'
  <2>1. FileTypes'
    BY <1>parts DEF FileTypes, AskForPane, files, provider
  <2>2. StepTypes'
    BY <1>parts DEF StepTypes, FileTypes, LauncherPoints, WorkerSteps, AskForPane, provider, runner,
       SignalSteps
  <2>4. CountTypes'
    BY <1>parts, SessionAssumption DEF CountTypes, FileTypes, AskForPane, provider, history
  <2> QED BY <1>inv, <2>1, <2>2, <2>4, SessionTypes DEF AskForPane, provider
<1>launch. LaunchInv'
  BY <1>inv DEF LaunchInv, NoWorkers, Receipted, AskForPane, files, provider
<1>claim. ClaimInv'
  BY SessionAssumption, <1>inv DEF TypeOK, ClaimInv, Idle, Before, AskForPane, files, provider, history
<1>provider. ProviderInv'
  BY <1>inv DEF TypeOK, ProviderInv, Done, AskForPane, provider, runner, history, SignalSteps, Lost
<1>record. RecordInv'
  BY SessionAssumption, <1>inv DEF TypeOK, RecordInv, HonestCompletion, Receipted, Open, Done, Final,
     AskForPane, files, provider, runner, SignalSteps
<1>stop. StopInv'
  BY SessionAssumption, <1>inv DEF TypeOK, StopInv, Idle, AskForPane, files, provider, history
<1> QED BY <1>types, <1>launch, <1>claim, <1>provider, <1>record, <1>stop DEF IInv

LEMMA KeepPaneVerified ==
    ASSUME IInv, PaneVerified
    PROVE  IInv'
<1>inv. TypeOK /\ LaunchInv /\ ClaimInv /\ ProviderInv /\ RecordInv /\ StopInv
  BY DEF IInv
<1>parts. FileTypes /\ StepTypes /\ ObserverTypes /\ CountTypes
  BY <1>inv, TypeParts
<1>args. "submitted" \in LaunchStatuses /\ None \in Workers \cup {None}
  BY <1>inv, RecordAssumption DEF LaunchStatuses, Receipts, PaneVerified, NotStarted
<1>steps. LauncherSteps("verify", "submitted", None, "done", "handle")
  BY DEF PaneVerified
<1>save. /\ lpc = "verify" /\ faults' \in 0..MaxFaults /\ launch' \in Receipts \cup {None}
         /\ \/ lpc' = "done" /\ launch' # None /\ launch'.status = "submitted"
            \/ lpc' = "handle" /\ (launch' = launch \/ (launch' # None /\ launch'.status = "submitted"))
         /\ UNCHANGED <<placement, run, stop, claim, requested, wpc, runner, provider, observer, kills, history>>
  BY <1>inv, <1>args, <1>steps, LauncherFacts
<1>types. TypeOK'
  <2>1. FileTypes'
    BY <1>save, <1>parts DEF FileTypes, provider
  <2>2. StepTypes'
    BY <1>save, <1>parts DEF StepTypes, FileTypes, LauncherPoints, WorkerSteps, provider, runner,
       SignalSteps
  <2>4. CountTypes'
    BY <1>save, <1>parts, SessionAssumption DEF CountTypes, FileTypes, provider, history
  <2> QED BY <1>save, <1>inv, <2>1, <2>2, <2>4, SessionTypes DEF provider
<1>launch. LaunchInv'
  BY <1>save, <1>inv DEF LaunchInv, NoWorkers, Receipted, provider
<1>claim. ClaimInv'
  BY SessionAssumption, <1>save, <1>inv DEF TypeOK, ClaimInv, Idle, Before, provider, history
<1>provider. ProviderInv'
  BY <1>save, <1>inv DEF TypeOK, ProviderInv, Done, provider, runner, history, SignalSteps, Lost
<1>record. RecordInv'
  BY SessionAssumption, <1>save, <1>inv DEF TypeOK, LaunchInv, ClaimInv, ProviderInv, RecordInv,
     HonestCompletion, NoWorkers, Receipted, Idle, Before, Open, Done, Final, Terminal, provider, runner,
     SignalSteps, Lost
<1>stop. StopInv'
  BY SessionAssumption, <1>save, <1>inv DEF TypeOK, StopInv, Idle, provider, history
<1> QED BY <1>types, <1>launch, <1>claim, <1>provider, <1>record, <1>stop DEF IInv

LEMMA KeepStartChild ==
    ASSUME IInv, NEW w \in Workers, StartChild(w)
    PROVE  IInv'
<1>inv. TypeOK /\ LaunchInv /\ ClaimInv /\ ProviderInv /\ RecordInv /\ StopInv
  BY DEF IInv
<1>parts. FileTypes /\ StepTypes /\ ObserverTypes /\ CountTypes
  BY <1>inv, TypeParts
<1>types. TypeOK'
  <2>1. FileTypes'
    BY <1>parts DEF FileTypes, StartChild, files, provider
  <2>2. StepTypes'
    BY <1>parts DEF StepTypes, FileTypes, LauncherPoints, WorkerSteps, StartChild, provider, runner,
       SignalSteps
  <2>4. CountTypes'
    BY <1>parts, SessionAssumption DEF CountTypes, FileTypes, StartChild, provider, history
  <2> QED BY <1>inv, <2>1, <2>2, <2>4, SessionTypes DEF StartChild, provider
<1>launch. LaunchInv'
  BY <1>inv DEF LaunchInv, NoWorkers, Receipted, StartChild, files, provider
<1>claim. ClaimInv'
  BY SessionAssumption, <1>inv DEF TypeOK, ClaimInv, Idle, Before, StartChild, files, provider, history
<1>provider. ProviderInv'
  BY <1>inv DEF TypeOK, ProviderInv, Done, StartChild, provider, runner, history, SignalSteps, Lost
<1>record. RecordInv'
  BY SessionAssumption, <1>inv DEF TypeOK, RecordInv, HonestCompletion, Receipted, Open, Done, Final,
     StartChild, files, provider, runner, SignalSteps
<1>stop. StopInv'
  BY SessionAssumption, <1>inv DEF TypeOK, StopInv, Idle, StartChild, files, provider, history
<1> QED BY <1>types, <1>launch, <1>claim, <1>provider, <1>record, <1>stop DEF IInv

LEMMA KeepStartChildFails ==
    ASSUME IInv, StartChildFails
    PROVE  IInv'
<1>inv. TypeOK /\ LaunchInv /\ ClaimInv /\ ProviderInv /\ RecordInv /\ StopInv
  BY DEF IInv
<1>parts. FileTypes /\ StepTypes /\ ObserverTypes /\ CountTypes
  BY <1>inv, TypeParts
<1>args. "prepared" \in LaunchStatuses /\ None \in Workers \cup {None}
  BY <1>inv, RecordAssumption DEF LaunchStatuses, Receipts, StartChildFails, NotStarted
<1>steps. LauncherSteps("starting", "prepared", None, "handle", "handle")
  BY DEF StartChildFails
<1>save. /\ lpc = "starting" /\ faults' \in 0..MaxFaults /\ launch' \in Receipts \cup {None}
         /\ \/ lpc' = "handle" /\ launch' # None /\ launch'.status = "prepared"
            \/ lpc' = "handle" /\ (launch' = launch \/ (launch' # None /\ launch'.status = "prepared"))
         /\ UNCHANGED <<placement, run, stop, claim, requested, wpc, runner, provider, observer, kills, history>>
  BY <1>inv, <1>args, <1>steps, LauncherFacts
<1>guard. placement = "background"
  BY DEF StartChildFails, NotStarted
<1>types. TypeOK'
  <2>1. FileTypes'
    BY <1>save, <1>guard, <1>parts DEF FileTypes, provider
  <2>2. StepTypes'
    BY <1>save, <1>guard, <1>parts DEF StepTypes, FileTypes, LauncherPoints, WorkerSteps, provider,
       runner, SignalSteps
  <2>4. CountTypes'
    BY <1>save, <1>guard, <1>parts, SessionAssumption DEF CountTypes, FileTypes, provider, history
  <2> QED BY <1>save, <1>guard, <1>inv, <2>1, <2>2, <2>4, SessionTypes DEF provider
<1>launch. LaunchInv'
  BY <1>save, <1>guard, <1>inv DEF LaunchInv, NoWorkers, Receipted, provider
<1>claim. ClaimInv'
  BY SessionAssumption, <1>save, <1>guard, <1>inv DEF TypeOK, ClaimInv, Idle, Before, provider, history
<1>provider. ProviderInv'
  BY <1>save, <1>guard, <1>inv DEF TypeOK, ProviderInv, Done, provider, runner, history, SignalSteps, Lost
<1>record. RecordInv'
  BY SessionAssumption, <1>save, <1>guard, <1>inv DEF TypeOK, LaunchInv, ClaimInv, ProviderInv, RecordInv,
     HonestCompletion, NoWorkers, Receipted, Idle, Before, Open, Done, Final, Terminal, provider,
     SignalSteps, Lost
<1>stop. StopInv'
  BY SessionAssumption, <1>save, <1>guard, <1>inv DEF TypeOK, StopInv, Idle, provider, history
<1> QED BY <1>types, <1>launch, <1>claim, <1>provider, <1>record, <1>stop DEF IInv

LEMMA KeepChildStarted ==
    ASSUME IInv, NEW w \in Workers, ChildStarted(w)
    PROVE  IInv'
<1>inv. TypeOK /\ LaunchInv /\ ClaimInv /\ ProviderInv /\ RecordInv /\ StopInv
  BY DEF IInv
<1>parts. FileTypes /\ StepTypes /\ ObserverTypes /\ CountTypes
  BY <1>inv, TypeParts
<1>args. "submitted" \in LaunchStatuses
  BY DEF LaunchStatuses
<1>steps. PICK named \in Workers \cup {None} : LauncherSteps("started", "submitted", named, "done", "handle")
  BY DEF ChildStarted
<1>save. /\ lpc = "started" /\ faults' \in 0..MaxFaults /\ launch' \in Receipts \cup {None}
         /\ \/ lpc' = "done" /\ launch' # None /\ launch'.status = "submitted"
            \/ lpc' = "handle" /\ (launch' = launch \/ (launch' # None /\ launch'.status = "submitted"))
         /\ UNCHANGED <<placement, run, stop, claim, requested, wpc, runner, provider, observer, kills, history>>
  BY <1>inv, <1>args, <1>steps, LauncherFacts
<1>types. TypeOK'
  <2>1. FileTypes'
    BY <1>save, <1>parts DEF FileTypes, provider
  <2>2. StepTypes'
    BY <1>save, <1>parts DEF StepTypes, FileTypes, LauncherPoints, WorkerSteps, provider, runner,
       SignalSteps
  <2>4. CountTypes'
    BY <1>save, <1>parts, SessionAssumption DEF CountTypes, FileTypes, provider, history
  <2> QED BY <1>save, <1>inv, <2>1, <2>2, <2>4, SessionTypes DEF provider
<1>launch. LaunchInv'
  BY <1>save, <1>inv DEF LaunchInv, NoWorkers, Receipted, provider
<1>claim. ClaimInv'
  BY SessionAssumption, <1>save, <1>inv DEF TypeOK, ClaimInv, Idle, Before, provider, history
<1>provider. ProviderInv'
  BY <1>save, <1>inv DEF TypeOK, ProviderInv, Done, provider, runner, history, SignalSteps, Lost
<1>record. RecordInv'
  BY SessionAssumption, <1>save, <1>inv DEF TypeOK, LaunchInv, ClaimInv, ProviderInv, RecordInv,
     HonestCompletion, NoWorkers, Receipted, Idle, Before, Open, Done, Final, Terminal, provider, runner,
     SignalSteps, Lost
<1>stop. StopInv'
  BY SessionAssumption, <1>save, <1>inv DEF TypeOK, StopInv, Idle, provider, history
<1> QED BY <1>types, <1>launch, <1>claim, <1>provider, <1>record, <1>stop DEF IInv

LEMMA KeepSubmitForeground ==
    ASSUME IInv, SubmitForeground
    PROVE  IInv'
<1>inv. TypeOK /\ LaunchInv /\ ClaimInv /\ ProviderInv /\ RecordInv /\ StopInv
  BY DEF IInv
<1>parts. FileTypes /\ StepTypes /\ ObserverTypes /\ CountTypes
  BY <1>inv, TypeParts
<1>args. "submitted" \in LaunchStatuses /\ None \in Workers \cup {None}
  BY <1>inv, RecordAssumption DEF LaunchStatuses, Receipts, SubmitForeground, NotStarted
<1>steps. LauncherSteps("placing", "submitted", None, "run", "handle")
  BY DEF SubmitForeground
<1>save. /\ lpc = "placing" /\ faults' \in 0..MaxFaults /\ launch' \in Receipts \cup {None}
         /\ \/ lpc' = "run" /\ launch' # None /\ launch'.status = "submitted"
            \/ lpc' = "handle" /\ (launch' = launch \/ (launch' # None /\ launch'.status = "submitted"))
         /\ UNCHANGED <<placement, run, stop, claim, requested, wpc, runner, provider, observer, kills, history>>
  BY <1>inv, <1>args, <1>steps, LauncherFacts
<1>guard. placement = "foreground"
  BY DEF SubmitForeground, NotStarted
<1>types. TypeOK'
  <2>1. FileTypes'
    BY <1>save, <1>guard, <1>parts DEF FileTypes, provider
  <2>2. StepTypes'
    BY <1>save, <1>guard, <1>parts DEF StepTypes, FileTypes, LauncherPoints, WorkerSteps, provider,
       runner, SignalSteps
  <2>4. CountTypes'
    BY <1>save, <1>guard, <1>parts, SessionAssumption DEF CountTypes, FileTypes, provider, history
  <2> QED BY <1>save, <1>guard, <1>inv, <2>1, <2>2, <2>4, SessionTypes DEF provider
<1>launch. LaunchInv'
  BY <1>save, <1>guard, <1>inv DEF LaunchInv, NoWorkers, Receipted, provider
<1>claim. ClaimInv'
  BY SessionAssumption, <1>save, <1>guard, <1>inv DEF TypeOK, ClaimInv, Idle, Before, provider, history
<1>provider. ProviderInv'
  BY <1>save, <1>guard, <1>inv DEF TypeOK, ProviderInv, Done, provider, runner, history, SignalSteps, Lost
<1>record. RecordInv'
  BY SessionAssumption, <1>save, <1>guard, <1>inv DEF TypeOK, LaunchInv, ClaimInv, ProviderInv, RecordInv,
     HonestCompletion, NoWorkers, Receipted, Idle, Before, Open, Done, Final, Terminal, provider,
     SignalSteps, Lost
<1>stop. StopInv'
  BY SessionAssumption, <1>save, <1>guard, <1>inv DEF TypeOK, StopInv, Idle, provider, history
<1> QED BY <1>types, <1>launch, <1>claim, <1>provider, <1>record, <1>stop DEF IInv

LEMMA KeepHandleFailure ==
    ASSUME IInv, HandleFailure
    PROVE  IInv'
<1>inv. TypeOK /\ LaunchInv /\ ClaimInv /\ ProviderInv /\ RecordInv /\ StopInv
  BY DEF IInv
<1>parts. FileTypes /\ StepTypes /\ ObserverTypes /\ CountTypes
  BY <1>inv, TypeParts
<1>args. "failed" \in LaunchStatuses /\ None \in Workers \cup {None}
  BY <1>inv, RecordAssumption DEF LaunchStatuses, Receipts, HandleFailure, NotStarted
<1>steps. LauncherSteps("handle", "failed", None, "failing", "done")
  BY DEF HandleFailure
<1>save. /\ lpc = "handle" /\ faults' \in 0..MaxFaults /\ launch' \in Receipts \cup {None}
         /\ \/ lpc' = "failing" /\ launch' # None /\ launch'.status = "failed"
            \/ lpc' = "done" /\ (launch' = launch \/ (launch' # None /\ launch'.status = "failed"))
         /\ UNCHANGED <<placement, run, stop, claim, requested, wpc, runner, provider, observer, kills, history>>
  BY <1>inv, <1>args, <1>steps, LauncherFacts
<1>guard. launch.status = "prepared"
  BY DEF HandleFailure, NotStarted
<1>types. TypeOK'
  <2>1. FileTypes'
    BY <1>save, <1>guard, <1>parts DEF FileTypes, provider
  <2>2. StepTypes'
    BY <1>save, <1>guard, <1>parts DEF StepTypes, FileTypes, LauncherPoints, WorkerSteps, provider,
       runner, SignalSteps
  <2>4. CountTypes'
    BY <1>save, <1>guard, <1>parts, SessionAssumption DEF CountTypes, FileTypes, provider, history
  <2> QED BY <1>save, <1>guard, <1>inv, <2>1, <2>2, <2>4, SessionTypes DEF provider
<1>launch. LaunchInv'
  BY <1>save, <1>guard, <1>inv DEF LaunchInv, NoWorkers, Receipted, provider
<1>claim. ClaimInv'
  BY SessionAssumption, <1>save, <1>guard, <1>inv DEF TypeOK, ClaimInv, Idle, Before, provider, history
<1>provider. ProviderInv'
  BY <1>save, <1>guard, <1>inv DEF TypeOK, ProviderInv, Done, provider, runner, history, SignalSteps, Lost
<1>record. RecordInv'
  BY SessionAssumption, <1>save, <1>guard, <1>inv DEF TypeOK, RecordInv, HonestCompletion, Receipted, Open,
     Done, Final, provider, runner, SignalSteps
<1>stop. StopInv'
  BY SessionAssumption, <1>save, <1>guard, <1>inv DEF TypeOK, StopInv, Idle, provider, history
<1> QED BY <1>types, <1>launch, <1>claim, <1>provider, <1>record, <1>stop DEF IInv

LEMMA KeepHandleUncertain ==
    ASSUME IInv, HandleUncertain
    PROVE  IInv'
<1>inv. TypeOK /\ LaunchInv /\ ClaimInv /\ ProviderInv /\ RecordInv /\ StopInv
  BY DEF IInv
<1>parts. FileTypes /\ StepTypes /\ ObserverTypes /\ CountTypes
  BY <1>inv, TypeParts
<1>args. launch.status \in LaunchStatuses /\ launch.runner \in Workers \cup {None}
  BY <1>inv, RecordAssumption DEF LaunchStatuses, TypeOK, Receipts, LaunchInv, HandleUncertain, NotStarted
<1>steps. LauncherSteps("handle", launch.status, launch.runner, (IF placement = "foreground" THEN "run" ELSE "done"), "done")
  BY DEF HandleUncertain
<1>save. /\ lpc = "handle" /\ faults' \in 0..MaxFaults /\ launch' \in Receipts \cup {None}
         /\ \/ lpc' = (IF placement = "foreground" THEN "run" ELSE "done") /\ launch' # None /\ launch'.status = launch.status
            \/ lpc' = "done" /\ (launch' = launch \/ (launch' # None /\ launch'.status = launch.status))
         /\ UNCHANGED <<placement, run, stop, claim, requested, wpc, runner, provider, observer, kills, history>>
  BY <1>inv, <1>args, <1>steps, LauncherFacts
<1>guard. launch.status # "prepared"
  BY DEF HandleUncertain, NotStarted
<1>types. TypeOK'
  <2>1. FileTypes'
    BY <1>save, <1>guard, <1>parts DEF FileTypes, provider
  <2>2. StepTypes'
    BY <1>save, <1>guard, <1>parts DEF StepTypes, FileTypes, LauncherPoints, WorkerSteps, provider,
       runner, SignalSteps
  <2>4. CountTypes'
    BY <1>save, <1>guard, <1>parts, SessionAssumption DEF CountTypes, FileTypes, provider, history
  <2> QED BY <1>save, <1>guard, <1>inv, <2>1, <2>2, <2>4, SessionTypes DEF provider
<1>launch. LaunchInv'
  BY <1>save, <1>guard, <1>inv DEF LaunchInv, NoWorkers, Receipted, provider
<1>claim. ClaimInv'
  BY SessionAssumption, <1>save, <1>guard, <1>inv DEF TypeOK, ClaimInv, Idle, Before, provider, history
<1>provider. ProviderInv'
  BY <1>save, <1>guard, <1>inv DEF TypeOK, ProviderInv, Done, provider, runner, history, SignalSteps, Lost
<1>record. RecordInv'
  BY SessionAssumption, <1>save, <1>guard, <1>inv DEF TypeOK, RecordInv, HonestCompletion, Receipted, Open,
     Done, Final, provider, runner, SignalSteps
<1>stop. StopInv'
  BY SessionAssumption, <1>save, <1>guard, <1>inv DEF TypeOK, StopInv, Idle, provider, history
<1> QED BY <1>types, <1>launch, <1>claim, <1>provider, <1>record, <1>stop DEF IInv

LEMMA KeepFailRun ==
    ASSUME IInv, FailRun
    PROVE  IInv'
<1>inv. TypeOK /\ LaunchInv /\ ClaimInv /\ ProviderInv /\ RecordInv /\ StopInv
  BY DEF IInv
<1>parts. FileTypes /\ StepTypes /\ ObserverTypes /\ CountTypes
  BY <1>inv, TypeParts
<1>save. /\ run' \in Records \cup {None}
         /\ \/ lpc' = "done" /\ run' = run
            \/ /\ lpc' \in {(IF placement = "foreground" THEN "run" ELSE "done"), "done"}
               /\ run' # None /\ run'.status = "failed" /\ run'.runner = None /\ ~run'.lost
  <2> DEFINE record == [status |-> "failed", runner |-> None, lost |-> FALSE]
  <2>1. record \in Records /\ record # None
    <3>1. record \in Records
      BY DEF Records, Statuses, Terminal
    <3> HIDE DEF record
    <3> QED BY <3>1, RecordAssumption
  <2>2. record.status = "failed" /\ record.runner = None /\ ~record.lost
    OBVIOUS
  <2>3. \/ lpc' = (IF placement = "foreground" THEN "run" ELSE "done") /\ run' = record
        \/ lpc' = "done" /\ run' \in {run, record}
    BY DEF FailRun, Saves, SaveRaises
  <2> HIDE DEF record
  <2> QED BY <2>1, <2>2, <2>3, <1>parts DEF FileTypes
<1>types. TypeOK'
  <2>1. FileTypes'
    BY <1>save, <1>parts DEF FileTypes, FailRun, Saves, SaveRaises, provider
  <2>2. StepTypes'
    BY <1>save, <1>parts DEF StepTypes, FileTypes, LauncherPoints, WorkerSteps, FailRun, Saves, SaveRaises,
       provider, runner, SignalSteps
  <2>4. CountTypes'
    BY <1>save, <1>parts, SessionAssumption DEF CountTypes, FileTypes, FailRun, Saves, SaveRaises, provider,
       history
  <2> QED BY <1>save, <1>inv, <2>1, <2>2, <2>4, SessionTypes DEF FailRun, Saves, SaveRaises, provider
<1>launch. LaunchInv'
  BY <1>save, <1>inv DEF LaunchInv, NoWorkers, Receipted, FailRun, Saves, SaveRaises, provider
<1>claim. ClaimInv'
  BY SessionAssumption, <1>save, <1>inv DEF TypeOK, ClaimInv, Idle, Before, FailRun, Saves, SaveRaises,
     provider, history
<1>provider. ProviderInv'
  BY <1>save, <1>inv DEF TypeOK, ProviderInv, Done, FailRun, Saves, SaveRaises, provider, runner, history,
     SignalSteps, Lost
<1>record. RecordInv'
  BY SessionAssumption, <1>save, <1>inv DEF TypeOK, LaunchInv, ClaimInv, ProviderInv, RecordInv,
     HonestCompletion, NoWorkers, Receipted, Idle, Before, Open, Done, Final, Terminal, FailRun, Saves,
     SaveRaises, provider, SignalSteps, Lost
<1>stop. StopInv'
  BY SessionAssumption, <1>save, <1>inv DEF TypeOK, StopInv, Idle, FailRun, Saves, SaveRaises, provider,
     history
<1> QED BY <1>types, <1>launch, <1>claim, <1>provider, <1>record, <1>stop DEF IInv

LEMMA KeepRunForeground ==
    ASSUME IInv, NEW w \in Workers, RunForeground(w)
    PROVE  IInv'
<1>inv. TypeOK /\ LaunchInv /\ ClaimInv /\ ProviderInv /\ RecordInv /\ StopInv
  BY DEF IInv
<1>parts. FileTypes /\ StepTypes /\ ObserverTypes /\ CountTypes
  BY <1>inv, TypeParts
<1>types. TypeOK'
  <2>1. FileTypes'
    BY <1>parts DEF FileTypes, RunForeground, files, provider
  <2>2. StepTypes'
    BY <1>parts DEF StepTypes, FileTypes, LauncherPoints, WorkerSteps, RunForeground, provider, runner,
       SignalSteps
  <2>4. CountTypes'
    BY <1>parts, SessionAssumption DEF CountTypes, FileTypes, RunForeground, provider, history
  <2> QED BY <1>inv, <2>1, <2>2, <2>4, SessionTypes DEF RunForeground, provider
<1>launch. LaunchInv'
  BY <1>inv DEF LaunchInv, NoWorkers, Receipted, RunForeground, files, provider
<1>claim. ClaimInv'
  BY SessionAssumption, <1>inv DEF TypeOK, ClaimInv, Idle, Before, RunForeground, files, provider, history
<1>provider. ProviderInv'
  BY <1>inv DEF TypeOK, ProviderInv, Done, RunForeground, provider, runner, history, SignalSteps, Lost
<1>record. RecordInv'
  BY SessionAssumption, <1>inv DEF TypeOK, RecordInv, HonestCompletion, Receipted, Open, Done, Final,
     RunForeground, files, provider, runner, SignalSteps
<1>stop. StopInv'
  BY SessionAssumption, <1>inv DEF TypeOK, StopInv, Idle, RunForeground, files, provider, history
<1> QED BY <1>types, <1>launch, <1>claim, <1>provider, <1>record, <1>stop DEF IInv

LEMMA KeepClaim ==
    ASSUME IInv, NEW w \in Workers, Claim(w)
    PROVE  IInv'
<1>inv. TypeOK /\ LaunchInv /\ ClaimInv /\ ProviderInv /\ RecordInv /\ StopInv
  BY DEF IInv
<1>parts. FileTypes /\ StepTypes /\ ObserverTypes /\ CountTypes
  BY <1>inv, TypeParts
<1>types. TypeOK'
  <2>1. FileTypes'
    BY <1>parts DEF FileTypes, Claim, MayClaim, Goto, WorkerOnly, provider
  <2>2. StepTypes'
    BY <1>parts DEF StepTypes, FileTypes, LauncherPoints, WorkerSteps, Claim, MayClaim, Goto, WorkerOnly,
       provider, runner, SignalSteps
  <2>4. CountTypes'
    BY <1>parts, SessionAssumption DEF CountTypes, FileTypes, Claim, MayClaim, Goto, WorkerOnly, provider
  <2> QED BY <1>inv, <2>1, <2>2, <2>4, SessionTypes DEF Claim, MayClaim, Goto, WorkerOnly, provider
<1>launch. LaunchInv'
  BY <1>inv DEF LaunchInv, NoWorkers, Receipted, Claim, MayClaim, Goto, WorkerOnly, provider
<1>claim. ClaimInv'
  BY SessionAssumption, <1>inv DEF TypeOK, ClaimInv, Idle, Before, Claim, MayClaim, Goto, WorkerOnly,
     provider
<1>provider. ProviderInv'
  BY <1>inv DEF TypeOK, ProviderInv, Done, Claim, MayClaim, Goto, WorkerOnly, provider, runner,
     SignalSteps, Lost
<1>record. RecordInv'
  BY SessionAssumption, <1>inv DEF TypeOK, LaunchInv, ClaimInv, ProviderInv, RecordInv, HonestCompletion,
     NoWorkers, Receipted, Idle, Before, Open, Done, Final, Terminal, Claim, MayClaim, Goto, WorkerOnly,
     provider, runner, SignalSteps, Lost
<1>stop. StopInv'
  <2>1. CASE MayClaim
    <3>1. claim = None /\ claim' = w /\ early' = stop /\ wpc' = [wpc EXCEPT ![w] = "claimed"]
      BY <2>1 DEF Claim, MayClaim, Goto
    <3>2. leader = "none" /\ starts = 0
      BY <3>1, <1>inv DEF ClaimInv
    <3>3. \A v \in Workers : wpc[v] \in Idle
      BY <3>1, <1>inv, SessionAssumption DEF ClaimInv
    <3>4. UNCHANGED <<starts, stop>>
      BY DEF Claim, WorkerOnly
    <3>5. \A v \in Workers : wpc'[v] \in Idle \cup {"claimed"}
      BY <3>1, <3>3, <1>parts DEF StepTypes
    <3> QED BY <3>1, <3>2, <3>4, <3>5, SessionAssumption DEF StopInv
  <2>2. CASE ~MayClaim
    <3>1. UNCHANGED <<claim, early, starts, stop>> /\ wpc' = [wpc EXCEPT ![w] = "gone"]
      BY <2>2 DEF Claim, Goto, WorkerOnly
    <3>2. \A v \in Workers : wpc'[v] \in {wpc[v], "gone"}
      BY <3>1, <1>parts DEF StepTypes
    <3> QED BY <3>1, <3>2, <1>inv DEF StopInv, Idle
  <2> QED BY <2>1, <2>2
<1> QED BY <1>types, <1>launch, <1>claim, <1>provider, <1>record, <1>stop DEF IInv

LEMMA KeepSaveStarting ==
    ASSUME IInv, NEW w \in Workers, SaveStarting(w)
    PROVE  IInv'
<1>inv. TypeOK /\ LaunchInv /\ ClaimInv /\ ProviderInv /\ RecordInv /\ StopInv
  BY DEF IInv
<1>parts. FileTypes /\ StepTypes /\ ObserverTypes /\ CountTypes
  BY <1>inv, TypeParts
<1>r. run # None /\ [run EXCEPT !.status = "starting", !.runner = w] \in Records
  <2>1. run \in Records
    BY <1>inv DEF TypeOK, LaunchInv, ClaimInv, NoWorkers, Idle, SaveStarting, WorkerSaves
  <2> QED BY <2>1, RecordAssumption DEF Records, Statuses
<1>save. /\ wpc[w] = "claimed" /\ faults' \in 0..MaxFaults
         /\ wpc' \in [Workers -> WorkerSteps] /\ \A v \in Workers : v # w => wpc'[v] = wpc[v]
         /\ run' # None
         /\ (wpc'[w] = "begin" /\ run' = [run EXCEPT !.status = "starting", !.runner = w]) \/ (wpc'[w] = "gone" /\ run' \in {run, [run EXCEPT !.status = "starting", !.runner = w]})
         /\ UNCHANGED <<placement, launch, stop, lpc, requested, observer, kills, claim, runner, provider, history>>
  <2>1. wpc \in [Workers -> WorkerSteps] /\ faults \in 0..MaxFaults
    BY <1>parts DEF StepTypes, CountTypes
  <2>2. \/ run' = [run EXCEPT !.status = "starting", !.runner = w] /\ wpc' = [wpc EXCEPT ![w] = "begin"] /\ UNCHANGED faults
        \/ run' \in {run, [run EXCEPT !.status = "starting", !.runner = w]} /\ wpc' = [wpc EXCEPT ![w] = "gone"] /\ faults < MaxFaults /\ faults' = faults + 1
    BY DEF SaveStarting, WorkerSaves, Saves, SaveRaises, Goto
  <2>3. faults' \in 0..MaxFaults
    BY <2>1, <2>2, SessionAssumption
  <2>4. run' # None
    BY <1>r, <2>2, RecordAssumption
  <2>5. wpc' \in [Workers -> WorkerSteps]
    BY <2>1, <2>2 DEF WorkerSteps, SignalSteps
  <2> QED BY <2>1, <2>2, <2>3, <2>4, <2>5 DEF SaveStarting, WorkerSaves, WorkerOnly
<1>fields. /\ run' \in Records
           /\ run' = run \/ run'.status = "starting"
           /\ \/ wpc'[w] = "begin" /\ run'.status = "starting"
              \/ wpc'[w] = "gone"
           /\ run'.runner \in {run.runner, w} /\ run'.lost = run.lost
           /\ claim = w
  <2>1. run \in Records
    BY <1>inv, <1>r DEF TypeOK
  <2>2. claim = w
    BY <1>inv, <1>save DEF ClaimInv, Idle
  <2> QED BY <1>r, <1>save, <2>1, <2>2 DEF Records
<1>types. TypeOK'
  <2>1. FileTypes'
    BY <1>save, <1>r, <1>fields, <1>parts DEF FileTypes, provider
  <2>2. StepTypes'
    BY <1>save, <1>r, <1>fields, <1>parts DEF StepTypes, FileTypes, LauncherPoints, WorkerSteps, provider,
       runner, SignalSteps
  <2>4. CountTypes'
    BY <1>save, <1>r, <1>fields, <1>parts, SessionAssumption DEF CountTypes, FileTypes, provider, history
  <2> QED BY <1>save, <1>r, <1>fields, <1>inv, <2>1, <2>2, <2>4, SessionTypes DEF provider
<1>launch. LaunchInv'
  BY <1>save, <1>r, <1>fields, <1>inv DEF LaunchInv, NoWorkers, Receipted, provider
<1>claim. ClaimInv'
  BY SessionAssumption, <1>save, <1>r, <1>fields, <1>inv DEF TypeOK, ClaimInv, Idle, Before, provider,
     history
<1>provider. ProviderInv'
  BY <1>save, <1>r, <1>fields, <1>inv DEF TypeOK, ProviderInv, Done, provider, runner, history,
     SignalSteps, Lost
<1>record. RecordInv'
  <2>1. leader = "none" /\ UNCHANGED <<leader, code, sent, claim, launch, placement>>
    BY <1>save, <1>inv DEF ClaimInv, Before, runner, provider
  <2>2. claim # None /\ \A v \in Workers : wpc'[v] \notin Idle => v = w
    BY <1>save, <1>fields, <1>inv, SessionAssumption DEF ClaimInv
  <2>3. \/ wpc'[w] = "begin" /\ ~Final'
        \/ wpc'[w] = "gone" /\ (~Final' \/ run' = run)
    BY <1>save, <1>fields DEF Final, Terminal
  <2>4. HonestCompletion'
    BY <2>1, <1>fields, <1>inv, <1>r DEF RecordInv, HonestCompletion
  <2>5. \A v \in Workers : wpc'[v] \in Open \cup {"except", "claimed"} => ~Final'
    BY <2>2, <2>3 DEF Open, Idle, SignalSteps
  <2> QED BY <2>1, <2>2, <2>4, <2>5 DEF RecordInv, Done
<1>stop. StopInv'
  BY SessionAssumption, <1>save, <1>r, <1>fields, <1>inv DEF TypeOK, StopInv, Idle, provider, history
<1> QED BY <1>types, <1>launch, <1>claim, <1>provider, <1>record, <1>stop DEF IInv

LEMMA KeepFirstCheck ==
    ASSUME IInv, NEW w \in Workers, FirstCheck(w)
    PROVE  IInv'
<1>inv. TypeOK /\ LaunchInv /\ ClaimInv /\ ProviderInv /\ RecordInv /\ StopInv
  BY DEF IInv
<1>parts. FileTypes /\ StepTypes /\ ObserverTypes /\ CountTypes
  BY <1>inv, TypeParts
<1>types. TypeOK'
  <2>1. FileTypes'
    BY <1>parts DEF FileTypes, FirstCheck, CheckCancelled, Goto, WorkerOnly, provider
  <2>2. StepTypes'
    BY <1>parts DEF StepTypes, FileTypes, LauncherPoints, WorkerSteps, FirstCheck, CheckCancelled, Goto,
       WorkerOnly, provider, SignalSteps
  <2>4. CountTypes'
    BY <1>parts, SessionAssumption DEF CountTypes, FileTypes, FirstCheck, CheckCancelled, Goto, WorkerOnly,
       provider, history
  <2> QED BY <1>inv, <2>1, <2>2, <2>4, SessionTypes DEF FirstCheck, CheckCancelled, Goto, WorkerOnly,
     provider
<1>launch. LaunchInv'
  BY <1>inv DEF LaunchInv, NoWorkers, Receipted, FirstCheck, CheckCancelled, Goto, WorkerOnly, provider
<1>claim. ClaimInv'
  BY SessionAssumption, <1>inv DEF TypeOK, ClaimInv, Idle, Before, FirstCheck, CheckCancelled, Goto,
     WorkerOnly, provider, history
<1>provider. ProviderInv'
  BY <1>inv DEF TypeOK, ProviderInv, Done, FirstCheck, CheckCancelled, Goto, WorkerOnly, provider,
     history, SignalSteps, Lost
<1>record. RecordInv'
  BY SessionAssumption, <1>inv DEF TypeOK, RecordInv, HonestCompletion, Receipted, Open, Done, Final,
     FirstCheck, CheckCancelled, Goto, WorkerOnly, provider, SignalSteps
<1>stop. StopInv'
  BY SessionAssumption, <1>inv DEF TypeOK, StopInv, Idle, FirstCheck, CheckCancelled, Goto, WorkerOnly,
     provider, history
<1> QED BY <1>types, <1>launch, <1>claim, <1>provider, <1>record, <1>stop DEF IInv

LEMMA KeepTrust ==
    ASSUME IInv, NEW w \in Workers, Trust(w)
    PROVE  IInv'
<1>inv. TypeOK /\ LaunchInv /\ ClaimInv /\ ProviderInv /\ RecordInv /\ StopInv
  BY DEF IInv
<1>parts. FileTypes /\ StepTypes /\ ObserverTypes /\ CountTypes
  BY <1>inv, TypeParts
<1>types. TypeOK'
  <2>1. FileTypes'
    BY <1>parts DEF FileTypes, Trust, WorkerOnly, provider
  <2>2. StepTypes'
    BY <1>parts DEF StepTypes, FileTypes, LauncherPoints, WorkerSteps, Trust, WorkerOnly, provider,
       runner, SignalSteps
  <2>4. CountTypes'
    BY <1>parts, SessionAssumption DEF CountTypes, FileTypes, Trust, WorkerOnly, provider, history
  <2> QED BY <1>inv, <2>1, <2>2, <2>4, SessionTypes DEF Trust, WorkerOnly, provider
<1>launch. LaunchInv'
  BY <1>inv DEF LaunchInv, NoWorkers, Receipted, Trust, WorkerOnly, provider
<1>claim. ClaimInv'
  BY SessionAssumption, <1>inv DEF TypeOK, ClaimInv, Idle, Before, Trust, WorkerOnly, provider, history
<1>provider. ProviderInv'
  BY <1>inv DEF TypeOK, ProviderInv, Done, Trust, WorkerOnly, provider, runner, history, SignalSteps, Lost
<1>record. RecordInv'
  BY SessionAssumption, <1>inv DEF TypeOK, RecordInv, HonestCompletion, Receipted, Open, Done, Final, Trust,
     WorkerOnly, provider, runner, SignalSteps
<1>stop. StopInv'
  BY SessionAssumption, <1>inv DEF TypeOK, StopInv, Idle, Trust, WorkerOnly, provider, history
<1> QED BY <1>types, <1>launch, <1>claim, <1>provider, <1>record, <1>stop DEF IInv

LEMMA KeepSecondCheck ==
    ASSUME IInv, NEW w \in Workers, SecondCheck(w)
    PROVE  IInv'
<1>inv. TypeOK /\ LaunchInv /\ ClaimInv /\ ProviderInv /\ RecordInv /\ StopInv
  BY DEF IInv
<1>parts. FileTypes /\ StepTypes /\ ObserverTypes /\ CountTypes
  BY <1>inv, TypeParts
<1>types. TypeOK'
  <2>1. FileTypes'
    BY <1>parts DEF FileTypes, SecondCheck, CheckCancelled, Goto, WorkerOnly, provider
  <2>2. StepTypes'
    BY <1>parts DEF StepTypes, FileTypes, LauncherPoints, WorkerSteps, SecondCheck, CheckCancelled, Goto,
       WorkerOnly, provider, SignalSteps
  <2>4. CountTypes'
    BY <1>parts, SessionAssumption DEF CountTypes, FileTypes, SecondCheck, CheckCancelled, Goto, WorkerOnly,
       provider, history
  <2> QED BY <1>inv, <2>1, <2>2, <2>4, SessionTypes DEF SecondCheck, CheckCancelled, Goto, WorkerOnly,
     provider
<1>launch. LaunchInv'
  BY <1>inv DEF LaunchInv, NoWorkers, Receipted, SecondCheck, CheckCancelled, Goto, WorkerOnly, provider
<1>claim. ClaimInv'
  BY SessionAssumption, <1>inv DEF TypeOK, ClaimInv, Idle, Before, SecondCheck, CheckCancelled, Goto,
     WorkerOnly, provider, history
<1>provider. ProviderInv'
  BY <1>inv DEF TypeOK, ProviderInv, Done, SecondCheck, CheckCancelled, Goto, WorkerOnly, provider,
     history, SignalSteps, Lost
<1>record. RecordInv'
  BY SessionAssumption, <1>inv DEF TypeOK, RecordInv, HonestCompletion, Receipted, Open, Done, Final,
     SecondCheck, CheckCancelled, Goto, WorkerOnly, provider, SignalSteps
<1>stop. StopInv'
  BY SessionAssumption, <1>inv DEF TypeOK, StopInv, Idle, SecondCheck, CheckCancelled, Goto, WorkerOnly,
     provider, history
<1> QED BY <1>types, <1>launch, <1>claim, <1>provider, <1>record, <1>stop DEF IInv

LEMMA KeepStartFails ==
    ASSUME IInv, NEW w \in Workers, StartFails(w)
    PROVE  IInv'
<1>inv. TypeOK /\ LaunchInv /\ ClaimInv /\ ProviderInv /\ RecordInv /\ StopInv
  BY DEF IInv
<1>parts. FileTypes /\ StepTypes /\ ObserverTypes /\ CountTypes
  BY <1>inv, TypeParts
<1>types. TypeOK'
  <2>1. FileTypes'
    BY <1>parts DEF FileTypes, StartFails, Goto, WorkerOnly, provider
  <2>2. StepTypes'
    BY <1>parts DEF StepTypes, FileTypes, LauncherPoints, WorkerSteps, StartFails, Goto, WorkerOnly,
       provider, runner, SignalSteps
  <2>4. CountTypes'
    BY <1>parts, SessionAssumption DEF CountTypes, FileTypes, StartFails, Goto, WorkerOnly, provider,
       history
  <2> QED BY <1>inv, <2>1, <2>2, <2>4, SessionTypes DEF StartFails, Goto, WorkerOnly, provider
<1>launch. LaunchInv'
  BY <1>inv DEF LaunchInv, NoWorkers, Receipted, StartFails, Goto, WorkerOnly, provider
<1>claim. ClaimInv'
  BY SessionAssumption, <1>inv DEF TypeOK, ClaimInv, Idle, Before, StartFails, Goto, WorkerOnly, provider,
     history
<1>provider. ProviderInv'
  BY <1>inv DEF TypeOK, ProviderInv, Done, StartFails, Goto, WorkerOnly, provider, runner, history,
     SignalSteps, Lost
<1>record. RecordInv'
  BY SessionAssumption, <1>inv DEF TypeOK, RecordInv, HonestCompletion, Receipted, Open, Done, Final,
     StartFails, Goto, WorkerOnly, provider, runner, SignalSteps
<1>stop. StopInv'
  BY SessionAssumption, <1>inv DEF TypeOK, StopInv, Idle, StartFails, Goto, WorkerOnly, provider, history
<1> QED BY <1>types, <1>launch, <1>claim, <1>provider, <1>record, <1>stop DEF IInv

LEMMA KeepStart ==
    ASSUME IInv, NEW w \in Workers, Start(w)
    PROVE  IInv'
<1>inv. TypeOK /\ LaunchInv /\ ClaimInv /\ ProviderInv /\ RecordInv /\ StopInv
  BY DEF IInv
<1>parts. FileTypes /\ StepTypes /\ ObserverTypes /\ CountTypes
  BY <1>inv, TypeParts
<1>types. TypeOK'
  <2>1. FileTypes'
    BY <1>parts DEF FileTypes, Start, WorkerOnly, provider
  <2>2. StepTypes'
    BY <1>parts DEF StepTypes, FileTypes, LauncherPoints, WorkerSteps, Start, WorkerOnly, provider,
       runner, SignalSteps
  <2>4. CountTypes'
    BY <1>parts, SessionAssumption DEF CountTypes, FileTypes, Start, WorkerOnly, provider
  <2> QED BY <1>inv, <2>1, <2>2, <2>4, SessionTypes DEF Start, WorkerOnly, provider
<1>launch. LaunchInv'
  BY <1>inv DEF LaunchInv, NoWorkers, Receipted, Start, WorkerOnly, provider
<1>claim. ClaimInv'
  BY SessionAssumption, <1>inv DEF TypeOK, ClaimInv, Idle, Before, Start, WorkerOnly, provider
<1>provider. ProviderInv'
  BY <1>inv DEF TypeOK, ClaimInv, LaunchInv, NoWorkers, Receipted, ProviderInv, Idle, Before, Done, Start,
     WorkerOnly, provider, runner, SignalSteps, Lost
<1>record. RecordInv'
  BY SessionAssumption, <1>inv DEF TypeOK, LaunchInv, ClaimInv, ProviderInv, RecordInv, HonestCompletion,
     NoWorkers, Receipted, Idle, Before, Open, Done, Final, Terminal, Start, WorkerOnly, provider,
     SignalSteps, Lost
<1>stop. StopInv'
  BY SessionAssumption, <1>inv DEF TypeOK, StopInv, Idle, Start, WorkerOnly, provider
<1> QED BY <1>types, <1>launch, <1>claim, <1>provider, <1>record, <1>stop DEF IInv

LEMMA KeepSaveRunning ==
    ASSUME IInv, NEW w \in Workers, SaveRunning(w)
    PROVE  IInv'
<1>inv. TypeOK /\ LaunchInv /\ ClaimInv /\ ProviderInv /\ RecordInv /\ StopInv
  BY DEF IInv
<1>parts. FileTypes /\ StepTypes /\ ObserverTypes /\ CountTypes
  BY <1>inv, TypeParts
<1>r. run # None /\ [run EXCEPT !.status = "running"] \in Records
  <2>1. run \in Records
    BY <1>inv DEF TypeOK, LaunchInv, ClaimInv, NoWorkers, Idle, SaveRunning, WorkerSaves
  <2> QED BY <2>1, RecordAssumption DEF Records, Statuses
<1>save. /\ wpc[w] = "started" /\ faults' \in 0..MaxFaults
         /\ wpc' \in [Workers -> WorkerSteps] /\ \A v \in Workers : v # w => wpc'[v] = wpc[v]
         /\ run' # None
         /\ (wpc'[w] = "poll" /\ run' = [run EXCEPT !.status = "running"]) \/ (wpc'[w] = "except" /\ run' \in {run, [run EXCEPT !.status = "running"]})
         /\ UNCHANGED <<placement, launch, stop, lpc, requested, observer, kills, claim, runner, provider, history>>
  <2>1. wpc \in [Workers -> WorkerSteps] /\ faults \in 0..MaxFaults
    BY <1>parts DEF StepTypes, CountTypes
  <2>2. \/ run' = [run EXCEPT !.status = "running"] /\ wpc' = [wpc EXCEPT ![w] = "poll"] /\ UNCHANGED faults
        \/ run' \in {run, [run EXCEPT !.status = "running"]} /\ wpc' = [wpc EXCEPT ![w] = "except"] /\ faults < MaxFaults /\ faults' = faults + 1
    BY DEF SaveRunning, WorkerSaves, Saves, SaveRaises, Goto
  <2>3. faults' \in 0..MaxFaults
    BY <2>1, <2>2, SessionAssumption
  <2>4. run' # None
    BY <1>r, <2>2, RecordAssumption
  <2>5. wpc' \in [Workers -> WorkerSteps]
    BY <2>1, <2>2 DEF WorkerSteps, SignalSteps
  <2> QED BY <2>1, <2>2, <2>3, <2>4, <2>5 DEF SaveRunning, WorkerSaves, WorkerOnly
<1>fields. /\ run' \in Records
           /\ run' = run \/ run'.status = "running"
           /\ \/ wpc'[w] = "poll" /\ run'.status = "running"
              \/ wpc'[w] = "except"
           /\ run'.runner \in {run.runner, w} /\ run'.lost = run.lost
           /\ claim = w
  <2>1. run \in Records
    BY <1>inv, <1>r DEF TypeOK
  <2>2. claim = w
    BY <1>inv, <1>save DEF ClaimInv, Idle
  <2> QED BY <1>r, <1>save, <2>1, <2>2 DEF Records
<1>types. TypeOK'
  <2>1. FileTypes'
    BY <1>save, <1>r, <1>fields, <1>parts DEF FileTypes, provider
  <2>2. StepTypes'
    BY <1>save, <1>r, <1>fields, <1>parts DEF StepTypes, FileTypes, LauncherPoints, WorkerSteps, provider,
       runner, SignalSteps
  <2>4. CountTypes'
    BY <1>save, <1>r, <1>fields, <1>parts, SessionAssumption DEF CountTypes, FileTypes, provider, history
  <2> QED BY <1>save, <1>r, <1>fields, <1>inv, <2>1, <2>2, <2>4, SessionTypes DEF provider
<1>launch. LaunchInv'
  BY <1>save, <1>r, <1>fields, <1>inv DEF LaunchInv, NoWorkers, Receipted, provider
<1>claim. ClaimInv'
  BY SessionAssumption, <1>save, <1>r, <1>fields, <1>inv DEF TypeOK, ClaimInv, Idle, Before, provider,
     history
<1>provider. ProviderInv'
  BY <1>save, <1>r, <1>fields, <1>inv DEF TypeOK, ProviderInv, Done, provider, runner, history,
     SignalSteps, Lost
<1>record. RecordInv'
  BY SessionAssumption, <1>save, <1>r, <1>fields, <1>inv DEF TypeOK, LaunchInv, ClaimInv, ProviderInv,
     RecordInv, HonestCompletion, NoWorkers, Receipted, Idle, Before, Open, Done, Final, Terminal,
     provider, SignalSteps, Lost
<1>stop. StopInv'
  BY SessionAssumption, <1>save, <1>r, <1>fields, <1>inv DEF TypeOK, StopInv, Idle, provider, history
<1> QED BY <1>types, <1>launch, <1>claim, <1>provider, <1>record, <1>stop DEF IInv

(* waitid: the worker goes on to its signal if it still has a leader. *)
LEMMA KeepCheck ==
    ASSUME IInv, NEW w \in Workers, NEW from \in {"cont", "term", "kill", "bury", "burying"},
           NEW to \in SignalSteps \ {"forward"}, NEW onError \in {"except", "lost"}, Check(w, from, to, onError)
    PROVE  IInv'
<1>inv. TypeOK /\ LaunchInv /\ ClaimInv /\ ProviderInv /\ RecordInv /\ StopInv
  BY DEF IInv
<1>parts. FileTypes /\ StepTypes /\ ObserverTypes /\ CountTypes
  BY <1>inv, TypeParts
<1>types. TypeOK'
  <2>1. FileTypes'
    BY <1>parts DEF FileTypes, Check, Goto, WorkerOnly, provider
  <2>2. StepTypes'
    BY <1>parts DEF StepTypes, FileTypes, LauncherPoints, WorkerSteps, Check, Goto, WorkerOnly, provider,
       runner, SignalSteps
  <2>4. CountTypes'
    BY <1>parts, SessionAssumption DEF CountTypes, FileTypes, Check, Goto, WorkerOnly, provider, history
  <2> QED BY <1>inv, <2>1, <2>2, <2>4, SessionTypes DEF Check, Goto, WorkerOnly, provider
<1>launch. LaunchInv'
  BY <1>inv DEF LaunchInv, NoWorkers, Receipted, Check, Goto, WorkerOnly, provider
<1>claim. ClaimInv'
  BY SessionAssumption, <1>inv DEF TypeOK, ClaimInv, Idle, Before, SignalSteps, Check, Goto, WorkerOnly,
     provider, history
<1>provider. ProviderInv'
  BY <1>inv DEF TypeOK, ClaimInv, Idle, ProviderInv, Done, Owned, Check, Goto, WorkerOnly, provider,
     runner, history, SignalSteps, Lost
<1>record. RecordInv'
  BY SessionAssumption, <1>inv DEF TypeOK, RecordInv, HonestCompletion, Receipted, Open, Done, Final,
     Check, Goto, WorkerOnly, provider, runner, SignalSteps
<1>stop. StopInv'
  BY SessionAssumption, <1>inv DEF TypeOK, StopInv, Idle, SignalSteps, Check, Goto, WorkerOnly, provider,
     history
<1> QED BY <1>types, <1>launch, <1>claim, <1>provider, <1>record, <1>stop DEF IInv

(* killpg: one signal at most goes astray, and the check before the next one raises. *)
LEMMA KeepSend ==
    ASSUME IInv, NEW w \in Workers, NEW from \in SignalSteps, NEW kill \in BOOLEAN,
           NEW to \in {"started", "look", "kill", "reap", "burying", "buried"}, to \in {"reap", "buried"} => kill,
           Send(w, from, kill, to)
    PROVE  IInv'
<1>inv. TypeOK /\ LaunchInv /\ ClaimInv /\ ProviderInv /\ RecordInv /\ StopInv
  BY DEF IInv
<1>parts. FileTypes /\ StepTypes /\ ObserverTypes /\ CountTypes
  BY <1>inv, TypeParts
<1>here. wpc[w] \in SignalSteps /\ claim = w /\ leader \in {"running", "exited", "taken"} /\ strays = 0
         /\ ~Final /\ ~early
  BY <1>inv DEF Send, SignalSteps, ClaimInv, Idle, ProviderInv, RecordInv, Open, StopInv, Lost
<1>next. /\ wpc' = [wpc EXCEPT ![w] = to]
         /\ UNCHANGED <<placement, files, lpc, requested, observer, faults, kills, starts, early, interrupted, due>>
  BY DEF Send, Goto, WorkerOnly, files, runner
<1>signal. /\ leader' = leader \/ (leader = "running" /\ leader' = "exited" /\ code' = "signal")
           /\ leader' = leader => code' = code
           /\ kill => leader' # "running" /\ ~child'
           /\ code' \in {None, "zero", "error", "signal"}
           /\ child' \in BOOLEAN /\ (child' => child)
           /\ strays' \in {0, 1} /\ (strays' = 1 => leader = "taken")
  <2>1. GroupSignal(kill)
    BY DEF Send
  <2>2. /\ leader' = leader \/ (leader = "running" /\ leader' = "exited" /\ code' = "signal")
        /\ leader' = leader => code' = code
        /\ code' \in {None, "zero", "error", "signal"}
        /\ child' \in BOOLEAN /\ (child' => child)
        /\ strays' \in Nat /\ (strays' = strays \/ (strays' = strays + 1 /\ leader = "taken"))
    BY <1>here, <1>parts, <2>1, SignalFacts
  <2>3. kill => leader' # "running" /\ ~child'
    BY <1>here, <1>parts, <2>1, SignalFacts
  <2> QED BY <1>here, <2>2, <2>3
<1>sent. sent' \in BOOLEAN /\ (sent' => interrupted)
  BY <1>inv, <1>here DEF Send, runner, TypeOK, ProviderInv, SignalSteps, Lost
<1>wpc. /\ wpc \in [Workers -> WorkerSteps] /\ wpc' \in [Workers -> WorkerSteps] /\ wpc'[w] = to
        /\ \A v \in Workers : v # w => wpc'[v] = wpc[v]
        /\ \A v \in Workers : wpc'[v] \notin SignalSteps
  <2>1. wpc \in [Workers -> WorkerSteps] /\ to \in WorkerSteps /\ to \notin SignalSteps
    BY <1>parts DEF StepTypes, WorkerSteps, SignalSteps
  <2>2. \A v \in Workers : v # w => wpc[v] \notin SignalSteps
    BY <1>here, <1>inv DEF ClaimInv, Idle, SignalSteps
  <2> QED BY <1>next, <2>1, <2>2
<1>types. TypeOK'
  <2>1. FileTypes'
    BY <1>parts, <1>next DEF FileTypes, files
  <2>2. StepTypes'
    BY <1>parts, <1>next, <1>wpc, <1>signal, <1>sent DEF StepTypes
  <2>4. CountTypes'
    BY <1>parts, <1>next, <1>signal DEF CountTypes
  <2> QED BY <1>inv, <1>next, <2>1, <2>2, <2>4, SessionTypes
<1>launch. LaunchInv'
  <2>1. ~NoWorkers
    BY <1>here, SessionAssumption DEF NoWorkers
  <2> QED BY <1>inv, <2>1, <1>next DEF LaunchInv, Receipted, files
<1>claim. ClaimInv'
  BY <1>inv, <1>here, <1>next, <1>wpc, <1>signal DEF ClaimInv, Idle, Before, SignalSteps, files
<1>provider. ProviderInv'
  BY <1>inv, <1>here, <1>next, <1>wpc, <1>signal, <1>sent DEF ProviderInv, ClaimInv, Idle, Done, files,
     SignalSteps, Lost
<1>record. RecordInv'
  BY <1>inv, <1>here, <1>next, <1>wpc DEF RecordInv, ClaimInv, Idle, HonestCompletion, Receipted, Open,
     Done, Final, files, SignalSteps
<1>stop. StopInv'
  BY <1>inv, <1>here, <1>next DEF StopInv
<1> QED BY <1>types, <1>launch, <1>claim, <1>provider, <1>record, <1>stop DEF IInv

LEMMA KeepForward ==
    ASSUME IInv, NEW w \in Workers, Forward(w)
    PROVE  IInv'
<1>inv. TypeOK /\ LaunchInv /\ ClaimInv /\ ProviderInv /\ RecordInv /\ StopInv
  BY DEF IInv
<1>parts. FileTypes /\ StepTypes /\ ObserverTypes /\ CountTypes
  BY <1>inv, TypeParts
<1>here. wpc[w] \in SignalSteps /\ claim = w /\ leader \in {"running", "exited", "taken"} /\ strays = 0
         /\ ~Final /\ ~early
  BY <1>inv DEF Forward, SignalSteps, ClaimInv, Idle, ProviderInv, RecordInv, Open, StopInv, Lost
<1>next. /\ wpc' = [wpc EXCEPT ![w] = "stopping"]
         /\ UNCHANGED <<placement, files, lpc, requested, observer, faults, kills, starts, early, interrupted, due>>
  BY DEF Forward, Goto, WorkerOnly, files, runner
<1>signal. /\ leader' = leader \/ (leader = "running" /\ leader' = "exited" /\ code' = "signal")
           /\ leader' = leader => code' = code
           /\ code' \in {None, "zero", "error", "signal"}
           /\ child' \in BOOLEAN /\ (child' => child)
           /\ strays' \in {0, 1} /\ (strays' = 1 => leader = "taken")
  <2>1. GroupSignal(FALSE)
    BY DEF Forward
  <2>2. /\ leader' = leader \/ (leader = "running" /\ leader' = "exited" /\ code' = "signal")
        /\ leader' = leader => code' = code
        /\ code' \in {None, "zero", "error", "signal"}
        /\ child' \in BOOLEAN /\ (child' => child)
        /\ strays' \in Nat /\ (strays' = strays \/ (strays' = strays + 1 /\ leader = "taken"))
    BY <1>here, <1>parts, <2>1, SignalFacts
  <2> QED BY <1>here, <2>2
<1>sent. sent' \in BOOLEAN /\ (sent' => interrupted)
  BY <1>inv, <1>here DEF Forward, runner, TypeOK, ProviderInv, SignalSteps, Lost
<1>wpc. /\ wpc \in [Workers -> WorkerSteps] /\ wpc' \in [Workers -> WorkerSteps] /\ wpc'[w] = "stopping"
        /\ \A v \in Workers : v # w => wpc'[v] = wpc[v]
        /\ \A v \in Workers : wpc'[v] \notin SignalSteps
  <2>1. wpc \in [Workers -> WorkerSteps] /\ "stopping" \in WorkerSteps /\ "stopping" \notin SignalSteps
    BY <1>parts DEF StepTypes, WorkerSteps, SignalSteps
  <2>2. \A v \in Workers : v # w => wpc[v] \notin SignalSteps
    BY <1>here, <1>inv DEF ClaimInv, Idle, SignalSteps
  <2> QED BY <1>next, <2>1, <2>2
<1>types. TypeOK'
  <2>1. FileTypes'
    BY <1>parts, <1>next DEF FileTypes, files
  <2>2. StepTypes'
    BY <1>parts, <1>next, <1>wpc, <1>signal, <1>sent DEF StepTypes
  <2>4. CountTypes'
    BY <1>parts, <1>next, <1>signal DEF CountTypes
  <2> QED BY <1>inv, <1>next, <2>1, <2>2, <2>4, SessionTypes
<1>launch. LaunchInv'
  <2>1. ~NoWorkers
    BY <1>here, SessionAssumption DEF NoWorkers
  <2> QED BY <1>inv, <2>1, <1>next DEF LaunchInv, Receipted, files
<1>claim. ClaimInv'
  BY <1>inv, <1>here, <1>next, <1>wpc, <1>signal DEF ClaimInv, Idle, Before, SignalSteps, files
<1>provider. ProviderInv'
  BY <1>inv, <1>here, <1>next, <1>wpc, <1>signal, <1>sent DEF ProviderInv, ClaimInv, Idle, Done, files,
     SignalSteps, Lost
<1>record. RecordInv'
  BY <1>inv, <1>here, <1>next, <1>wpc DEF RecordInv, ClaimInv, Idle, HonestCompletion, Receipted, Open,
     Done, Final, files, SignalSteps
<1>stop. StopInv'
  BY <1>inv, <1>here, <1>next DEF StopInv
<1> QED BY <1>types, <1>launch, <1>claim, <1>provider, <1>record, <1>stop DEF IInv

LEMMA KeepPoll ==
    ASSUME IInv, NEW w \in Workers, Poll(w)
    PROVE  IInv'
<1>inv. TypeOK /\ LaunchInv /\ ClaimInv /\ ProviderInv /\ RecordInv /\ StopInv
  BY DEF IInv
<1>parts. FileTypes /\ StepTypes /\ ObserverTypes /\ CountTypes
  BY <1>inv, TypeParts
<1>types. TypeOK'
  <2>1. FileTypes'
    BY <1>parts DEF FileTypes, Poll, Goto, WorkerOnly, provider
  <2>2. StepTypes'
    BY <1>parts DEF StepTypes, FileTypes, LauncherPoints, WorkerSteps, Poll, Goto, WorkerOnly, provider,
       runner, SignalSteps
  <2>4. CountTypes'
    BY <1>parts, SessionAssumption DEF CountTypes, FileTypes, Poll, Goto, WorkerOnly, provider, history
  <2> QED BY <1>inv, <2>1, <2>2, <2>4, SessionTypes DEF Poll, Goto, WorkerOnly, provider
<1>launch. LaunchInv'
  BY <1>inv DEF LaunchInv, NoWorkers, Receipted, Poll, Goto, WorkerOnly, provider
<1>claim. ClaimInv'
  BY SessionAssumption, <1>inv DEF TypeOK, ClaimInv, Idle, Before, SignalSteps, Poll, Goto, WorkerOnly,
     provider, history
<1>provider. ProviderInv'
  BY <1>inv DEF TypeOK, ClaimInv, Idle, ProviderInv, Done, Owned, Poll, Goto, WorkerOnly, provider,
     runner, history, SignalSteps, Lost
<1>record. RecordInv'
  BY SessionAssumption, <1>inv DEF TypeOK, RecordInv, HonestCompletion, Receipted, Open, Done, Final,
     Poll, Goto, WorkerOnly, provider, runner, SignalSteps
<1>stop. StopInv'
  BY SessionAssumption, <1>inv DEF TypeOK, StopInv, Idle, SignalSteps, Poll, Goto, WorkerOnly, provider,
     history
<1> QED BY <1>types, <1>launch, <1>claim, <1>provider, <1>record, <1>stop DEF IInv

LEMMA KeepSaveStopping ==
    ASSUME IInv, NEW w \in Workers, SaveStopping(w)
    PROVE  IInv'
<1>inv. TypeOK /\ LaunchInv /\ ClaimInv /\ ProviderInv /\ RecordInv /\ StopInv
  BY DEF IInv
<1>parts. FileTypes /\ StepTypes /\ ObserverTypes /\ CountTypes
  BY <1>inv, TypeParts
<1>r. run # None /\ [run EXCEPT !.status = "stopping"] \in Records
  <2>1. run \in Records
    BY <1>inv DEF TypeOK, LaunchInv, ClaimInv, NoWorkers, Idle, SaveStopping, WorkerSaves
  <2> QED BY <2>1, RecordAssumption DEF Records, Statuses
<1>save. /\ wpc[w] = "stopping" /\ faults' \in 0..MaxFaults
         /\ wpc' \in [Workers -> WorkerSteps] /\ \A v \in Workers : v # w => wpc'[v] = wpc[v]
         /\ run' # None
         /\ (wpc'[w] = "escalate" /\ run' = [run EXCEPT !.status = "stopping"]) \/ (wpc'[w] = "except" /\ run' \in {run, [run EXCEPT !.status = "stopping"]})
         /\ UNCHANGED <<placement, launch, stop, lpc, requested, observer, kills, claim, runner, provider, history>>
  <2>1. wpc \in [Workers -> WorkerSteps] /\ faults \in 0..MaxFaults
    BY <1>parts DEF StepTypes, CountTypes
  <2>2. \/ run' = [run EXCEPT !.status = "stopping"] /\ wpc' = [wpc EXCEPT ![w] = "escalate"] /\ UNCHANGED faults
        \/ run' \in {run, [run EXCEPT !.status = "stopping"]} /\ wpc' = [wpc EXCEPT ![w] = "except"] /\ faults < MaxFaults /\ faults' = faults + 1
    BY DEF SaveStopping, WorkerSaves, Saves, SaveRaises, Goto
  <2>3. faults' \in 0..MaxFaults
    BY <2>1, <2>2, SessionAssumption
  <2>4. run' # None
    BY <1>r, <2>2, RecordAssumption
  <2>5. wpc' \in [Workers -> WorkerSteps]
    BY <2>1, <2>2 DEF WorkerSteps, SignalSteps
  <2> QED BY <2>1, <2>2, <2>3, <2>4, <2>5 DEF SaveStopping, WorkerSaves, WorkerOnly
<1>fields. /\ run' \in Records
           /\ run' = run \/ run'.status = "stopping"
           /\ \/ wpc'[w] = "escalate" /\ run'.status = "stopping"
              \/ wpc'[w] = "except"
           /\ run'.runner \in {run.runner, w} /\ run'.lost = run.lost
           /\ claim = w
  <2>1. run \in Records
    BY <1>inv, <1>r DEF TypeOK
  <2>2. claim = w
    BY <1>inv, <1>save DEF ClaimInv, Idle
  <2> QED BY <1>r, <1>save, <2>1, <2>2 DEF Records
<1>types. TypeOK'
  <2>1. FileTypes'
    BY <1>save, <1>r, <1>fields, <1>parts DEF FileTypes, provider
  <2>2. StepTypes'
    BY <1>save, <1>r, <1>fields, <1>parts DEF StepTypes, FileTypes, LauncherPoints, WorkerSteps, provider,
       runner, SignalSteps
  <2>4. CountTypes'
    BY <1>save, <1>r, <1>fields, <1>parts, SessionAssumption DEF CountTypes, FileTypes, provider, history
  <2> QED BY <1>save, <1>r, <1>fields, <1>inv, <2>1, <2>2, <2>4, SessionTypes DEF provider
<1>launch. LaunchInv'
  BY <1>save, <1>r, <1>fields, <1>inv DEF LaunchInv, NoWorkers, Receipted, provider
<1>claim. ClaimInv'
  BY SessionAssumption, <1>save, <1>r, <1>fields, <1>inv DEF TypeOK, ClaimInv, Idle, Before, provider,
     history
<1>provider. ProviderInv'
  BY <1>save, <1>r, <1>fields, <1>inv DEF TypeOK, ProviderInv, Done, provider, runner, history,
     SignalSteps, Lost
<1>record. RecordInv'
  BY SessionAssumption, <1>save, <1>r, <1>fields, <1>inv DEF TypeOK, LaunchInv, ClaimInv, ProviderInv,
     RecordInv, HonestCompletion, NoWorkers, Receipted, Idle, Before, Open, Done, Final, Terminal,
     provider, SignalSteps, Lost
<1>stop. StopInv'
  BY SessionAssumption, <1>save, <1>r, <1>fields, <1>inv DEF TypeOK, StopInv, Idle, provider, history
<1> QED BY <1>types, <1>launch, <1>claim, <1>provider, <1>record, <1>stop DEF IInv

LEMMA KeepEscalate ==
    ASSUME IInv, NEW w \in Workers, Escalate(w)
    PROVE  IInv'
<1>inv. TypeOK /\ LaunchInv /\ ClaimInv /\ ProviderInv /\ RecordInv /\ StopInv
  BY DEF IInv
<1>parts. FileTypes /\ StepTypes /\ ObserverTypes /\ CountTypes
  BY <1>inv, TypeParts
<1>types. TypeOK'
  <2>1. FileTypes'
    BY <1>parts DEF FileTypes, Escalate, Goto, WorkerOnly, provider
  <2>2. StepTypes'
    BY <1>parts DEF StepTypes, FileTypes, LauncherPoints, WorkerSteps, Escalate, Goto, WorkerOnly,
       provider, runner, SignalSteps
  <2>4. CountTypes'
    BY <1>parts, SessionAssumption DEF CountTypes, FileTypes, Escalate, Goto, WorkerOnly, provider, history
  <2> QED BY <1>inv, <2>1, <2>2, <2>4, SessionTypes DEF Escalate, Goto, WorkerOnly, provider
<1>launch. LaunchInv'
  BY <1>inv DEF LaunchInv, NoWorkers, Receipted, Escalate, Goto, WorkerOnly, provider
<1>claim. ClaimInv'
  BY SessionAssumption, <1>inv DEF TypeOK, ClaimInv, Idle, Before, SignalSteps, Escalate, Goto,
     WorkerOnly, provider, history
<1>provider. ProviderInv'
  BY <1>inv DEF TypeOK, ClaimInv, Idle, ProviderInv, Done, Owned, Escalate, Goto, WorkerOnly, provider,
     runner, history, SignalSteps, Lost
<1>record. RecordInv'
  BY SessionAssumption, <1>inv DEF TypeOK, RecordInv, HonestCompletion, Receipted, Open, Done, Final,
     Escalate, Goto, WorkerOnly, provider, runner, SignalSteps
<1>stop. StopInv'
  BY SessionAssumption, <1>inv DEF TypeOK, StopInv, Idle, SignalSteps, Escalate, Goto, WorkerOnly,
     provider, history
<1> QED BY <1>types, <1>launch, <1>claim, <1>provider, <1>record, <1>stop DEF IInv

LEMMA KeepLook ==
    ASSUME IInv, NEW w \in Workers, Look(w)
    PROVE  IInv'
<1>inv. TypeOK /\ LaunchInv /\ ClaimInv /\ ProviderInv /\ RecordInv /\ StopInv
  BY DEF IInv
<1>parts. FileTypes /\ StepTypes /\ ObserverTypes /\ CountTypes
  BY <1>inv, TypeParts
<1>types. TypeOK'
  <2>1. FileTypes'
    BY <1>parts DEF FileTypes, Look, Goto, WorkerOnly, provider
  <2>2. StepTypes'
    BY <1>parts DEF StepTypes, FileTypes, LauncherPoints, WorkerSteps, Look, Goto, WorkerOnly, provider,
       runner, SignalSteps
  <2>4. CountTypes'
    BY <1>parts, SessionAssumption DEF CountTypes, FileTypes, Look, Goto, WorkerOnly, provider, history
  <2> QED BY <1>inv, <2>1, <2>2, <2>4, SessionTypes DEF Look, Goto, WorkerOnly, provider
<1>launch. LaunchInv'
  BY <1>inv DEF LaunchInv, NoWorkers, Receipted, Look, Goto, WorkerOnly, provider
<1>claim. ClaimInv'
  BY SessionAssumption, <1>inv DEF TypeOK, ClaimInv, Idle, Before, Look, Goto, WorkerOnly, provider, history
<1>provider. ProviderInv'
  BY <1>inv DEF TypeOK, ProviderInv, Done, Look, Goto, WorkerOnly, provider, runner, history, SignalSteps,
     Lost
<1>record. RecordInv'
  BY SessionAssumption, <1>inv DEF TypeOK, RecordInv, HonestCompletion, Receipted, Open, Done, Final, Look,
     Goto, WorkerOnly, provider, runner, SignalSteps
<1>stop. StopInv'
  BY SessionAssumption, <1>inv DEF TypeOK, StopInv, Idle, Look, Goto, WorkerOnly, provider, history
<1> QED BY <1>types, <1>launch, <1>claim, <1>provider, <1>record, <1>stop DEF IInv

LEMMA KeepObservedUnsaved ==
    ASSUME IInv, NEW w \in Workers, ObservedUnsaved(w)
    PROVE  IInv'
<1>inv. TypeOK /\ LaunchInv /\ ClaimInv /\ ProviderInv /\ RecordInv /\ StopInv
  BY DEF IInv
<1>parts. FileTypes /\ StepTypes /\ ObserverTypes /\ CountTypes
  BY <1>inv, TypeParts
<1>types. TypeOK'
  <2>1. FileTypes'
    BY <1>parts DEF FileTypes, ObservedUnsaved, SaveRaises, Goto, WorkerOnly, provider
  <2>2. StepTypes'
    BY <1>parts DEF StepTypes, FileTypes, LauncherPoints, WorkerSteps, ObservedUnsaved, SaveRaises, Goto,
       WorkerOnly, provider, runner, SignalSteps
  <2>4. CountTypes'
    BY <1>parts, SessionAssumption DEF CountTypes, FileTypes, ObservedUnsaved, SaveRaises, Goto, WorkerOnly,
       provider, history
  <2> QED BY <1>inv, <2>1, <2>2, <2>4, SessionTypes DEF ObservedUnsaved, SaveRaises, Goto, WorkerOnly,
     provider
<1>launch. LaunchInv'
  BY <1>inv DEF LaunchInv, NoWorkers, Receipted, ObservedUnsaved, SaveRaises, Goto, WorkerOnly, provider
<1>claim. ClaimInv'
  BY SessionAssumption, <1>inv DEF TypeOK, ClaimInv, Idle, Before, ObservedUnsaved, SaveRaises, Goto,
     WorkerOnly, provider, history
<1>provider. ProviderInv'
  BY <1>inv DEF TypeOK, ProviderInv, Done, ObservedUnsaved, SaveRaises, Goto, WorkerOnly, provider, runner,
     history, SignalSteps, Lost
<1>record. RecordInv'
  BY SessionAssumption, <1>inv DEF TypeOK, RecordInv, HonestCompletion, Receipted, Open, Done, Final,
     ObservedUnsaved, SaveRaises, Goto, WorkerOnly, provider, runner, SignalSteps
<1>stop. StopInv'
  BY SessionAssumption, <1>inv DEF TypeOK, StopInv, Idle, ObservedUnsaved, SaveRaises, Goto, WorkerOnly,
     provider, history
<1> QED BY <1>types, <1>launch, <1>claim, <1>provider, <1>record, <1>stop DEF IInv

LEMMA KeepReap ==
    ASSUME IInv, NEW w \in Workers, Reap(w)
    PROVE  IInv'
<1>inv. TypeOK /\ LaunchInv /\ ClaimInv /\ ProviderInv /\ RecordInv /\ StopInv
  BY DEF IInv
<1>parts. FileTypes /\ StepTypes /\ ObserverTypes /\ CountTypes
  BY <1>inv, TypeParts
<1>types. TypeOK'
  <2>1. FileTypes'
    BY <1>parts DEF FileTypes, Reap, Wait, Goto, WorkerOnly, provider
  <2>2. StepTypes'
    BY <1>parts DEF StepTypes, FileTypes, LauncherPoints, WorkerSteps, Reap, Wait, Goto, WorkerOnly,
       provider, runner, SignalSteps
  <2>4. CountTypes'
    BY <1>parts, SessionAssumption DEF CountTypes, FileTypes, Reap, Wait, Goto, WorkerOnly, provider,
       history
  <2> QED BY <1>inv, <2>1, <2>2, <2>4, SessionTypes DEF Reap, Wait, Goto, WorkerOnly, provider
<1>launch. LaunchInv'
  BY <1>inv DEF LaunchInv, NoWorkers, Receipted, Reap, Wait, Goto, WorkerOnly, provider
<1>claim. ClaimInv'
  BY SessionAssumption, <1>inv DEF TypeOK, ClaimInv, LaunchInv, NoWorkers, Receipted, Idle, Before,
     ProviderInv, Done, Reap, Wait, Goto, WorkerOnly, provider, history, SignalSteps, Lost
<1>provider. ProviderInv'
  BY <1>inv DEF TypeOK, ClaimInv, LaunchInv, NoWorkers, Receipted, ProviderInv, Idle, Before, Done, Reap,
     Wait, Goto, WorkerOnly, provider, runner, history, SignalSteps, Lost
<1>record. RecordInv'
  BY SessionAssumption, <1>inv DEF TypeOK, RecordInv, HonestCompletion, Receipted, Open, Done, Final, Reap,
     Wait, Goto, WorkerOnly, provider, runner, SignalSteps
<1>stop. StopInv'
  BY SessionAssumption, <1>inv DEF TypeOK, StopInv, Idle, Reap, Wait, Goto, WorkerOnly, provider, history
<1> QED BY <1>types, <1>launch, <1>claim, <1>provider, <1>record, <1>stop DEF IInv

LEMMA KeepSaveOutcome ==
    ASSUME IInv, NEW w \in Workers, SaveOutcome(w)
    PROVE  IInv'
<1>inv. TypeOK /\ LaunchInv /\ ClaimInv /\ ProviderInv /\ RecordInv /\ StopInv
  BY DEF IInv
<1>parts. FileTypes /\ StepTypes /\ ObserverTypes /\ CountTypes
  BY <1>inv, TypeParts
<1>step. PICK outcome \in Outcomes : WorkerSaves(w, "final", [run EXCEPT !.status = outcome], "leaving", "except")
  BY DEF SaveOutcome
<1>r. run # None /\ run \in Records /\ outcome \in Terminal
  <2>1. wpc[w] = "final" /\ outcome \in Terminal
    BY <1>step DEF Outcomes, WorkerSaves, Terminal
  <2> QED BY <2>1, <1>inv DEF TypeOK, LaunchInv, ClaimInv, NoWorkers, Idle
<1>save. /\ wpc[w] = "final" /\ faults' \in 0..MaxFaults
         /\ wpc' \in [Workers -> WorkerSteps] /\ \A v \in Workers : v # w => wpc'[v] = wpc[v]
         /\ run' \in Records /\ run' # None
         /\ run'.runner = run.runner /\ run'.lost = run.lost
         /\ \/ wpc'[w] = "leaving" /\ run'.status = outcome
            \/ wpc'[w] = "except" /\ (run' = run \/ run'.status = outcome)
         /\ UNCHANGED <<placement, launch, stop, lpc, requested, observer, kills, claim, runner, provider, history>>
  <2> DEFINE r == [run EXCEPT !.status = outcome]
  <2>1. r \in Records /\ r.runner = run.runner /\ r.lost = run.lost /\ r.status = outcome
    BY <1>r DEF Records, Statuses
  <2>2. wpc[w] = "final"
    BY <1>step DEF WorkerSaves
  <2>3. \/ run' = r /\ wpc' = [wpc EXCEPT ![w] = "leaving"] /\ UNCHANGED faults
        \/ run' \in {run, r} /\ wpc' = [wpc EXCEPT ![w] = "except"] /\ faults < MaxFaults /\ faults' = faults + 1
    BY <1>step DEF WorkerSaves, Saves, SaveRaises, Goto
  <2>4. UNCHANGED <<placement, launch, stop, lpc, requested, observer, kills, claim, runner, provider, history>>
    BY <1>step DEF WorkerSaves, WorkerOnly
  <2> HIDE DEF r
  <2>5. faults' \in 0..MaxFaults
    BY <2>3, <1>parts, SessionAssumption DEF CountTypes
  <2>6. wpc' \in [Workers -> WorkerSteps]
    BY <2>3, <1>parts DEF StepTypes, WorkerSteps, SignalSteps
  <2>7. run' \in Records /\ run' # None
    BY <2>1, <2>3, <1>r, RecordAssumption
  <2> QED BY <1>r, <2>1, <2>2, <2>3, <2>4, <2>5, <2>6, <2>7, <1>parts DEF StepTypes
<1>who. claim = w /\ leader \in {"reaped", "collected"} /\ (outcome = "completed" => ~sent)
  BY <1>save, <1>step, <1>inv DEF ClaimInv, ProviderInv, Idle, Outcomes, SignalSteps, Lost
<1>types. TypeOK'
  <2>1. FileTypes'
    BY <1>save, <1>who, <1>r, <1>parts DEF FileTypes, provider
  <2>2. StepTypes'
    BY <1>save, <1>who, <1>r, <1>parts DEF StepTypes, FileTypes, LauncherPoints, WorkerSteps, provider,
       runner, SignalSteps
  <2>4. CountTypes'
    BY <1>save, <1>who, <1>r, <1>parts, SessionAssumption DEF CountTypes, FileTypes, provider, history
  <2> QED BY <1>save, <1>who, <1>r, <1>inv, <2>1, <2>2, <2>4, SessionTypes DEF provider
<1>launch. LaunchInv'
  BY <1>save, <1>who, <1>r, <1>inv DEF LaunchInv, NoWorkers, Receipted, provider
<1>claim. ClaimInv'
  BY SessionAssumption, <1>save, <1>who, <1>r, <1>inv DEF TypeOK, ClaimInv, Idle, Before, provider, history
<1>provider. ProviderInv'
  BY <1>save, <1>who, <1>r, <1>inv DEF TypeOK, ProviderInv, Done, provider, runner, history, SignalSteps,
     Lost
<1>record. RecordInv'
  <2>1. UNCHANGED <<leader, code, sent, claim, launch, placement>> /\ Done'
    BY <1>save, <1>who DEF runner, provider, Done
  <2>2. claim # None /\ \A v \in Workers : wpc'[v] \notin Idle => v = w
    BY <1>save, <1>who, <1>inv, SessionAssumption DEF ClaimInv
  <2>3. wpc'[w] \notin Open \cup {"claimed"}
    BY <1>save DEF Open, SignalSteps
  <2>4. outcome = "completed" => ~sent /\ ((leader = "reaped" /\ code = "zero") \/ leader = "collected")
    BY <1>step, <1>who, <1>inv DEF ProviderInv, Outcomes, SignalSteps, Lost
  <2>5. HonestCompletion'
    BY <2>1, <2>4, <1>save, <1>inv DEF RecordInv, HonestCompletion
  <2>6. \A v \in Workers : wpc'[v] \notin Open \cup {"claimed"}
    BY <2>2, <2>3 DEF Open, Idle, SignalSteps
  <2> QED BY <2>1, <2>2, <2>5, <2>6 DEF RecordInv
<1>stop. StopInv'
  BY SessionAssumption, <1>save, <1>who, <1>r, <1>inv DEF TypeOK, StopInv, Idle, provider, history
<1> QED BY <1>types, <1>launch, <1>claim, <1>provider, <1>record, <1>stop DEF IInv

LEMMA KeepHandle ==
    ASSUME IInv, NEW w \in Workers, Handle(w)
    PROVE  IInv'
<1>inv. TypeOK /\ LaunchInv /\ ClaimInv /\ ProviderInv /\ RecordInv /\ StopInv
  BY DEF IInv
<1>parts. FileTypes /\ StepTypes /\ ObserverTypes /\ CountTypes
  BY <1>inv, TypeParts
<1>types. TypeOK'
  <2>1. FileTypes'
    BY <1>parts DEF FileTypes, Handle, Goto, WorkerOnly, provider
  <2>2. StepTypes'
    BY <1>parts DEF StepTypes, FileTypes, LauncherPoints, WorkerSteps, Handle, Goto, WorkerOnly, provider,
       runner, SignalSteps
  <2>4. CountTypes'
    BY <1>parts, SessionAssumption DEF CountTypes, FileTypes, Handle, Goto, WorkerOnly, provider, history
  <2> QED BY <1>inv, <2>1, <2>2, <2>4, SessionTypes DEF Handle, Goto, WorkerOnly, provider
<1>launch. LaunchInv'
  BY <1>inv DEF LaunchInv, NoWorkers, Receipted, Handle, Goto, WorkerOnly, provider
<1>claim. ClaimInv'
  BY SessionAssumption, <1>inv DEF TypeOK, ClaimInv, Idle, Before, Handle, Goto, WorkerOnly, provider,
     history
<1>provider. ProviderInv'
  BY <1>inv DEF TypeOK, ProviderInv, Done, Handle, Goto, WorkerOnly, provider, runner, history,
     SignalSteps, Lost
<1>record. RecordInv'
  BY SessionAssumption, <1>inv DEF TypeOK, RecordInv, HonestCompletion, Receipted, Open, Done, Final,
     Handle, Goto, WorkerOnly, provider, runner, SignalSteps
<1>stop. StopInv'
  BY SessionAssumption, <1>inv DEF TypeOK, LaunchInv, ClaimInv, StopInv, NoWorkers, Receipted, Idle, Before,
     Handle, Goto, WorkerOnly, provider, history
<1> QED BY <1>types, <1>launch, <1>claim, <1>provider, <1>record, <1>stop DEF IInv

LEMMA KeepBuryReap ==
    ASSUME IInv, NEW w \in Workers, BuryReap(w)
    PROVE  IInv'
<1>inv. TypeOK /\ LaunchInv /\ ClaimInv /\ ProviderInv /\ RecordInv /\ StopInv
  BY DEF IInv
<1>parts. FileTypes /\ StepTypes /\ ObserverTypes /\ CountTypes
  BY <1>inv, TypeParts
<1>types. TypeOK'
  <2>1. FileTypes'
    BY <1>parts DEF FileTypes, BuryReap, Wait, Goto, WorkerOnly, provider
  <2>2. StepTypes'
    BY <1>parts DEF StepTypes, FileTypes, LauncherPoints, WorkerSteps, BuryReap, Wait, Goto, WorkerOnly,
       provider, runner, SignalSteps
  <2>4. CountTypes'
    BY <1>parts, SessionAssumption DEF CountTypes, FileTypes, BuryReap, Wait, Goto, WorkerOnly, provider,
       history
  <2> QED BY <1>inv, <2>1, <2>2, <2>4, SessionTypes DEF BuryReap, Wait, Goto, WorkerOnly, provider
<1>launch. LaunchInv'
  BY <1>inv DEF LaunchInv, NoWorkers, Receipted, BuryReap, Wait, Goto, WorkerOnly, provider
<1>claim. ClaimInv'
  BY SessionAssumption, <1>inv DEF TypeOK, ClaimInv, LaunchInv, NoWorkers, Receipted, Idle, Before,
     ProviderInv, Done, BuryReap, Wait, Goto, WorkerOnly, provider, history, SignalSteps, Lost
<1>provider. ProviderInv'
  BY <1>inv DEF TypeOK, ClaimInv, LaunchInv, NoWorkers, Receipted, ProviderInv, Idle, Before, Done,
     BuryReap, Wait, Goto, WorkerOnly, provider, runner, history, SignalSteps, Lost
<1>record. RecordInv'
  BY SessionAssumption, <1>inv DEF TypeOK, RecordInv, HonestCompletion, Receipted, Open, Done, Final,
     BuryReap, Wait, Goto, WorkerOnly, provider, runner, SignalSteps
<1>stop. StopInv'
  BY SessionAssumption, <1>inv DEF TypeOK, StopInv, Idle, BuryReap, Wait, Goto, WorkerOnly, provider,
     history
<1> QED BY <1>types, <1>launch, <1>claim, <1>provider, <1>record, <1>stop DEF IInv

LEMMA KeepSaveFailure ==
    ASSUME IInv, NEW w \in Workers, SaveFailure(w)
    PROVE  IInv'
<1>inv. TypeOK /\ LaunchInv /\ ClaimInv /\ ProviderInv /\ RecordInv /\ StopInv
  BY DEF IInv
<1>parts. FileTypes /\ StepTypes /\ ObserverTypes /\ CountTypes
  BY <1>inv, TypeParts
<1>save. /\ wpc[w] \in {"record", "lost"} /\ faults' \in 0..MaxFaults
         /\ wpc' \in [Workers -> WorkerSteps] /\ \A v \in Workers : v # w => wpc'[v] = wpc[v]
         /\ run # None /\ run' \in Records /\ run' # None
         /\ run'.runner = run.runner
         /\ run' = run \/ (run'.status \in {"interrupted", "failed"} /\ (wpc[w] = "lost" => run'.lost))
         /\ wpc'[w] \in {"leaving", "gone"}
         /\ UNCHANGED <<placement, launch, stop, lpc, requested, observer, kills, claim, runner, provider, history>>
  <2> DEFINE from == wpc[w]
             r == IF from = "record" THEN [run EXCEPT !.status = Failure]
                                     ELSE [run EXCEPT !.status = Failure, !.lost = TRUE]
  <2>1. /\ from \in {"record", "lost"}
        /\ \/ run' = r /\ wpc' = [wpc EXCEPT ![w] = "leaving"] /\ UNCHANGED faults
           \/ run' \in {run, r} /\ wpc' = [wpc EXCEPT ![w] = "gone"] /\ faults < MaxFaults /\ faults' = faults + 1
    BY DEF SaveFailure, WorkerSaves, Saves, SaveRaises, Goto
  <2>2. run # None /\ run \in Records
    BY <2>1, <1>inv DEF TypeOK, LaunchInv, ClaimInv, NoWorkers, Idle
  <2>3. r \in Records /\ r.runner = run.runner /\ r.status \in {"interrupted", "failed"} /\ (from = "lost" => r.lost)
    BY <2>2 DEF Records, Statuses, Terminal, Failure
  <2>4. UNCHANGED <<placement, launch, stop, lpc, requested, observer, kills, claim, runner, provider, history>>
    BY DEF SaveFailure, WorkerSaves, WorkerOnly
  <2> HIDE DEF r
  <2>5. faults' \in 0..MaxFaults
    BY <2>1, <1>parts, SessionAssumption DEF CountTypes
  <2>6. wpc' \in [Workers -> WorkerSteps]
    BY <2>1, <1>parts DEF StepTypes, WorkerSteps, SignalSteps
  <2>7. run' \in Records /\ run' # None
    BY <2>1, <2>2, <2>3, RecordAssumption
  <2> QED BY <2>1, <2>2, <2>3, <2>4, <2>5, <2>6, <2>7, <1>parts DEF StepTypes
<1>who. claim = w /\ (wpc[w] = "record" => Done) /\ (wpc[w] = "lost" => ~Final)
  BY <1>save, <1>inv DEF ClaimInv, ProviderInv, RecordInv, Idle, Open, SignalSteps, Lost
<1>types. TypeOK'
  <2>1. FileTypes'
    BY <1>save, <1>who, <1>parts DEF FileTypes, provider
  <2>2. StepTypes'
    BY <1>save, <1>who, <1>parts DEF StepTypes, FileTypes, LauncherPoints, WorkerSteps, provider, runner,
       SignalSteps
  <2>4. CountTypes'
    BY <1>save, <1>who, <1>parts, SessionAssumption DEF CountTypes, FileTypes, provider, history
  <2> QED BY <1>save, <1>who, <1>inv, <2>1, <2>2, <2>4, SessionTypes DEF provider
<1>launch. LaunchInv'
  BY <1>save, <1>who, <1>inv DEF LaunchInv, NoWorkers, Receipted, provider
<1>claim. ClaimInv'
  BY SessionAssumption, <1>save, <1>who, <1>inv DEF TypeOK, ClaimInv, Idle, Before, provider, history
<1>provider. ProviderInv'
  BY <1>save, <1>who, <1>inv DEF TypeOK, ProviderInv, Done, provider, runner, history, SignalSteps, Lost
<1>record. RecordInv'
  <2>1. UNCHANGED <<leader, code, sent, claim, launch, placement>>
    BY <1>save DEF runner, provider
  <2>2. claim # None /\ \A v \in Workers : wpc'[v] \in Idle \cup {"leaving"}
    BY <1>save, <1>who, <1>inv, SessionAssumption DEF ClaimInv, Idle
  <2>3. HonestCompletion'
    BY <2>1, <1>save, <1>inv DEF RecordInv, HonestCompletion
  <2>4. Final' /\ ~run'.lost => Done'
    BY <2>1, <2>2, <1>save, <1>who, <1>inv DEF RecordInv, Final, Done
  <2> QED BY <2>1, <2>2, <2>3, <2>4 DEF RecordInv, Open, Idle, SignalSteps
<1>stop. StopInv'
  BY SessionAssumption, <1>save, <1>who, <1>inv DEF TypeOK, StopInv, Idle, provider, history
<1> QED BY <1>types, <1>launch, <1>claim, <1>provider, <1>record, <1>stop DEF IInv

LEMMA KeepLeave ==
    ASSUME IInv, NEW w \in Workers, Leave(w)
    PROVE  IInv'
<1>inv. TypeOK /\ LaunchInv /\ ClaimInv /\ ProviderInv /\ RecordInv /\ StopInv
  BY DEF IInv
<1>parts. FileTypes /\ StepTypes /\ ObserverTypes /\ CountTypes
  BY <1>inv, TypeParts
<1>types. TypeOK'
  <2>1. FileTypes'
    BY <1>parts DEF FileTypes, Leave, Goto, WorkerOnly, provider
  <2>2. StepTypes'
    BY <1>parts DEF StepTypes, FileTypes, LauncherPoints, WorkerSteps, Leave, Goto, WorkerOnly, provider,
       runner, SignalSteps
  <2>4. CountTypes'
    BY <1>parts, SessionAssumption DEF CountTypes, FileTypes, Leave, Goto, WorkerOnly, provider, history
  <2> QED BY <1>inv, <2>1, <2>2, <2>4, SessionTypes DEF Leave, Goto, WorkerOnly, provider
<1>launch. LaunchInv'
  BY <1>inv DEF LaunchInv, NoWorkers, Receipted, Leave, Goto, WorkerOnly, provider
<1>claim. ClaimInv'
  BY SessionAssumption, <1>inv DEF TypeOK, ClaimInv, Idle, Before, Leave, Goto, WorkerOnly, provider,
     history
<1>provider. ProviderInv'
  BY <1>inv DEF TypeOK, ProviderInv, Done, Leave, Goto, WorkerOnly, provider, runner, history,
     SignalSteps, Lost
<1>record. RecordInv'
  BY SessionAssumption, <1>inv DEF TypeOK, RecordInv, HonestCompletion, Receipted, Open, Done, Final, Leave,
     Goto, WorkerOnly, provider, runner, SignalSteps
<1>stop. StopInv'
  BY SessionAssumption, <1>inv DEF TypeOK, StopInv, Idle, Leave, Goto, WorkerOnly, provider, history
<1> QED BY <1>types, <1>launch, <1>claim, <1>provider, <1>record, <1>stop DEF IInv

LEMMA KeepAsk ==
    ASSUME IInv, NEW o \in Observers, Ask(o)
    PROVE  IInv'
<1>inv. TypeOK /\ LaunchInv /\ ClaimInv /\ ProviderInv /\ RecordInv /\ StopInv
  BY DEF IInv
<1>parts. FileTypes /\ StepTypes /\ ObserverTypes /\ CountTypes
  BY <1>inv, TypeParts
<1>types. ObserverTypes'
  BY <1>parts, SessionAssumption DEF ObserverTypes, Ask, ObserverOnly
<1>only. ObserverOnly
  BY DEF Ask
<1>save. UNCHANGED <<stop, faults>> /\ stop \in BOOLEAN /\ faults \in 0..MaxFaults
  BY <1>parts DEF Ask, FileTypes, CountTypes
<1> QED BY <1>types, <1>only, <1>save, ObserverKeeps

LEMMA KeepReadRun ==
    ASSUME IInv, NEW o \in Observers, ReadRun(o)
    PROVE  IInv'
<1>inv. TypeOK /\ LaunchInv /\ ClaimInv /\ ProviderInv /\ RecordInv /\ StopInv
  BY DEF IInv
<1>parts. FileTypes /\ StepTypes /\ ObserverTypes /\ CountTypes
  BY <1>inv, TypeParts
<1>types. ObserverTypes'
  <2>1. opc' \in [Observers -> {"idle", "run", "launch", "proc", "request"}]
    BY <1>parts DEF ObserverTypes, ReadRun, Return
  <2>2. kind' \in [Observers -> {"wait", "stop"}]
    BY <1>parts DEF ObserverTypes, ReadRun, Return
  <2>3. answer' \in [Observers -> Terminal \cup {"orphaned", "uncertain", None}]
    BY <1>parts DEF ObserverTypes, ReadRun, Return
  <2>4. NothingSeen \in [status : Statuses \cup {None}, runner : Workers \cup {None}, launch : LaunchStatuses \cup {None}]
    BY DEF NothingSeen
  <2>5. run # None => [status |-> run.status, runner |-> run.runner, launch |-> None]
                         \in [status : Statuses \cup {None}, runner : Workers \cup {None}, launch : LaunchStatuses \cup {None}]
    BY <1>parts DEF FileTypes, Records
  <2>6. seen' \in [Observers -> [status : Statuses \cup {None}, runner : Workers \cup {None}, launch : LaunchStatuses \cup {None}]]
    BY <1>parts, <2>4, <2>5 DEF ObserverTypes, ReadRun, Return
  <2> QED BY <2>1, <2>2, <2>3, <2>6 DEF ObserverTypes
<1>only. ObserverOnly
  BY DEF ReadRun
<1>save. UNCHANGED <<stop, faults>> /\ stop \in BOOLEAN /\ faults \in 0..MaxFaults
  BY <1>parts DEF ReadRun, FileTypes, CountTypes
<1> QED BY <1>types, <1>only, <1>save, ObserverKeeps

LEMMA KeepReadLaunch ==
    ASSUME IInv, NEW o \in Observers, ReadLaunch(o)
    PROVE  IInv'
<1>inv. TypeOK /\ LaunchInv /\ ClaimInv /\ ProviderInv /\ RecordInv /\ StopInv
  BY DEF IInv
<1>parts. FileTypes /\ StepTypes /\ ObserverTypes /\ CountTypes
  BY <1>inv, TypeParts
<1>types. ObserverTypes'
  <2> DEFINE s == IF launch = None THEN None ELSE launch.status
             v == IF launch = None THEN None ELSE launch.runner
  <2>1. s \in LaunchStatuses \cup {None} /\ v \in Workers \cup {None}
    BY <1>parts DEF FileTypes, Receipts
  <2>2. seen' = [seen EXCEPT ![o] = [seen[o] EXCEPT !.launch = s, !.runner = v]]
    BY <1>parts DEF ObserverTypes, ReadLaunch
  <2> HIDE DEF s, v
  <2>3. [seen[o] EXCEPT !.launch = s, !.runner = v]
           \in [status : Statuses \cup {None}, runner : Workers \cup {None}, launch : LaunchStatuses \cup {None}]
    <3>1. seen[o] \in [status : Statuses \cup {None}, runner : Workers \cup {None}, launch : LaunchStatuses \cup {None}]
      BY <1>parts DEF ObserverTypes
    <3> QED
      BY <2>1, <3>1
  <2>4. seen' \in [Observers -> [status : Statuses \cup {None}, runner : Workers \cup {None}, launch : LaunchStatuses \cup {None}]]
    BY <1>parts, <2>2, <2>3 DEF ObserverTypes
  <2>5. opc' \in [Observers -> {"idle", "run", "launch", "proc", "request"}]
    BY <1>parts DEF ObserverTypes, ReadLaunch
  <2> QED BY <1>parts, <2>4, <2>5 DEF ObserverTypes, ReadLaunch
<1>only. ObserverOnly
  BY DEF ReadLaunch
<1>save. UNCHANGED <<stop, faults>> /\ stop \in BOOLEAN /\ faults \in 0..MaxFaults
  BY <1>parts DEF ReadLaunch, FileTypes, CountTypes
<1> QED BY <1>types, <1>only, <1>save, ObserverKeeps

LEMMA KeepConclude ==
    ASSUME IInv, NEW o \in Observers, Conclude(o)
    PROVE  IInv'
<1>inv. TypeOK /\ LaunchInv /\ ClaimInv /\ ProviderInv /\ RecordInv /\ StopInv
  BY DEF IInv
<1>parts. FileTypes /\ StepTypes /\ ObserverTypes /\ CountTypes
  BY <1>inv, TypeParts
<1>types. ObserverTypes'
  <2>1. opc' \in [Observers -> {"idle", "run", "launch", "proc", "request"}]
    BY <1>parts DEF ObserverTypes, Conclude, Return
  <2>2. kind' \in [Observers -> {"wait", "stop"}]
    BY <1>parts DEF ObserverTypes, Conclude, Return
  <2>3. Effective(seen[o]) \in Terminal \cup {"orphaned", "uncertain"} =>
          [answer EXCEPT ![o] = Effective(seen[o])] \in [Observers -> Terminal \cup {"orphaned", "uncertain", None}]
    BY <1>parts DEF ObserverTypes
  <2>4. [answer EXCEPT ![o] = None] \in [Observers -> Terminal \cup {"orphaned", "uncertain", None}]
    BY <1>parts DEF ObserverTypes
  <2>5. answer' \in [Observers -> Terminal \cup {"orphaned", "uncertain", None}]
    <3> DEFINE e == Effective(seen[o])
    <3>1. \/ e \in Terminal \cup {"orphaned", "uncertain"} /\ answer' = [answer EXCEPT ![o] = e]
          \/ answer' = [answer EXCEPT ![o] = None]
          \/ answer' = answer
      BY DEF Conclude, Return
    <3> HIDE DEF e
    <3> QED BY <3>1, <2>3, <2>4, <1>parts DEF ObserverTypes, e
  <2>6. seen' \in [Observers -> [status : Statuses \cup {None}, runner : Workers \cup {None}, launch : LaunchStatuses \cup {None}]]
    <3>1. seen' = [seen EXCEPT ![o] = NothingSeen]
      BY DEF Conclude, Return
    <3>2. NothingSeen \in [status : Statuses \cup {None}, runner : Workers \cup {None}, launch : LaunchStatuses \cup {None}]
      BY DEF NothingSeen
    <3> QED BY <3>1, <3>2, <1>parts DEF ObserverTypes
  <2> QED BY <2>1, <2>2, <2>5, <2>6 DEF ObserverTypes
<1>only. ObserverOnly
  BY DEF Conclude
<1>save. UNCHANGED <<stop, faults>> /\ stop \in BOOLEAN /\ faults \in 0..MaxFaults
  BY <1>parts DEF Conclude, FileTypes, CountTypes
<1> QED BY <1>types, <1>only, <1>save, ObserverKeeps

LEMMA KeepRequestStop ==
    ASSUME IInv, NEW o \in Observers, RequestStop(o)
    PROVE  IInv'
<1>inv. TypeOK /\ LaunchInv /\ ClaimInv /\ ProviderInv /\ RecordInv /\ StopInv
  BY DEF IInv
<1>parts. FileTypes /\ StepTypes /\ ObserverTypes /\ CountTypes
  BY <1>inv, TypeParts
<1>types. ObserverTypes'
  <2>1. opc' \in [Observers -> {"idle", "run", "launch", "proc", "request"}]
    BY <1>parts DEF ObserverTypes, RequestStop, Return
  <2>2. kind' \in [Observers -> {"wait", "stop"}]
    BY <1>parts DEF ObserverTypes, RequestStop, Return
  <2>3. answer' \in [Observers -> Terminal \cup {"orphaned", "uncertain", None}]
    BY <1>parts DEF ObserverTypes, RequestStop, Return
  <2>4. NothingSeen \in [status : Statuses \cup {None}, runner : Workers \cup {None}, launch : LaunchStatuses \cup {None}]
    BY DEF NothingSeen
  <2>6. seen' \in [Observers -> [status : Statuses \cup {None}, runner : Workers \cup {None}, launch : LaunchStatuses \cup {None}]]
    BY <1>parts, <2>4 DEF ObserverTypes, RequestStop, Return
  <2> QED BY <2>1, <2>2, <2>3, <2>6 DEF ObserverTypes
<1>only. ObserverOnly
  BY DEF RequestStop
<1>save. faults' \in 0..MaxFaults /\ stop' \in BOOLEAN /\ (stop => stop')
  <2>1. /\ faults' = faults \/ (faults < MaxFaults /\ faults' = faults + 1)
        /\ stop' = TRUE \/ stop' = stop
    BY DEF RequestStop, Saves, SaveRaises
  <2>2. faults' \in 0..MaxFaults
    BY <2>1, <1>parts, SessionAssumption DEF CountTypes
  <2>3. stop' \in BOOLEAN /\ (stop => stop')
    BY <2>1, <1>parts DEF FileTypes
  <2> QED BY <2>2, <2>3
<1> QED BY <1>types, <1>only, <1>save, ObserverKeeps

LEMMA KeepPaneOpens ==
    ASSUME IInv, NEW w \in Workers, PaneOpens(w)
    PROVE  IInv'
<1>inv. TypeOK /\ LaunchInv /\ ClaimInv /\ ProviderInv /\ RecordInv /\ StopInv
  BY DEF IInv
<1>parts. FileTypes /\ StepTypes /\ ObserverTypes /\ CountTypes
  BY <1>inv, TypeParts
<1>types. TypeOK'
  <2>1. FileTypes'
    BY <1>parts DEF FileTypes, PaneOpens, files, provider
  <2>2. StepTypes'
    BY <1>parts DEF StepTypes, FileTypes, LauncherPoints, WorkerSteps, PaneOpens, provider, runner,
       SignalSteps
  <2>4. CountTypes'
    BY <1>parts, SessionAssumption DEF CountTypes, FileTypes, PaneOpens, provider, history
  <2> QED BY <1>inv, <2>1, <2>2, <2>4, SessionTypes DEF PaneOpens, provider
<1>launch. LaunchInv'
  BY <1>inv DEF LaunchInv, NoWorkers, Receipted, PaneOpens, files, provider
<1>claim. ClaimInv'
  BY SessionAssumption, <1>inv DEF TypeOK, ClaimInv, Idle, Before, PaneOpens, files, provider, history
<1>provider. ProviderInv'
  BY <1>inv DEF TypeOK, ProviderInv, Done, PaneOpens, provider, runner, history, SignalSteps, Lost
<1>record. RecordInv'
  BY SessionAssumption, <1>inv DEF TypeOK, RecordInv, HonestCompletion, Receipted, Open, Done, Final,
     PaneOpens, files, provider, runner, SignalSteps
<1>stop. StopInv'
  BY SessionAssumption, <1>inv DEF TypeOK, StopInv, Idle, PaneOpens, files, provider, history
<1> QED BY <1>types, <1>launch, <1>claim, <1>provider, <1>record, <1>stop DEF IInv

LEMMA KeepDuplicate ==
    ASSUME IInv, NEW w \in Workers, Duplicate(w)
    PROVE  IInv'
<1>inv. TypeOK /\ LaunchInv /\ ClaimInv /\ ProviderInv /\ RecordInv /\ StopInv
  BY DEF IInv
<1>parts. FileTypes /\ StepTypes /\ ObserverTypes /\ CountTypes
  BY <1>inv, TypeParts
<1>types. TypeOK'
  <2>1. FileTypes'
    BY <1>parts DEF FileTypes, Duplicate, EnvOnly, files, provider
  <2>2. StepTypes'
    BY <1>parts DEF StepTypes, FileTypes, LauncherPoints, WorkerSteps, Duplicate, EnvOnly, provider,
       runner, SignalSteps
  <2>4. CountTypes'
    BY <1>parts, SessionAssumption DEF CountTypes, FileTypes, Duplicate, EnvOnly, provider, history
  <2> QED BY <1>inv, <2>1, <2>2, <2>4, SessionTypes DEF Duplicate, EnvOnly, provider
<1>launch. LaunchInv'
  BY <1>inv DEF LaunchInv, NoWorkers, Receipted, Duplicate, EnvOnly, files, provider
<1>claim. ClaimInv'
  BY SessionAssumption, <1>inv DEF TypeOK, ClaimInv, Idle, Before, Duplicate, EnvOnly, files, provider,
     history
<1>provider. ProviderInv'
  BY <1>inv DEF TypeOK, ProviderInv, Done, Duplicate, EnvOnly, provider, runner, history, SignalSteps, Lost
<1>record. RecordInv'
  BY SessionAssumption, <1>inv DEF TypeOK, RecordInv, HonestCompletion, Receipted, Open, Done, Final,
     Duplicate, EnvOnly, files, provider, runner, SignalSteps
<1>stop. StopInv'
  BY SessionAssumption, <1>inv DEF TypeOK, StopInv, Idle, Duplicate, EnvOnly, files, provider, history
<1> QED BY <1>types, <1>launch, <1>claim, <1>provider, <1>record, <1>stop DEF IInv

LEMMA KeepSignal ==
    ASSUME IInv, NEW w \in Workers, Signal(w)
    PROVE  IInv'
<1>inv. TypeOK /\ LaunchInv /\ ClaimInv /\ ProviderInv /\ RecordInv /\ StopInv
  BY DEF IInv
<1>parts. FileTypes /\ StepTypes /\ ObserverTypes /\ CountTypes
  BY <1>inv, TypeParts
<1>types. TypeOK'
  <2>1. FileTypes'
    BY <1>parts DEF FileTypes, Signal, EnvOnly, files, provider
  <2>2. StepTypes'
    BY <1>parts DEF StepTypes, FileTypes, LauncherPoints, WorkerSteps, Signal, EnvOnly, provider,
       SignalSteps
  <2>4. CountTypes'
    BY <1>parts, SessionAssumption DEF CountTypes, FileTypes, Signal, EnvOnly, provider, history
  <2> QED BY <1>inv, <2>1, <2>2, <2>4, SessionTypes DEF Signal, EnvOnly, provider
<1>launch. LaunchInv'
  BY <1>inv DEF LaunchInv, NoWorkers, Receipted, Signal, EnvOnly, files, provider
<1>claim. ClaimInv'
  BY SessionAssumption, <1>inv DEF TypeOK, ClaimInv, Idle, Before, Signal, EnvOnly, files, provider, history
<1>provider. ProviderInv'
  BY <1>inv DEF TypeOK, ProviderInv, Done, Signal, EnvOnly, provider, history, SignalSteps, Lost
<1>record. RecordInv'
  BY SessionAssumption, <1>inv DEF TypeOK, RecordInv, HonestCompletion, Receipted, Open, Done, Final,
     Signal, EnvOnly, files, provider, SignalSteps
<1>stop. StopInv'
  BY SessionAssumption, <1>inv DEF TypeOK, StopInv, Idle, Signal, EnvOnly, files, provider, history
<1> QED BY <1>types, <1>launch, <1>claim, <1>provider, <1>record, <1>stop DEF IInv

LEMMA KeepKillWorker ==
    ASSUME IInv, NEW w \in Workers, KillWorker(w)
    PROVE  IInv'
<1>inv. TypeOK /\ LaunchInv /\ ClaimInv /\ ProviderInv /\ RecordInv /\ StopInv
  BY DEF IInv
<1>parts. FileTypes /\ StepTypes /\ ObserverTypes /\ CountTypes
  BY <1>inv, TypeParts
<1>types. TypeOK'
  <2>1. FileTypes'
    BY <1>parts DEF FileTypes, KillWorker, EnvOnly, Alive, files, provider
  <2>2. StepTypes'
    BY <1>parts DEF StepTypes, FileTypes, LauncherPoints, WorkerSteps, KillWorker, EnvOnly, Alive, provider,
       runner, SignalSteps
  <2>4. CountTypes'
    BY <1>parts, SessionAssumption DEF CountTypes, FileTypes, KillWorker, EnvOnly, Alive, provider, history
  <2> QED BY <1>inv, <2>1, <2>2, <2>4, SessionTypes DEF KillWorker, EnvOnly, Alive, provider
<1>launch. LaunchInv'
  BY <1>inv DEF LaunchInv, NoWorkers, Receipted, KillWorker, EnvOnly, Alive, files, provider
<1>claim. ClaimInv'
  BY SessionAssumption, <1>inv DEF TypeOK, ClaimInv, Idle, Before, KillWorker, EnvOnly, Alive, files,
     provider, history
<1>provider. ProviderInv'
  BY <1>inv DEF TypeOK, ProviderInv, Done, KillWorker, EnvOnly, Alive, provider, runner, history,
     SignalSteps, Lost
<1>record. RecordInv'
  BY SessionAssumption, <1>inv DEF TypeOK, RecordInv, HonestCompletion, Receipted, Open, Done, Final,
     KillWorker, EnvOnly, Alive, files, provider, runner, SignalSteps
<1>stop. StopInv'
  BY SessionAssumption, <1>inv DEF TypeOK, StopInv, Idle, KillWorker, EnvOnly, Alive, files, provider,
     history
<1> QED BY <1>types, <1>launch, <1>claim, <1>provider, <1>record, <1>stop DEF IInv

LEMMA KeepKillLauncher ==
    ASSUME IInv, KillLauncher
    PROVE  IInv'
<1>inv. TypeOK /\ LaunchInv /\ ClaimInv /\ ProviderInv /\ RecordInv /\ StopInv
  BY DEF IInv
<1>parts. FileTypes /\ StepTypes /\ ObserverTypes /\ CountTypes
  BY <1>inv, TypeParts
<1>types. TypeOK'
  <2>1. FileTypes'
    BY <1>parts DEF FileTypes, KillLauncher, files, provider
  <2>2. StepTypes'
    BY <1>parts DEF StepTypes, FileTypes, LauncherPoints, WorkerSteps, KillLauncher, provider, runner,
       SignalSteps
  <2>4. CountTypes'
    BY <1>parts, SessionAssumption DEF CountTypes, FileTypes, KillLauncher, provider, history
  <2> QED BY <1>inv, <2>1, <2>2, <2>4, SessionTypes DEF KillLauncher, provider
<1>launch. LaunchInv'
  BY <1>inv DEF LaunchInv, NoWorkers, Receipted, KillLauncher, files, provider
<1>claim. ClaimInv'
  BY SessionAssumption, <1>inv DEF TypeOK, ClaimInv, Idle, Before, KillLauncher, files, provider, history
<1>provider. ProviderInv'
  BY <1>inv DEF TypeOK, ProviderInv, Done, KillLauncher, provider, runner, history, SignalSteps, Lost
<1>record. RecordInv'
  BY SessionAssumption, <1>inv DEF TypeOK, RecordInv, HonestCompletion, Receipted, Open, Done, Final,
     KillLauncher, files, provider, runner, SignalSteps
<1>stop. StopInv'
  BY SessionAssumption, <1>inv DEF TypeOK, StopInv, Idle, KillLauncher, files, provider, history
<1> QED BY <1>types, <1>launch, <1>claim, <1>provider, <1>record, <1>stop DEF IInv

LEMMA KeepKillDeadline ==
    ASSUME IInv, KillDeadline
    PROVE  IInv'
<1>inv. TypeOK /\ LaunchInv /\ ClaimInv /\ ProviderInv /\ RecordInv /\ StopInv
  BY DEF IInv
<1>parts. FileTypes /\ StepTypes /\ ObserverTypes /\ CountTypes
  BY <1>inv, TypeParts
<1>types. TypeOK'
  <2>1. FileTypes'
    BY <1>parts DEF FileTypes, KillDeadline, EnvOnly, files, provider
  <2>2. StepTypes'
    BY <1>parts DEF StepTypes, FileTypes, LauncherPoints, WorkerSteps, KillDeadline, EnvOnly, provider,
       SignalSteps
  <2>4. CountTypes'
    BY <1>parts, SessionAssumption DEF CountTypes, FileTypes, KillDeadline, EnvOnly, provider, history
  <2> QED BY <1>inv, <2>1, <2>2, <2>4, SessionTypes DEF KillDeadline, EnvOnly, provider
<1>launch. LaunchInv'
  BY <1>inv DEF LaunchInv, NoWorkers, Receipted, KillDeadline, EnvOnly, files, provider
<1>claim. ClaimInv'
  BY SessionAssumption, <1>inv DEF TypeOK, ClaimInv, Idle, Before, KillDeadline, EnvOnly, files, provider,
     history
<1>provider. ProviderInv'
  BY <1>inv DEF TypeOK, ProviderInv, Done, KillDeadline, EnvOnly, provider, history, SignalSteps, Lost
<1>record. RecordInv'
  BY SessionAssumption, <1>inv DEF TypeOK, RecordInv, HonestCompletion, Receipted, Open, Done, Final,
     KillDeadline, EnvOnly, files, provider, SignalSteps
<1>stop. StopInv'
  BY SessionAssumption, <1>inv DEF TypeOK, StopInv, Idle, KillDeadline, EnvOnly, provider, history
<1> QED BY <1>types, <1>launch, <1>claim, <1>provider, <1>record, <1>stop DEF IInv

LEMMA KeepProviderForks ==
    ASSUME IInv, ProviderForks
    PROVE  IInv'
<1>inv. TypeOK /\ LaunchInv /\ ClaimInv /\ ProviderInv /\ RecordInv /\ StopInv
  BY DEF IInv
<1>parts. FileTypes /\ StepTypes /\ ObserverTypes /\ CountTypes
  BY <1>inv, TypeParts
<1>types. TypeOK'
  <2>1. FileTypes'
    BY <1>parts DEF FileTypes, ProviderForks, EnvOnly, files, provider
  <2>2. StepTypes'
    BY <1>parts DEF StepTypes, FileTypes, LauncherPoints, WorkerSteps, ProviderForks, EnvOnly, provider,
       runner, SignalSteps
  <2>4. CountTypes'
    BY <1>parts, SessionAssumption DEF CountTypes, FileTypes, ProviderForks, EnvOnly, provider, history
  <2> QED BY <1>inv, <2>1, <2>2, <2>4, SessionTypes DEF ProviderForks, EnvOnly, provider
<1>launch. LaunchInv'
  BY <1>inv DEF LaunchInv, NoWorkers, Receipted, ProviderForks, EnvOnly, files, provider
<1>claim. ClaimInv'
  BY SessionAssumption, <1>inv DEF TypeOK, ClaimInv, Idle, Before, ProviderForks, EnvOnly, files, provider,
     history
<1>provider. ProviderInv'
  BY <1>inv DEF TypeOK, ProviderInv, Done, ProviderForks, EnvOnly, provider, runner, history, SignalSteps,
     Lost
<1>record. RecordInv'
  BY SessionAssumption, <1>inv DEF TypeOK, RecordInv, HonestCompletion, Receipted, Open, Done, Final,
     ProviderForks, EnvOnly, files, provider, SignalSteps
<1>stop. StopInv'
  BY SessionAssumption, <1>inv DEF TypeOK, StopInv, Idle, ProviderForks, EnvOnly, files, provider, history
<1> QED BY <1>types, <1>launch, <1>claim, <1>provider, <1>record, <1>stop DEF IInv

LEMMA KeepProviderExits ==
    ASSUME IInv, ProviderExits
    PROVE  IInv'
<1>inv. TypeOK /\ LaunchInv /\ ClaimInv /\ ProviderInv /\ RecordInv /\ StopInv
  BY DEF IInv
<1>parts. FileTypes /\ StepTypes /\ ObserverTypes /\ CountTypes
  BY <1>inv, TypeParts
<1>types. TypeOK'
  <2>1. FileTypes'
    BY <1>parts DEF FileTypes, ProviderExits, EnvOnly, files, provider
  <2>2. StepTypes'
    BY <1>parts DEF StepTypes, FileTypes, LauncherPoints, WorkerSteps, ProviderExits, EnvOnly, provider,
       runner, SignalSteps
  <2>4. CountTypes'
    BY <1>parts, SessionAssumption DEF CountTypes, FileTypes, ProviderExits, EnvOnly, provider, history
  <2> QED BY <1>inv, <2>1, <2>2, <2>4, SessionTypes DEF ProviderExits, EnvOnly, provider
<1>launch. LaunchInv'
  BY <1>inv DEF LaunchInv, NoWorkers, Receipted, ProviderExits, EnvOnly, files, provider
<1>claim. ClaimInv'
  BY SessionAssumption, <1>inv DEF TypeOK, ClaimInv, Idle, Before, ProviderExits, EnvOnly, files, provider,
     history
<1>provider. ProviderInv'
  BY <1>inv DEF TypeOK, ProviderInv, Done, ProviderExits, EnvOnly, provider, runner, history, SignalSteps,
     Lost
<1>record. RecordInv'
  BY SessionAssumption, <1>inv DEF TypeOK, RecordInv, HonestCompletion, Receipted, Open, Done, Final,
     ProviderExits, EnvOnly, files, provider, SignalSteps
<1>stop. StopInv'
  BY SessionAssumption, <1>inv DEF TypeOK, StopInv, Idle, ProviderExits, EnvOnly, files, provider, history
<1> QED BY <1>types, <1>launch, <1>claim, <1>provider, <1>record, <1>stop DEF IInv

LEMMA KeepDescendantExits ==
    ASSUME IInv, DescendantExits
    PROVE  IInv'
<1>inv. TypeOK /\ LaunchInv /\ ClaimInv /\ ProviderInv /\ RecordInv /\ StopInv
  BY DEF IInv
<1>parts. FileTypes /\ StepTypes /\ ObserverTypes /\ CountTypes
  BY <1>inv, TypeParts
<1>types. TypeOK'
  <2>1. FileTypes'
    BY <1>parts DEF FileTypes, DescendantExits, EnvOnly, files, provider
  <2>2. StepTypes'
    BY <1>parts DEF StepTypes, DescendantExits, EnvOnly, runner
  <2>4. CountTypes'
    BY <1>parts, SessionAssumption DEF CountTypes, FileTypes, DescendantExits, EnvOnly, provider, history
  <2> QED BY <1>inv, <2>1, <2>2, <2>4, SessionTypes DEF DescendantExits, EnvOnly, provider
<1>launch. LaunchInv'
  BY <1>inv DEF LaunchInv, NoWorkers, Receipted, DescendantExits, EnvOnly, files, provider
<1>claim. ClaimInv'
  BY SessionAssumption, <1>inv DEF TypeOK, ClaimInv, Idle, Before, DescendantExits, EnvOnly, files,
     provider, history
<1>provider. ProviderInv'
  BY <1>inv DEF TypeOK, ProviderInv, Done, DescendantExits, EnvOnly, provider, runner, history,
     SignalSteps, Lost
<1>record. RecordInv'
  BY SessionAssumption, <1>inv DEF TypeOK, RecordInv, HonestCompletion, Receipted, Open, Done, Final,
     DescendantExits, EnvOnly, files, provider, runner, SignalSteps
<1>stop. StopInv'
  BY SessionAssumption, <1>inv DEF TypeOK, StopInv, Idle, DescendantExits, EnvOnly, files, provider, history
<1> QED BY <1>types, <1>launch, <1>claim, <1>provider, <1>record, <1>stop DEF IInv

LEMMA KeepForeignReap ==
    ASSUME IInv, ForeignReap
    PROVE  IInv'
<1>inv. TypeOK /\ LaunchInv /\ ClaimInv /\ ProviderInv /\ RecordInv /\ StopInv
  BY DEF IInv
<1>parts. FileTypes /\ StepTypes /\ ObserverTypes /\ CountTypes
  BY <1>inv, TypeParts
<1>types. TypeOK'
  <2>1. FileTypes'
    BY <1>parts DEF FileTypes, ForeignReap, EnvOnly, files, provider
  <2>2. StepTypes'
    BY <1>parts DEF StepTypes, FileTypes, LauncherPoints, WorkerSteps, ForeignReap, EnvOnly, provider,
       runner, SignalSteps
  <2>4. CountTypes'
    BY <1>parts, SessionAssumption DEF CountTypes, FileTypes, ForeignReap, EnvOnly, provider, history
  <2> QED BY <1>inv, <2>1, <2>2, <2>4, SessionTypes DEF ForeignReap, EnvOnly, provider
<1>launch. LaunchInv'
  BY <1>inv DEF LaunchInv, NoWorkers, Receipted, ForeignReap, EnvOnly, files, provider
<1>claim. ClaimInv'
  BY SessionAssumption, <1>inv DEF TypeOK, ClaimInv, Idle, Before, ForeignReap, EnvOnly, files, provider,
     history
<1>provider. ProviderInv'
  BY <1>inv DEF TypeOK, ProviderInv, Done, ForeignReap, EnvOnly, provider, runner, history, SignalSteps,
     Lost
<1>record. RecordInv'
  BY SessionAssumption, <1>inv DEF TypeOK, RecordInv, HonestCompletion, Receipted, Open, Done, Final,
     ForeignReap, EnvOnly, files, provider, SignalSteps
<1>stop. StopInv'
  BY SessionAssumption, <1>inv DEF TypeOK, StopInv, Idle, ForeignReap, EnvOnly, files, provider, history
<1> QED BY <1>types, <1>launch, <1>claim, <1>provider, <1>record, <1>stop DEF IInv

LEMMA InitInv == Init => IInv
<1> SUFFICES ASSUME Init PROVE IInv
  OBVIOUS
<1>1. FileTypes
  BY DEF Init, FileTypes
<1>2. StepTypes
  BY DEF Init, StepTypes, LauncherPoints, WorkerSteps, SignalSteps
<1>3. ObserverTypes
  BY DEF Init, ObserverTypes, NothingSeen
<1>4. CountTypes
  <2>1. 0 \in 0..MaxFaults /\ 0 \in 0..MaxKills /\ 0 \in Nat
    BY SessionAssumption
  <2> QED BY <2>1 DEF Init, CountTypes
<1>5. TypeOK
  BY <1>1, <1>2, <1>3, <1>4, TypeParts
<1>6. LaunchInv
  BY DEF Init, LaunchInv, NoWorkers, Receipted
<1>7. ClaimInv
  BY SessionAssumption DEF Init, ClaimInv, Idle, Before
<1>8. ProviderInv
  BY DEF Init, ProviderInv, Done, SignalSteps, Lost
<1>9. RecordInv /\ StopInv
  BY DEF Init, RecordInv, StopInv, HonestCompletion, Final, Open, Done, SignalSteps
<1> QED BY <1>5, <1>6, <1>7, <1>8, <1>9 DEF IInv

LEMMA NextInv == IInv /\ [Next]_vars => IInv'
<1> SUFFICES ASSUME IInv, [Next]_vars PROVE IInv'
  OBVIOUS
<1>1. CASE UNCHANGED vars
  BY <1>1 DEF vars, files, provider, runner, observer, history, IInv, TypeOK, LaunchInv, ClaimInv,
     ProviderInv, RecordInv,
              StopInv, NoWorkers, Receipted, Done, Final, HonestCompletion, SignalSteps, Lost
<1>2. CASE Launcher
  BY <1>2, KeepPrepare, KeepWriteReceipt, KeepPlacementFails, KeepIntend, KeepAskForPane, KeepPaneVerified,
     KeepStartChild, KeepStartChildFails, KeepChildStarted, KeepSubmitForeground, KeepHandleFailure,
     KeepHandleUncertain, KeepFailRun, KeepRunForeground DEF Launcher
<1>3. ASSUME NEW w \in Workers, Worker(w) PROVE IInv'
  <2>1. CASE CheckContinue(w) \/ CheckTerm(w) \/ CheckKill(w) \/ CheckBury(w) \/ CheckBurying(w)
    <3>1. PICK from \in {"cont", "term", "kill", "bury", "burying"}, to \in SignalSteps \ {"forward"},
               onError \in {"except", "lost"} : Check(w, from, to, onError)
      BY <2>1 DEF CheckContinue, CheckTerm, CheckKill, CheckBury, CheckBurying, SignalSteps
    <3> QED BY <3>1, KeepCheck
  <2>2. CASE Continue(w) \/ Enforce(w) \/ TermGroup(w) \/ KillGroup(w) \/ BuryTerm(w) \/ BuryKill(w)
    <3>1. PICK from \in SignalSteps, kill \in BOOLEAN, to \in {"started", "look", "kill", "reap", "burying", "buried"} :
                Send(w, from, kill, to) /\ (to \in {"reap", "buried"} => kill)
      BY <2>2 DEF Continue, Enforce, TermGroup, KillGroup, BuryTerm, BuryKill, SignalSteps
    <3> QED BY <3>1, KeepSend
  <2> QED BY <1>3, <2>1, <2>2, KeepClaim, KeepSaveStarting, KeepFirstCheck, KeepTrust, KeepSecondCheck,
     KeepStartFails, KeepStart, KeepSaveRunning, KeepPoll, KeepForward, KeepSaveStopping, KeepEscalate,
     KeepLook, KeepObservedUnsaved, KeepReap, KeepSaveOutcome, KeepHandle, KeepBuryReap, KeepSaveFailure,
     KeepLeave DEF Worker
<1>4. ASSUME NEW o \in Observers, Observer(o) PROVE IInv'
  BY <1>4, KeepAsk, KeepReadRun, KeepReadLaunch, KeepConclude, KeepRequestStop DEF Observer
<1>5. CASE Environment
  BY <1>5, KeepPaneOpens, KeepDuplicate, KeepSignal, KeepKillWorker, KeepKillLauncher, KeepKillDeadline,
     KeepProviderForks, KeepProviderExits, KeepDescendantExits, KeepForeignReap DEF Environment
<1> QED BY <1>1, <1>2, <1>3, <1>4, <1>5 DEF Next

(* Every state of a session satisfies the invariant. *)
THEOREM SessionInvariance == Spec => []IInv
BY InitInv, NextInv, PTL DEF Spec

(* One provider is started at most, and run.json names its worker. *)
THEOREM ProviderStartedOnce == Spec => []OneProvider
<1>1. IInv => OneProvider
  BY DEF IInv, OneProvider, ClaimInv
<1> QED BY <1>1, SessionInvariance, PTL

(* A final record leaves no process of the group, unless it says that the child was lost. *)
THEOREM RecordMeansCleared == Spec => []GroupCleared
<1>1. IInv => GroupCleared
  BY DEF IInv, GroupCleared, RecordInv, ProviderInv, Final, Done, SignalSteps, Lost
<1> QED BY <1>1, SessionInvariance, PTL

(* However a worker that lost its leader goes on, it sends one signal to a number of
   somebody else at most, and only another waiter of its children can bring it there. *)
THEOREM SignalsStayInside == Spec => []NoFurtherSignals
<1>1. IInv => NoFurtherSignals
  BY DEF IInv, NoFurtherSignals, ProviderInv, SignalSteps, Lost
<1> QED BY <1>1, SessionInvariance, PTL

(* A run stopped before it was claimed runs nothing. *)
THEOREM StoppedRunsNothing == Spec => []CancelledRunsNothing
<1>1. IInv => CancelledRunsNothing
  BY DEF IInv, CancelledRunsNothing, StopInv, Idle
<1> QED BY <1>1, SessionInvariance, PTL

(* A launch recorded as failed left no worker and no request for one. *)
THEOREM FailureIsTrue == Spec => []FailedLaunchRanNothing
<1>1. IInv => FailedLaunchRanNothing
  BY DEF IInv, FailedLaunchRanNothing, LaunchInv, Receipted, NoWorkers, Alive
<1> QED BY <1>1, SessionInvariance, PTL

(* A run that a stop was forwarded to is not recorded as completed. *)
THEOREM StoppedIsNotCompleted == Spec => []StoppedNotCompleted
<1>1. IInv => StoppedNotCompleted
  BY DEF IInv, RecordInv, HonestCompletion, StoppedNotCompleted
<1> QED BY <1>1, SessionInvariance, PTL

(* "completed means the provider exited zero" (docs/session.md): it does, unless another
   waiter of the worker's children took the exit code. *)
CompletedMeansZero ==
    run # None /\ run.status = "completed" => code = "zero" \/ (ForeignWaiter /\ leader = "collected")

THEOREM CompletionIsTrue == Spec => []CompletedMeansZero
<1>1. IInv => CompletedMeansZero
  BY DEF IInv, RecordInv, HonestCompletion, ProviderInv, CompletedMeansZero, SignalSteps, Lost
<1> QED BY <1>1, SessionInvariance, PTL

(* A step leaves a final record final, except the first save of a foreground
   run whose launch failed. *)
FinalKept == Final => run'.status \in Terminal \/ (placement = "foreground" /\ launch.status = "failed")

LEMMA FinalSteps == IInv /\ [Next]_vars => FinalKept
<1> SUFFICES ASSUME IInv, [Next]_vars, Final PROVE run'.status \in Terminal \/ (placement = "foreground" /\ launch.status = "failed")
  BY DEF FinalKept
<1>run. run \in Records /\ run.status \in Terminal
  BY DEF Final, IInv, TypeOK
<1>inv. LaunchInv /\ ClaimInv /\ RecordInv
  BY DEF IInv
<1>same. ASSUME UNCHANGED run PROVE run'.status \in Terminal
  BY <1>same, <1>run
<1>1. CASE UNCHANGED vars
  BY <1>1, <1>same DEF vars, files
<1>2. CASE Launcher
  <2>1. CASE Prepare
    BY <2>1, <1>inv DEF Prepare, LaunchInv, Final
  <2>2. CASE FailRun
    <3>1. run' \in {run, [status |-> "failed", runner |-> None, lost |-> FALSE]}
      BY <2>2 DEF FailRun, Saves, SaveRaises
    <3> QED BY <3>1, <1>run DEF Terminal
  <2>3. CASE ~Prepare /\ ~FailRun
    <3>1. UNCHANGED run
      BY <1>2, <2>3 DEF Launcher, WriteReceipt, PlacementFails, Intend, AskForPane, PaneVerified,
         StartChild, StartChildFails, ChildStarted, SubmitForeground, HandleFailure, HandleUncertain,
         RunForeground, LauncherSteps, files
    <3> QED BY <3>1, <1>same
  <2> QED BY <2>1, <2>2, <2>3
<1>3. ASSUME NEW w \in Workers, Worker(w)
      PROVE run'.status \in Terminal \/ (placement = "foreground" /\ launch.status = "failed")
  <2>1. CASE SaveStarting(w)
    BY <2>1, <1>inv DEF SaveStarting, WorkerSaves, RecordInv, Receipted
  <2>2. CASE SaveRunning(w) \/ SaveStopping(w)
    BY <2>2, <1>inv DEF SaveRunning, SaveStopping, WorkerSaves, RecordInv, Open, SignalSteps
  <2>3. CASE SaveOutcome(w)
    <3>1. PICK outcome \in Outcomes : run' \in {run, [run EXCEPT !.status = outcome]}
      BY <2>3 DEF SaveOutcome, WorkerSaves, Saves, SaveRaises
    <3>2. outcome \in Terminal
      BY DEF Outcomes, Terminal
    <3> QED BY <3>1, <3>2, <1>run DEF Records
  <2>4. CASE SaveFailure(w)
    <3>1. run' \in {run, [run EXCEPT !.status = Failure], [run EXCEPT !.status = Failure, !.lost = TRUE]}
      BY <2>4 DEF SaveFailure, WorkerSaves, Saves, SaveRaises
    <3>2. Failure \in Terminal
      BY DEF Failure, Terminal
    <3> QED BY <3>1, <3>2, <1>run DEF Records
  <2>5. CASE ObservedUnsaved(w)
    BY <2>5, <1>same DEF ObservedUnsaved, SaveRaises
  <2>6. CASE ~(SaveStarting(w) \/ SaveRunning(w) \/ SaveStopping(w) \/ SaveOutcome(w) \/ SaveFailure(w) \/ ObservedUnsaved(w))
    <3>1. UNCHANGED run
      BY <1>3, <2>6 DEF Worker, Claim, FirstCheck, Trust, SecondCheck, CheckCancelled, StartFails, Start,
         CheckContinue, Continue, Poll, Forward, Escalate, Enforce, Look, CheckTerm, TermGroup, CheckKill,
         KillGroup, Check, Send, Reap, Wait, Handle, CheckBury, BuryTerm, CheckBurying, BuryKill,
         BuryReap, Leave
    <3> QED BY <3>1, <1>same
  <2> QED BY <2>1, <2>2, <2>3, <2>4, <2>5, <2>6
<1>4. ASSUME NEW o \in Observers, Observer(o) PROVE run'.status \in Terminal
  BY <1>4, <1>same DEF Observer, Ask, ReadRun, ReadLaunch, Conclude, RequestStop, ObserverOnly
<1>5. CASE Environment
  BY <1>5, <1>same DEF Environment, PaneOpens, Duplicate, Signal, KillWorker, KillLauncher, KillDeadline,
     ProviderForks,
              ProviderExits, DescendantExits, ForeignReap, EnvOnly, files
<1> QED BY <1>1, <1>2, <1>3, <1>4, <1>5 DEF Next

(* No step of a session takes a final record back. *)
THEOREM OutcomeIsFinal == Spec => FinalStaysFinal
<1>1. IInv /\ [Next]_vars => [FinalKept]_vars
  BY FinalSteps
<1>2. [FinalKept]_vars => [run # None /\ run.status \in Terminal =>
                            \/ run'.status \in Terminal
                            \/ placement = "foreground" /\ launch.status = "failed"]_vars
  BY DEF FinalKept, Final
<1> QED BY <1>1, <1>2, SessionInvariance, PTL DEF Spec, FinalStaysFinal

-----------------------------------------------------------------------------
(* What wait and stop may answer.  An outcome an observer has read or answered is that
   of the record, or of a launch that failed; both stay. *)
Over == Final \/ Receipted({"failed"})

SeenInv ==
    \A o \in Observers :
        seen[o].status \in Terminal \/ seen[o].launch = "failed" \/ answer[o] \in Terminal => Over

(* When the worker, or the record, says that the child was lost, the leader has ended. *)
LostInv ==
    /\ \A w \in Workers :
        /\ wpc[w] \in {"bury", "burying"} => leader # "none"
        /\ wpc[w] = "lost" => leader \notin {"none", "running"}
    /\ run # None /\ run.lost => leader \notin {"none", "running"}

(* wait answers a final status only when the provider does not run, whatever was killed,
   not saved or started twice: what is left of WaitMeansExit, whose one exception is a
   foreground launch that was recorded as failed and goes on (manager.launch, wait). *)
WaitMeansExitOtherwise ==
    \A o \in Observers :
        answer[o] \in Terminal =>
            leader # "running" \/ (placement = "foreground" /\ Receipted({"failed"}))

(* A receipt is never removed, and one that says failed is never taken back. *)
LEMMA ReceiptKept ==
    ASSUME IInv, [Next]_vars
    PROVE  (launch # None => launch' # None) /\ (Receipted({"failed"}) => Receipted({"failed"})')
<1>inv. TypeOK /\ LaunchInv
  BY DEF IInv
<1>same. ASSUME UNCHANGED launch PROVE (launch # None => launch' # None) /\ (Receipted({"failed"}) => Receipted({"failed"})')
  BY <1>same DEF Receipted
<1>none. None \in Workers \cup {None} /\ {"prepared", "uncertain", "submitted", "failed"} \subseteq LaunchStatuses
  BY DEF LaunchStatuses
<1>saves. ASSUME NEW from, NEW status \in LaunchStatuses, NEW w \in Workers \cup {None}, NEW to, NEW onError,
                 LauncherSteps(from, status, w, to, onError), Receipted({"failed"}) => lpc # from \/ status = "failed"
          PROVE (launch # None => launch' # None) /\ (Receipted({"failed"}) => Receipted({"failed"})')
  <2>1. /\ lpc = from
        /\ launch' = launch \/ (launch' # None /\ launch'.status = status)
    BY <1>inv, <1>saves, LauncherFacts
  <2> QED BY <2>1, <1>saves DEF Receipted
<1>1. CASE UNCHANGED vars
  BY <1>1, <1>same DEF vars, files
<1>2. CASE Launcher
  <2>1. CASE WriteReceipt
    <3>1. LauncherSteps("listed", "prepared", None, "placing", "done") /\ (Receipted({"failed"}) => lpc # "listed")
      BY <2>1, <1>inv DEF WriteReceipt, LaunchInv, Receipted
    <3> QED BY <3>1, <1>none, <1>saves
  <2>2. CASE Intend
    <3>1. LauncherSteps("placing", "uncertain", None, "starting", "handle") /\ (Receipted({"failed"}) => lpc # "placing")
      BY <2>2, <1>inv DEF Intend, LaunchInv, Receipted
    <3> QED BY <3>1, <1>none, <1>saves
  <2>3. CASE PaneVerified
    <3>1. LauncherSteps("verify", "submitted", None, "done", "handle") /\ (Receipted({"failed"}) => lpc # "verify")
      BY <2>3, <1>inv DEF PaneVerified, LaunchInv, Receipted
    <3> QED BY <3>1, <1>none, <1>saves
  <2>4. CASE StartChildFails
    <3>1. LauncherSteps("starting", "prepared", None, "handle", "handle") /\ (Receipted({"failed"}) => lpc # "starting")
      BY <2>4, <1>inv DEF StartChildFails, LaunchInv, Receipted
    <3> QED BY <3>1, <1>none, <1>saves
  <2>5. CASE SubmitForeground
    <3>1. LauncherSteps("placing", "submitted", None, "run", "handle") /\ (Receipted({"failed"}) => lpc # "placing")
      BY <2>5, <1>inv DEF SubmitForeground, LaunchInv, Receipted
    <3> QED BY <3>1, <1>none, <1>saves
  <2>6. CASE HandleFailure
    <3>1. LauncherSteps("handle", "failed", None, "failing", "done")
      BY <2>6 DEF HandleFailure
    <3> QED BY <3>1, <1>none, <1>saves
  <2>7. CASE HandleUncertain
    <3> DEFINE to == IF placement = "foreground" THEN "run" ELSE "done"
    <3>1. LauncherSteps("handle", launch.status, launch.runner, to, "done") /\ lpc = "handle"
      BY <2>7 DEF HandleUncertain
    <3>2. launch \in Receipts
      BY <3>1, <1>inv DEF LaunchInv, TypeOK
    <3>3. launch.status \in LaunchStatuses /\ launch.runner \in Workers \cup {None}
      BY <3>2 DEF Receipts
    <3>4. Receipted({"failed"}) => launch.status = "failed"
      BY DEF Receipted
    <3> HIDE DEF to
    <3> QED BY <3>1, <3>3, <3>4, <1>saves
  <2>8. ASSUME NEW w \in Workers, ChildStarted(w)
        PROVE (launch # None => launch' # None) /\ (Receipted({"failed"}) => Receipted({"failed"})')
    <3>1. PICK named \in Workers \cup {None} : LauncherSteps("started", "submitted", named, "done", "handle")
      BY <2>8 DEF ChildStarted
    <3>2. Receipted({"failed"}) => lpc # "started"
      BY <1>inv DEF LaunchInv, Receipted
    <3> QED BY <3>1, <3>2, <1>none, <1>saves
  <2>9. CASE Prepare \/ PlacementFails \/ AskForPane \/ FailRun \/ \E w \in Workers : StartChild(w) \/ RunForeground(w)
    BY <2>9, <1>same DEF Prepare, PlacementFails, AskForPane, FailRun, StartChild, RunForeground, files
  <2> QED BY <1>2, <2>1, <2>2, <2>3, <2>4, <2>5, <2>6, <2>7, <2>8, <2>9 DEF Launcher
<1>3. ASSUME NEW w \in Workers, Worker(w)
      PROVE (launch # None => launch' # None) /\ (Receipted({"failed"}) => Receipted({"failed"})')
  <2>1. WorkerOnly
    BY <1>3 DEF Worker, Claim, SaveStarting, FirstCheck, SecondCheck, CheckCancelled, Trust, StartFails,
       Start, SaveRunning, CheckContinue, Continue, Poll, Forward, SaveStopping, Escalate, Enforce, Look,
       ObservedUnsaved, CheckTerm, TermGroup, CheckKill, KillGroup, Check, Send, Reap, Wait, SaveOutcome,
       Handle, CheckBury, BuryTerm, CheckBurying, BuryKill, BuryReap, SaveFailure, WorkerSaves, Leave
  <2> QED BY <2>1, <1>same DEF WorkerOnly
<1>4. ASSUME NEW o \in Observers, Observer(o)
      PROVE (launch # None => launch' # None) /\ (Receipted({"failed"}) => Receipted({"failed"})')
  BY <1>4, <1>same DEF Observer, Ask, ReadRun, ReadLaunch, Conclude, RequestStop, ObserverOnly
<1>5. CASE Environment
  BY <1>5, <1>same DEF Environment, PaneOpens, Duplicate, Signal, KillWorker, KillLauncher, KillDeadline,
     ProviderForks, ProviderExits, DescendantExits, ForeignReap, EnvOnly, files
<1> QED BY <1>1, <1>2, <1>3, <1>4, <1>5 DEF Next

(* An outcome, once it is on disk, stays there: as the record or as the receipt. *)
LEMMA OverKept == ASSUME IInv, IInv', [Next]_vars, Over PROVE Over'
<1>1. CASE Receipted({"failed"})
  BY <1>1, ReceiptKept DEF Over
<1>2. CASE Final /\ ~Receipted({"failed"})
  <2>1. launch # None
    BY <1>2 DEF IInv, RecordInv, LaunchInv, NoWorkers
  <2>2. run'.status \in Terminal
    BY <1>2, <2>1, FinalSteps DEF FinalKept, Receipted
  <2>3. run' # None
    BY <2>1, ReceiptKept DEF IInv, LaunchInv
  <2> QED BY <2>2, <2>3 DEF Over, Final
<1> QED BY <1>1, <1>2 DEF Over

LEMMA NoOutcome == None \notin Terminal /\ None # "failed" /\ "orphaned" \notin Terminal /\ "uncertain" \notin Terminal
BY RecordAssumption DEF Statuses, Terminal, LaunchStatuses

LEMMA SeenStep == ASSUME IInv, IInv', SeenInv, [Next]_vars PROVE SeenInv'
<1>same. ASSUME UNCHANGED observer PROVE SeenInv'
  BY <1>same, OverKept DEF SeenInv, observer
<1>1. CASE UNCHANGED vars
  BY <1>1, <1>same DEF vars
<1>2. CASE Launcher
  BY <1>2, <1>same DEF Launcher, Prepare, WriteReceipt, PlacementFails, Intend, AskForPane, PaneVerified,
     StartChild, StartChildFails, ChildStarted, SubmitForeground, HandleFailure, HandleUncertain, FailRun,
     RunForeground, LauncherSteps
<1>3. ASSUME NEW w \in Workers, Worker(w) PROVE SeenInv'
  <2>1. WorkerOnly
    BY <1>3 DEF Worker, Claim, SaveStarting, FirstCheck, SecondCheck, CheckCancelled, Trust, StartFails,
       Start, SaveRunning, CheckContinue, Continue, Poll, Forward, SaveStopping, Escalate, Enforce, Look,
       ObservedUnsaved, CheckTerm, TermGroup, CheckKill, KillGroup, Check, Send, Reap, Wait, SaveOutcome,
       Handle, CheckBury, BuryTerm, CheckBurying, BuryKill, BuryReap, SaveFailure, WorkerSaves, Leave
  <2> QED BY <2>1, <1>same DEF WorkerOnly
<1>4. ASSUME NEW o \in Observers, Observer(o) PROVE SeenInv'
  <2>types. /\ seen \in [Observers -> [status : Statuses \cup {None}, runner : Workers \cup {None},
                                       launch : LaunchStatuses \cup {None}]]
            /\ answer \in [Observers -> Terminal \cup {"orphaned", "uncertain", None}]
    BY DEF IInv, TypeOK
  <2>only. Over' <=> Over
    BY <1>4 DEF Observer, Ask, ReadRun, ReadLaunch, Conclude, RequestStop, ObserverOnly, Over, Final,
       Receipted
  <2>other. ASSUME NEW q \in Observers, q # o PROVE seen'[q] = seen[q] /\ answer'[q] = answer[q]
    BY <1>4, <2>types, <2>other DEF Observer, Ask, ReadRun, ReadLaunch, Conclude, RequestStop, Return
  <2>return. ASSUME NEW result, Return(o, result)
             PROVE seen'[o] = NothingSeen /\ answer'[o] = result
    BY <2>return, <2>types DEF Return
  <2>nothing. NothingSeen.status \notin Terminal /\ NothingSeen.launch # "failed"
    BY NoOutcome DEF NothingSeen
  <2>1. CASE Ask(o)
    <3>1. seen' = seen /\ answer'[o] = None
      BY <2>1, <2>types DEF Ask
    <3> QED BY <3>1, <2>only, <2>other, NoOutcome DEF SeenInv
  <2>2. CASE ReadRun(o)
    <3>1. CASE run = None
      <4>1. Return(o, None)
        BY <2>2, <3>1 DEF ReadRun
      <4> QED BY <4>1, <2>return, <2>nothing, <2>only, <2>other, NoOutcome DEF SeenInv
    <3>2. CASE run # None
      <4>1. answer' = answer /\ seen'[o].status = run.status /\ seen'[o].launch = None
        BY <2>2, <3>2, <2>types DEF ReadRun
      <4>2. run.status \in Terminal => Over
        BY <3>2 DEF Over, Final
      <4> QED BY <4>1, <4>2, <2>only, <2>other, NoOutcome DEF SeenInv
    <3> QED BY <3>1, <3>2
  <2>3. CASE ReadLaunch(o)
    <3>1. /\ answer' = answer /\ seen'[o].status = seen[o].status
          /\ seen'[o].launch = IF launch = None THEN None ELSE launch.status
      BY <2>3, <2>types DEF ReadLaunch
    <3>2. launch # None /\ launch.status = "failed" => Over
      BY DEF Over, Receipted
    <3> QED BY <3>1, <3>2, <2>only, <2>other, NoOutcome DEF SeenInv
  <2>4. CASE Conclude(o)
    <3>1. Effective(seen[o]) \in Terminal => Over
      <4>1. Effective(seen[o]) \in Terminal => seen[o].status \in Terminal \/ seen[o].launch = "failed"
        <5>1. seen[o].launch \in Terminal => seen[o].launch = "failed"
          BY <2>types, NoOutcome DEF Terminal, LaunchStatuses
        <5> QED BY <5>1, NoOutcome DEF Effective, Terminal
      <4> QED BY <4>1 DEF SeenInv
    <3>2. /\ seen'[o] = NothingSeen
          /\ answer'[o] \in {Effective(seen[o]), None, answer[o]}
      BY <2>4, <2>types, <2>return DEF Conclude
    <3>3. answer'[o] \in Terminal => Over
      BY <3>1, <3>2, NoOutcome DEF SeenInv
    <3> QED BY <3>2, <3>3, <2>nothing, <2>only, <2>other DEF SeenInv
  <2>5. CASE RequestStop(o)
    <3>1. (seen' = seen /\ answer' = answer) \/ Return(o, None)
      BY <2>5 DEF RequestStop
    <3> QED BY <3>1, <2>return, <2>nothing, <2>only, <2>other, NoOutcome DEF SeenInv
  <2> QED BY <1>4, <2>1, <2>2, <2>3, <2>4, <2>5 DEF Observer
<1>5. CASE Environment
  BY <1>5, <1>same DEF Environment, PaneOpens, Duplicate, Signal, KillWorker, KillLauncher, KillDeadline,
     ProviderForks, ProviderExits, DescendantExits, ForeignReap, EnvOnly
<1> QED BY <1>1, <1>2, <1>3, <1>4, <1>5 DEF Next

(* The leader is started once, by a worker that found none, and is never forgotten. *)
LEMMA LeaderMoves ==
    ASSUME IInv, [Next]_vars
    PROVE  \/ UNCHANGED leader
           \/ leader = "none" /\ UNCHANGED run /\ \E w \in Workers : Start(w)
           \/ leader \notin {"none"} /\ leader' \notin {"none", "running"}
<1>inv. TypeOK /\ ClaimInv /\ ProviderInv /\ StepTypes /\ CountTypes
  BY TypeParts DEF IInv
<1>1. CASE UNCHANGED vars
  BY <1>1 DEF vars, provider
<1>2. CASE Launcher
  BY <1>2 DEF Launcher, Prepare, WriteReceipt, PlacementFails, Intend, AskForPane, PaneVerified,
     StartChild, StartChildFails, ChildStarted, SubmitForeground, HandleFailure, HandleUncertain, FailRun,
     RunForeground, LauncherSteps, provider
<1>3. ASSUME NEW w \in Workers, Worker(w)
      PROVE  \/ UNCHANGED leader
             \/ leader = "none" /\ UNCHANGED run /\ Start(w)
             \/ leader \notin {"none"} /\ leader' \notin {"none", "running"}
  <2>1. CASE Start(w)
    BY <2>1, <1>inv DEF Start, ClaimInv, Before
  <2>2. ASSUME NEW kill \in BOOLEAN, GroupSignal(kill), wpc[w] \in SignalSteps
        PROVE UNCHANGED leader \/ (leader # "none" /\ leader' \notin {"none", "running"})
    <3>1. leader \in {"running", "exited", "taken"}
      BY <2>2, <1>inv DEF ProviderInv, SignalSteps, Lost
    <3> QED BY <2>2, <3>1, <1>inv, SignalFacts
  <2>3. CASE Forward(w)
    BY <2>2, <2>3 DEF Forward, SignalSteps
  <2>4. CASE Continue(w) \/ Enforce(w) \/ TermGroup(w) \/ KillGroup(w) \/ BuryTerm(w) \/ BuryKill(w)
    <3>1. PICK from \in SignalSteps, kill \in BOOLEAN, 
              to \in {"started", "look", "kill", "reap", "burying", "buried"} : Send(w, from, kill, to)
      BY <2>4 DEF Continue, Enforce, TermGroup, KillGroup, BuryTerm, BuryKill, SignalSteps
    <3> QED BY <2>2, <3>1 DEF Send
  <2>6. CASE Reap(w) \/ BuryReap(w)
    BY <2>6, <1>inv DEF Reap, BuryReap, Wait, ProviderInv, SignalSteps, Lost
  <2>7. CASE ~(Start(w) \/ Forward(w) \/ Continue(w) \/ Enforce(w) \/ TermGroup(w) \/ KillGroup(w)
               \/ BuryTerm(w) \/ BuryKill(w) \/ Reap(w) \/ BuryReap(w))
    BY <1>3, <2>7 DEF Worker, Claim, SaveStarting, FirstCheck, SecondCheck, CheckCancelled, Trust,
       StartFails, CheckContinue, SaveRunning, Poll, SaveStopping, Escalate, Look, ObservedUnsaved,
       CheckTerm, CheckKill, SaveOutcome, Handle, CheckBury, CheckBurying, Check, SaveFailure,
       WorkerSaves, Leave, provider
  <2> QED BY <2>1, <2>3, <2>4, <2>6, <2>7
<1>4. ASSUME NEW o \in Observers, Observer(o) PROVE UNCHANGED leader
  BY <1>4 DEF Observer, Ask, ReadRun, ReadLaunch, Conclude, RequestStop, ObserverOnly, provider
<1>5. CASE Environment
  BY <1>5 DEF Environment, PaneOpens, Duplicate, Signal, KillWorker, KillLauncher, KillDeadline,
     ProviderForks, ProviderExits, DescendantExits, ForeignReap, EnvOnly, provider
<1> QED BY <1>1, <1>2, <1>3, <1>4, <1>5 DEF Next

(* Who says that the child was lost: the worker that was denied the signal. *)
LEMMA LossMoves ==
    ASSUME IInv, [Next]_vars
    PROVE  /\ run' # None /\ run'.lost => (run # None /\ run.lost) \/ \E w \in Workers : wpc[w] = "lost"
           /\ \A w \in Workers :
                /\ wpc'[w] \in {"bury", "burying"} => wpc[w] = wpc'[w] \/ leader # "none"
                /\ wpc'[w] = "lost" => wpc[w] = "lost"
                                       \/ (wpc[w] \in {"bury", "burying"} /\ ~Owned /\ UNCHANGED leader)
<1> DEFINE Claims == run' # None /\ run'.lost => (run # None /\ run.lost) \/ \E w \in Workers : wpc[w] = "lost"
           Steps == \A w \in Workers :
                      /\ wpc'[w] \in {"bury", "burying"} => wpc[w] = wpc'[w] \/ leader # "none"
                      /\ wpc'[w] = "lost" => wpc[w] = "lost"
                                             \/ (wpc[w] \in {"bury", "burying"} /\ ~Owned /\ UNCHANGED leader)
<1> SUFFICES Claims /\ Steps
  OBVIOUS
<1>inv. TypeOK /\ LaunchInv /\ ClaimInv /\ ProviderInv /\ StepTypes /\ CountTypes
  BY TypeParts DEF IInv
<1>wpc. wpc \in [Workers -> WorkerSteps]
  BY <1>inv DEF StepTypes
<1>same. ASSUME UNCHANGED run PROVE Claims
  BY <1>same
<1>still. ASSUME UNCHANGED wpc PROVE Steps
  BY <1>still
<1> HIDE DEF Claims, Steps
<1>1. CASE UNCHANGED vars
  BY <1>1, <1>same, <1>still DEF vars, files
<1>2. CASE Launcher
  <2>1. Claims
    <3>1. CASE Prepare
      BY <3>1, <1>inv DEF Prepare, Saves, SaveRaises, LaunchInv, Claims
    <3>2. CASE FailRun
      BY <3>2, <1>inv DEF FailRun, Saves, SaveRaises, Claims
    <3>3. CASE ~Prepare /\ ~FailRun
      BY <1>2, <3>3, <1>same DEF Launcher, WriteReceipt, PlacementFails, Intend, AskForPane, PaneVerified,
         StartChild, StartChildFails, ChildStarted, SubmitForeground, HandleFailure, HandleUncertain,
         RunForeground, LauncherSteps, files
    <3> QED BY <3>1, <3>2, <3>3
  <2>2. Steps
    <3>1. ASSUME NEW w \in Workers, wpc' = [wpc EXCEPT ![w] = "born"] PROVE Steps
      BY <3>1, <1>wpc DEF Steps
    <3>2. ASSUME NEW w \in Workers, StartChild(w) \/ RunForeground(w) PROVE Steps
      BY <3>1, <3>2 DEF StartChild, RunForeground
    <3>3. CASE ~\E w \in Workers : StartChild(w) \/ RunForeground(w)
      BY <1>2, <3>3, <1>still DEF Launcher, Prepare, WriteReceipt, PlacementFails, Intend, AskForPane,
         PaneVerified, StartChildFails, ChildStarted, SubmitForeground, HandleFailure, HandleUncertain,
         FailRun, LauncherSteps
    <3> QED BY <3>2, <3>3
  <2> QED BY <2>1, <2>2
<1>3. ASSUME NEW w \in Workers, Worker(w) PROVE Claims /\ Steps
  <2>step. ASSUME NEW s, Goto(w, s), s \in {"bury", "burying"} => wpc[w] = s \/ leader # "none",
                  s = "lost" => wpc[w] = "lost" \/ (wpc[w] \in {"bury", "burying"} /\ ~Owned /\ UNCHANGED leader)
           PROVE  Steps
    <3>1. wpc'[w] = s /\ \A v \in Workers \ {w} : wpc'[v] = wpc[v]
      BY <2>step, <1>wpc DEF Goto
    <3> QED BY <3>1, <2>step DEF Steps
  <2>plain. ASSUME NEW s \in {"gone", "claimed", "begin", "trust", "check", "start", "started", "poll", "stopping",
                              "escalate", "look", "term", "kill", "reap", "final", "except", "buried", "record", "leaving",
                              "cont"} \cup SignalSteps,
                   Goto(w, s)
            PROVE  Steps
    BY <2>plain, <2>step DEF SignalSteps
  <2>run. wpc[w] \notin {"none", "born", "gone"} => run \in Records /\ run # None
    BY <1>inv DEF ClaimInv, LaunchInv, NoWorkers, TypeOK, Idle
  <2>1. CASE SaveStarting(w)
    <3> DEFINE record == [run EXCEPT !.status = "starting", !.runner = w]
    <3>1. WorkerSaves(w, "claimed", record, "begin", "gone")
      BY <2>1 DEF SaveStarting
    <3>2. run # None /\ record.lost = run.lost
      BY <3>1, <2>run DEF Records, WorkerSaves
    <3> HIDE DEF record
    <3>3. Claims
      BY <3>1, <3>2 DEF Claims, WorkerSaves, Saves, SaveRaises
    <3>4. Steps
      BY <3>1, <2>plain DEF WorkerSaves
    <3> QED BY <3>3, <3>4
  <2>2. CASE SaveRunning(w)
    <3> DEFINE record == [run EXCEPT !.status = "running"]
    <3>1. WorkerSaves(w, "started", record, "poll", "except")
      BY <2>2 DEF SaveRunning
    <3>2. run # None /\ record.lost = run.lost
      BY <3>1, <2>run DEF Records, WorkerSaves
    <3> HIDE DEF record
    <3>3. Claims
      BY <3>1, <3>2 DEF Claims, WorkerSaves, Saves, SaveRaises
    <3>4. Steps
      BY <3>1, <2>plain DEF WorkerSaves
    <3> QED BY <3>3, <3>4
  <2>11. CASE SaveStopping(w)
    <3> DEFINE record == [run EXCEPT !.status = "stopping"]
    <3>1. WorkerSaves(w, "stopping", record, "escalate", "except")
      BY <2>11 DEF SaveStopping
    <3>2. run # None /\ record.lost = run.lost
      BY <3>1, <2>run DEF Records, WorkerSaves
    <3> HIDE DEF record
    <3>3. Claims
      BY <3>1, <3>2 DEF Claims, WorkerSaves, Saves, SaveRaises
    <3>4. Steps
      BY <3>1, <2>plain DEF WorkerSaves
    <3> QED BY <3>3, <3>4
  <2>3. CASE SaveOutcome(w)
    <3>0. PICK outcome \in Outcomes :
            WorkerSaves(w, "final", [run EXCEPT !.status = outcome], "leaving", "except")
      BY <2>3 DEF SaveOutcome
    <3> DEFINE record == [run EXCEPT !.status = outcome]
    <3>1. WorkerSaves(w, "final", record, "leaving", "except")
      BY <3>0
    <3>2. run # None /\ record.lost = run.lost
      BY <3>1, <2>run DEF Records, WorkerSaves
    <3> HIDE DEF record
    <3>3. Claims
      BY <3>1, <3>2 DEF Claims, WorkerSaves, Saves, SaveRaises
    <3>4. Steps
      BY <3>1, <2>plain DEF WorkerSaves
    <3> QED BY <3>3, <3>4
  <2>4. CASE SaveFailure(w)
    <3> DEFINE record == [run EXCEPT !.status = Failure]
               lost == [run EXCEPT !.status = Failure, !.lost = TRUE]
    <3>0. wpc[w] \notin {"none", "born", "gone"} => run # None /\ record.lost = run.lost
      BY <2>run DEF Records
    <3>3. WorkerSaves(w, "record", record, "leaving", "gone") \/ WorkerSaves(w, "lost", lost, "leaving", "gone")
      BY <2>4 DEF SaveFailure
    <3> HIDE DEF record, lost
    <3>1. CASE WorkerSaves(w, "record", record, "leaving", "gone")
      <4>1. run # None /\ record.lost = run.lost
        BY <3>1, <3>0 DEF WorkerSaves
      <4>2. Claims
        BY <3>1, <4>1 DEF Claims, WorkerSaves, Saves, SaveRaises
      <4> QED BY <3>1, <4>2, <2>plain DEF WorkerSaves
    <3>2. CASE WorkerSaves(w, "lost", lost, "leaving", "gone")
      <4>1. wpc[w] = "lost"
        BY <3>2 DEF WorkerSaves
      <4>2. Claims
        BY <4>1 DEF Claims
      <4> QED BY <3>2, <4>2, <2>plain DEF WorkerSaves
    <3> QED BY <3>3, <3>1, <3>2
  <2>5. CASE CheckBury(w) \/ CheckBurying(w)
    <3>1. UNCHANGED <<run, leader>> /\ wpc[w] \in {"bury", "burying"}
      BY <2>5 DEF CheckBury, CheckBurying, Check, provider
    <3>2. Goto(w, "buryterm") \/ Goto(w, "burykill") \/ (~Owned /\ Goto(w, "lost"))
      BY <2>5 DEF CheckBury, CheckBurying, Check
    <3> QED BY <3>1, <3>2, <2>step, <2>plain, <1>same
  <2>6. CASE BuryTerm(w)
    <3>1. UNCHANGED run /\ Goto(w, "burying") /\ wpc[w] = "buryterm"
      BY <2>6 DEF BuryTerm, Send
    <3>2. leader # "none"
      BY <3>1, <1>inv DEF ProviderInv, SignalSteps, Lost
    <3> QED BY <3>1, <3>2, <2>step, <1>same
  <2>7. CASE Handle(w)
    <3>1. UNCHANGED run
      BY <2>7 DEF Handle
    <3>2. Goto(w, "record") \/ (leader # "none" /\ Goto(w, "bury"))
      BY <2>7 DEF Handle
    <3> QED BY <3>1, <3>2, <2>step, <2>plain, <1>same
  <2>8. CASE Trust(w) \/ Start(w)
    <3>1. UNCHANGED run
      BY <2>8 DEF Trust, Start
    <3>2. PICK s \in {"check", "started", "cont", "except"} : Goto(w, s)
      BY <2>8 DEF Trust, Start, Goto
    <3> QED BY <3>1, <3>2, <2>plain, <1>same
  <2>9. CASE Claim(w) \/ FirstCheck(w) \/ SecondCheck(w) \/ StartFails(w) \/ Poll(w) \/ Forward(w) \/ Escalate(w)
             \/ Look(w) \/ Reap(w) \/ BuryReap(w) \/ Leave(w)
    <3>1. UNCHANGED run
      BY <2>9 DEF Claim, FirstCheck, SecondCheck, CheckCancelled, StartFails, Poll, Forward, Escalate, Look,
         Reap, BuryReap, Wait, Leave
    <3>2. PICK s \in {"gone", "claimed", "begin", "trust", "check", "start", "started", "poll", "stopping",
                      "escalate", "look", "term", "kill", "reap", "final", "except", "buried", "record", "leaving",
                      "cont"} \cup SignalSteps :
                Goto(w, s)
      BY <2>9 DEF Claim, FirstCheck, SecondCheck, CheckCancelled, StartFails, Poll, Forward, Escalate, Look,
         Reap, BuryReap, Wait, Leave, SignalSteps
    <3> QED BY <3>1, <3>2, <2>plain, <1>same
  <2>12. CASE CheckContinue(w) \/ CheckTerm(w) \/ CheckKill(w)
    <3>1. UNCHANGED run
      BY <2>12 DEF CheckContinue, CheckTerm, CheckKill, Check
    <3>2. PICK s \in {"except"} \cup SignalSteps : Goto(w, s)
      BY <2>12 DEF CheckContinue, CheckTerm, CheckKill, Check, SignalSteps
    <3> QED BY <3>1, <3>2, <2>plain, <1>same
  <2>13. CASE Continue(w) \/ Enforce(w) \/ TermGroup(w) \/ KillGroup(w) \/ BuryKill(w)
    <3>1. UNCHANGED run
      BY <2>13 DEF Continue, Enforce, TermGroup, KillGroup, BuryKill, Send
    <3>2. PICK s \in {"started", "look", "kill", "reap", "buried"} : Goto(w, s)
      BY <2>13 DEF Continue, Enforce, TermGroup, KillGroup, BuryKill, Send
    <3> QED BY <3>1, <3>2, <2>plain, <1>same
  <2>10. CASE ObservedUnsaved(w)
    BY <2>10, <2>plain, <1>same DEF ObservedUnsaved, SaveRaises
  <2> QED BY <1>3, <2>1, <2>2, <2>3, <2>4, <2>5, <2>6, <2>7, <2>8, <2>9, <2>10, <2>11, <2>12,
          <2>13 DEF Worker
<1>4. ASSUME NEW o \in Observers, Observer(o) PROVE Claims /\ Steps
  BY <1>4, <1>same, <1>still DEF Observer, Ask, ReadRun, ReadLaunch, Conclude, RequestStop, ObserverOnly
<1>5. CASE Environment
  <2>1. UNCHANGED run
    BY <1>5 DEF Environment, PaneOpens, Duplicate, Signal, KillWorker, KillLauncher, KillDeadline,
       ProviderForks, ProviderExits, DescendantExits, ForeignReap, EnvOnly, files
  <2>2. UNCHANGED wpc \/ \E w \in Workers, s \in {"born", "gone"} : wpc' = [wpc EXCEPT ![w] = s]
    BY <1>5 DEF Environment, PaneOpens, Duplicate, Signal, KillWorker, KillLauncher, KillDeadline,
       ProviderForks, ProviderExits, DescendantExits, ForeignReap
  <2>3. Steps
    BY <2>2, <1>wpc, <1>still DEF Steps
  <2> QED BY <2>1, <2>3, <1>same
<1> QED BY <1>1, <1>2, <1>3, <1>4, <1>5 DEF Next

LEMMA LostStep == ASSUME IInv, LostInv, [Next]_vars PROVE LostInv'
<1>1. CASE UNCHANGED leader
  BY <1>1, LossMoves DEF LostInv, Owned
<1>2. CASE leader = "none" /\ UNCHANGED run /\ \E w \in Workers : Start(w)
  <2>1. ~(run # None /\ run.lost) /\ \A w \in Workers : wpc[w] \notin {"bury", "burying", "lost"}
    BY <1>2 DEF LostInv
  <2>2. PICK w \in Workers, s \in {"started", "cont", "except"} : wpc' = [wpc EXCEPT ![w] = s]
    BY <1>2 DEF Start
  <2>3. \A v \in Workers : wpc'[v] \notin {"bury", "burying", "lost"}
    BY <2>1, <2>2 DEF IInv, TypeOK
  <2> QED BY <1>2, <2>1, <2>3 DEF LostInv
<1>3. CASE leader # "none" /\ leader' \notin {"none", "running"}
  BY <1>3 DEF LostInv
<1> QED BY <1>1, <1>2, <1>3, LeaderMoves

(* A waiter that is told an outcome is told the truth: the provider has ended, or never
   ran, unless the launch failed in the foreground and goes on. *)
THEOREM WaitIsTrue == Spec => []WaitMeansExitOtherwise
<1>1. Init => SeenInv /\ LostInv
  BY NoOutcome DEF Init, SeenInv, LostInv, NothingSeen
<1>2. IInv /\ SeenInv /\ LostInv /\ [Next]_vars => SeenInv' /\ LostInv'
  BY SeenStep, LostStep, NextInv
<1>3. IInv /\ SeenInv /\ LostInv => WaitMeansExitOtherwise
  <2> SUFFICES ASSUME IInv, SeenInv, LostInv, NEW o \in Observers, answer[o] \in Terminal,
                      ~(placement = "foreground" /\ Receipted({"failed"}))
               PROVE leader # "running"
    BY DEF WaitMeansExitOtherwise
  <2>1. CASE Receipted({"failed"})
    BY <2>1 DEF IInv, LaunchInv, ClaimInv, NoWorkers, Receipted
  <2>2. CASE Final
    BY <2>2 DEF IInv, RecordInv, ClaimInv, LostInv, Final, Done
  <2> QED BY <2>1, <2>2 DEF SeenInv, Over
<1> QED BY <1>1, <1>2, <1>3, SessionInvariance, PTL DEF Spec
=============================================================================
