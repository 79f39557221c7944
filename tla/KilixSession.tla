---------------------------- MODULE KilixSession ----------------------------
(***************************************************************************)
(* One managed run of a coding client (`kilix session launch`):            *)
(* config/kilix_session/manager.py (launch, inspect_run, wait, stop),      *)
(* runner.py (run) and the placement of panes.py.                          *)
(*                                                                         *)
(* The launcher writes run.json and launch.json and has a worker started:  *)
(* as its child (background), by the terminal engine in a new pane, or as  *)
(* itself (foreground).  The worker claims the run, starts the provider in *)
(* a process group of its own, forwards a stop, and clears the group       *)
(* before it reaps the leader.  Other processes inspect, wait for and stop *)
(* the run through the same files.                                         *)
(*                                                                         *)
(* Abstraction: of run.json the status, the runner and the cleanup error;  *)
(* of the provider its leader and one flag for its descendants.  A save    *)
(* that raises has replaced the file or not (Ledger.write syncs the        *)
(* directory after os.replace).                                            *)
(***************************************************************************)
EXTENDS Naturals

CONSTANTS
    Workers,        \* processes that run `_worker RUN_ID`
    Observers,      \* processes that wait for the run or stop it
    None,
    Asks,           \* what observers do: "wait", "stop"
    ForeignWaiter,  \* the worker's process has another waiter of its children
    MaxFaults,      \* bound: saves that raise
    MaxKills        \* bound: launchers and workers killed

ASSUME SessionAssumption ==
    /\ Asks \subseteq {"wait", "stop"}
    /\ ForeignWaiter \in BOOLEAN
    /\ MaxFaults \in Nat
    /\ MaxKills \in Nat
    /\ None \notin Workers

NothingSeen == [status |-> None, runner |-> None, launch |-> None]

Placements == {"background", "pane", "foreground"}
Terminal == {"completed", "failed", "interrupted"}

VARIABLES
    placement,
    run,        \* run.json
    launch,     \* launch.json
    stop,       \* stop.json exists
    claim,      \* who created worker.claim
    lpc,        \* the launcher
    requested,  \* the engine was asked for a pane with the worker
    wpc,        \* the workers
    interrupted, sent, due,     \* the claimant's: a stop was seen, forwarded, and 3 s have passed
    leader,     \* the provider's process, leader of its group
    code,       \* how it exited
    child,      \* a descendant lives in the group
    opc, kind, seen, answer,    \* the observers
    faults, kills,
    starts,     \* history: providers started
    strays,     \* history: signals sent to a number that no process of the run holds
    early       \* history: stop.json was there when the run was claimed

files == <<run, launch, stop, claim>>
provider == <<leader, code, child>>
runner == <<interrupted, sent, due>>
observer == <<opc, kind, seen, answer>>
history == <<starts, strays, early>>
vars == <<placement, files, lpc, requested, wpc, runner, provider, observer, faults, kills, history>>

Init ==
    /\ placement \in Placements
    /\ run = None
    /\ launch = None
    /\ stop = FALSE
    /\ claim = None
    /\ lpc = "start"
    /\ requested = FALSE
    /\ wpc = [w \in Workers |-> "none"]
    /\ interrupted = FALSE
    /\ sent = FALSE
    /\ due = FALSE
    /\ leader = "none"
    /\ code = None
    /\ child = FALSE
    /\ opc = [o \in Observers |-> "idle"]
    /\ kind = [o \in Observers |-> "wait"]
    /\ seen = [o \in Observers |-> NothingSeen]
    /\ answer = [o \in Observers |-> None]
    /\ faults = 0
    /\ kills = 0
    /\ starts = 0
    /\ strays = 0
    /\ early = FALSE

Alive(w) == wpc[w] \notin {"none", "gone"}

(* files.save raises, before or after the new file is in its place. *)
SaveRaises(file, record) ==
    /\ faults < MaxFaults
    /\ faults' = faults + 1
    /\ file' \in {file, record}

Saves(file, record) == file' = record /\ UNCHANGED faults

-----------------------------------------------------------------------------
(* The launcher. *)

Prepare ==
    LET record == [status |-> "prepared", runner |-> None, lost |-> FALSE] IN
    /\ lpc = "start"
    /\ \/ Saves(run, record) /\ lpc' = "listed"
       \/ SaveRaises(run, record) /\ lpc' = "done"
    /\ UNCHANGED <<placement, launch, stop, claim, requested, wpc, runner, provider, observer, kills,
                   history>>

Receipt(status, w) == [status |-> status, runner |-> w]

LauncherSteps(from, status, w, to, onError) ==
    /\ lpc = from
    /\ \/ Saves(launch, Receipt(status, w)) /\ lpc' = to
       \/ SaveRaises(launch, Receipt(status, w)) /\ lpc' = onError
    /\ UNCHANGED <<placement, run, stop, claim, requested, wpc, runner, provider, observer, kills,
                   history>>

WriteReceipt == LauncherSteps("listed", "prepared", None, "placing", "done")

(* No caller pane, a stale broker, an engine without the options, no log file:
   nothing was changed yet. *)
PlacementFails ==
    /\ placement # "foreground"
    /\ lpc = "placing"
    /\ lpc' = "handle"
    /\ UNCHANGED <<placement, files, requested, wpc, runner, provider, observer, faults, kills, history>>

(* The intent is on disk before a worker can exist. *)
Intend ==
    /\ placement # "foreground"
    /\ LauncherSteps("placing", "uncertain", None, "starting", "handle")

(* The terminal received `launch`; its answer may be late, wrong or missing. *)
AskForPane ==
    /\ placement = "pane"
    /\ lpc = "starting"
    /\ requested' \in BOOLEAN
    /\ lpc' \in (IF requested' THEN {"verify", "handle"} ELSE {"handle"})
    /\ UNCHANGED <<placement, files, wpc, runner, provider, observer, faults, kills, history>>

PaneVerified == LauncherSteps("verify", "submitted", None, "done", "handle")

StartChild(w) ==
    /\ placement = "background"
    /\ lpc = "starting"
    /\ wpc[w] = "none"
    /\ wpc' = [wpc EXCEPT ![w] = "born"]
    /\ lpc' = "started"
    /\ UNCHANGED <<placement, files, requested, runner, provider, observer, faults, kills, history>>

(* Popen raised OSError: there is no child, and the receipt says so again. *)
StartChildFails ==
    /\ placement = "background"
    /\ LauncherSteps("starting", "prepared", None, "handle", "handle")

(* The receipt names the child, unless process_identity finds that it has gone. *)
ChildStarted(w) ==
    /\ wpc[w] # "none"
    /\ LauncherSteps("started", "submitted", IF Alive(w) THEN w ELSE None, "done", "handle")

SubmitForeground ==
    /\ placement = "foreground"
    /\ LauncherSteps("placing", "submitted", None, "run", "handle")

(* Mutant of NotStarted: what is not known to be submitted was not started. *)
NotSubmitted == lpc = "handle" /\ launch.status # "submitted"

(* The exception handler of launch: a run that was certainly not started is
   failed; every other receipt keeps its status. *)
NotStarted == lpc = "handle" /\ launch.status = "prepared"

HandleFailure ==
    /\ NotStarted
    /\ LauncherSteps("handle", "failed", None, "failing", "done")

HandleUncertain ==
    /\ lpc = "handle"
    /\ ~NotStarted
    /\ LauncherSteps("handle", launch.status, launch.runner,
                     IF placement = "foreground" THEN "run" ELSE "done", "done")

FailRun ==
    LET record == [status |-> "failed", runner |-> None, lost |-> FALSE] IN
    /\ lpc = "failing"
    /\ \/ Saves(run, record) /\ lpc' = IF placement = "foreground" THEN "run" ELSE "done"
       \/ SaveRaises(run, record) /\ lpc' = "done"
    /\ UNCHANGED <<placement, launch, stop, claim, requested, wpc, runner, provider, observer, kills,
                   history>>

(* A foreground launch goes on as the worker, after the handler too. *)
RunForeground(w) ==
    /\ lpc = "run"
    /\ wpc[w] = "none"
    /\ wpc' = [wpc EXCEPT ![w] = "born"]
    /\ lpc' = "done"
    /\ UNCHANGED <<placement, files, requested, runner, provider, observer, faults, kills, history>>

Launcher ==
    \/ Prepare \/ WriteReceipt \/ PlacementFails \/ Intend \/ AskForPane \/ PaneVerified
    \/ \E w \in Workers : StartChild(w) \/ ChildStarted(w) \/ RunForeground(w)
    \/ StartChildFails \/ SubmitForeground \/ HandleFailure \/ HandleUncertain \/ FailRun

-----------------------------------------------------------------------------
(* The worker: runner.run. *)

Goto(w, step) == wpc' = [wpc EXCEPT ![w] = step]

WorkerOnly == UNCHANGED <<placement, launch, stop, lpc, requested, observer, kills>>

(* Mutant of MayClaim: the file is opened without O_EXCL. *)
MayAlwaysClaim == TRUE

(* worker.claim is created exclusively: the loser leaves. *)
MayClaim == claim = None

Claim(w) ==
    /\ wpc[w] = "born"
    /\ IF MayClaim
       THEN claim' = w /\ early' = stop /\ Goto(w, "claimed")
       ELSE Goto(w, "gone") /\ UNCHANGED <<claim, early>>
    /\ WorkerOnly
    /\ UNCHANGED <<run, runner, provider, faults, starts, strays>>

WorkerSaves(w, from, record, to, onError) ==
    /\ wpc[w] = from
    /\ \/ Saves(run, record) /\ Goto(w, to)
       \/ SaveRaises(run, record) /\ Goto(w, onError)
    /\ WorkerOnly
    /\ UNCHANGED <<claim, runner, provider, history>>

SaveStarting(w) ==
    WorkerSaves(w, "claimed", [run EXCEPT !.status = "starting", !.runner = w], "begin", "gone")

(* Mutant of FirstCheck: only the second cancelled() is left. *)
NoFirstCheck(w) ==
    /\ wpc[w] = "begin"
    /\ Goto(w, "trust")
    /\ WorkerOnly
    /\ UNCHANGED <<run, claim, runner, provider, faults, history>>

(* cancelled() before the trust and again before the start. *)
CheckCancelled(w, from, to) ==
    /\ wpc[w] = from
    /\ interrupted' = (interrupted \/ stop)
    /\ Goto(w, IF interrupted' THEN "except" ELSE to)
    /\ WorkerOnly
    /\ UNCHANGED <<run, claim, sent, due, provider, faults, history>>

FirstCheck(w) == CheckCancelled(w, "begin", "trust")

(* agent_trust.trust changes the client's configuration, refuses, or was not asked for. *)
Trust(w) ==
    /\ wpc[w] = "trust"
    /\ wpc' \in {[wpc EXCEPT ![w] = s] : s \in {"check", "except"}}
    /\ WorkerOnly
    /\ UNCHANGED <<run, claim, runner, provider, faults, history>>

SecondCheck(w) == CheckCancelled(w, "check", "start")

(* An unusable terminal or OSError of Popen. *)
StartFails(w) ==
    /\ wpc[w] = "start"
    /\ Goto(w, "except")
    /\ WorkerOnly
    /\ UNCHANGED <<run, claim, runner, provider, faults, history>>

(* An interactive provider is given the terminal, which may be lost now, and
   continued. *)
Start(w) ==
    /\ wpc[w] = "start"
    /\ leader' = "running"
    /\ starts' = starts + 1
    /\ wpc' \in {[wpc EXCEPT ![w] = s] : s \in {"started", "cont", "except"}}
    /\ WorkerOnly
    /\ UNCHANGED <<run, claim, runner, code, child, faults, strays, early>>

(* Mutant of Owned: _group_signal without its waitid. *)
OwnedUnchecked == leader # "none"

(* _group_signal is two steps.  waitid with WNOWAIT raises when another waiter
   has reaped the leader ... *)
Owned == leader \in {"running", "exited"}

Check(w, from, to, onError) ==
    /\ wpc[w] = from
    /\ Goto(w, IF Owned THEN to ELSE onError)
    /\ WorkerOnly
    /\ UNCHANGED <<run, claim, runner, provider, faults, history>>

(* ... and killpg takes whatever holds the number by then: the leader or a
   descendant, or no process of this run.  KILL ends the whole group; what TERM
   does is up to the provider (ProviderExits). *)
GroupSignal(kill) ==
    /\ strays' = strays + (IF leader = "taken" /\ ~child THEN 1 ELSE 0)
    /\ leader' = IF kill /\ leader = "running" THEN "exited" ELSE leader
    /\ code' = IF kill /\ leader = "running" THEN "signal" ELSE code
    /\ child' = (child /\ ~kill)

Send(w, from, kill, to) ==
    /\ wpc[w] = from
    /\ GroupSignal(kill)
    /\ Goto(w, to)
    /\ WorkerOnly
    /\ UNCHANGED <<run, claim, runner, faults, starts, early>>

CheckContinue(w) == Check(w, "cont", "continue", "except")
Continue(w) == Send(w, "continue", FALSE, "started")

SaveRunning(w) ==
    WorkerSaves(w, "started", [run EXCEPT !.status = "running"], "poll", "except")

(* One turn of the loop: cancelled() and the first signal ... *)
Poll(w) ==
    /\ wpc[w] = "poll"
    /\ interrupted' = (interrupted \/ stop)
    /\ Goto(w, IF ~interrupted' \/ sent THEN "escalate" ELSE IF Owned THEN "forward" ELSE "except")
    /\ WorkerOnly
    /\ UNCHANGED <<run, claim, sent, due, provider, faults, history>>

Forward(w) ==
    /\ wpc[w] = "forward"
    /\ GroupSignal(FALSE)
    /\ sent' = TRUE
    /\ Goto(w, "stopping")
    /\ WorkerOnly
    /\ UNCHANGED <<run, claim, interrupted, due, faults, starts, early>>

SaveStopping(w) ==
    WorkerSaves(w, "stopping", [run EXCEPT !.status = "stopping"], "escalate", "except")

(* Mutant of Escalate: the provider may take its time. *)
NeverEscalate(w) ==
    /\ wpc[w] = "escalate"
    /\ Goto(w, "look")
    /\ WorkerOnly
    /\ UNCHANGED <<run, claim, runner, provider, faults, history>>

(* ... KILL once the three seconds are over ... *)
Escalate(w) ==
    /\ wpc[w] = "escalate"
    /\ Goto(w, IF ~sent \/ ~due THEN "look" ELSE IF Owned THEN "enforce" ELSE "except")
    /\ WorkerOnly
    /\ UNCHANGED <<run, claim, runner, provider, faults, history>>

Enforce(w) == Send(w, "enforce", TRUE, "look")

(* ... and a look at the leader, which stays unreaped. *)
Look(w) ==
    /\ wpc[w] = "look"
    /\ Goto(w, CASE leader = "exited" -> "term" [] leader = "running" -> "poll" [] OTHER -> "except")
    /\ WorkerOnly
    /\ UNCHANGED <<run, claim, runner, provider, faults, history>>

(* The save of an observed model or session id raises. *)
ObservedUnsaved(w) ==
    /\ wpc[w] = "look"
    /\ SaveRaises(run, run)
    /\ Goto(w, "except")
    /\ WorkerOnly
    /\ UNCHANGED <<claim, runner, provider, history>>

(* Mutant of KillGroup: TERM was enough. *)
TermOnly(w) == Send(w, "sigkill", FALSE, "reap")

(* The group gets TERM and KILL while the leader is still its anchor. *)
CheckTerm(w) == Check(w, "term", "sigterm", "except")
TermGroup(w) == Send(w, "sigterm", FALSE, "kill")
CheckKill(w) == Check(w, "kill", "sigkill", "except")
KillGroup(w) == Send(w, "sigkill", TRUE, "reap")

(* proc.wait: a leader that another waiter took counts as exit code 0. *)
Wait(w, from, to) ==
    /\ wpc[w] = from
    /\ leader # "running"
    /\ leader' = IF leader = "exited" THEN "reaped" ELSE "collected"
    /\ Goto(w, to)
    /\ WorkerOnly
    /\ UNCHANGED <<run, claim, runner, code, child, faults, history>>

Reap(w) == Wait(w, "reap", "final")

(* Mutant of Outcomes: the exit code alone decides. *)
OutcomeByCode ==
    IF code = "signal" /\ leader = "reaped" THEN {"interrupted"}
    ELSE IF code = "error" /\ leader = "reaped" THEN {"failed"}
    ELSE {"completed", "failed"}

Outcomes ==
    IF interrupted \/ (code = "signal" /\ leader = "reaped") THEN {"interrupted"}
    ELSE IF code = "error" /\ leader = "reaped" THEN {"failed"}
    ELSE {"completed", "failed"}        \* an error event of the provider makes it failed

SaveOutcome(w) ==
    \E outcome \in Outcomes :
        WorkerSaves(w, "final", [run EXCEPT !.status = outcome], "leaving", "except")

(* The exception handler of run. *)
Handle(w) ==
    /\ wpc[w] = "except"
    /\ Goto(w, IF leader \in {"none", "reaped", "collected"} THEN "record" ELSE "bury")
    /\ WorkerOnly
    /\ UNCHANGED <<run, claim, runner, provider, faults, history>>

(* TERM, and at most a second later, or as soon as the leader exits, KILL. *)
CheckBury(w) == Check(w, "bury", "buryterm", "lost")
BuryTerm(w) == Send(w, "buryterm", FALSE, "burying")
CheckBurying(w) == Check(w, "burying", "burykill", "lost")
BuryKill(w) == Send(w, "burykill", TRUE, "buried")
BuryReap(w) == Wait(w, "buried", "record")

Failure == IF interrupted THEN "interrupted" ELSE "failed"

SaveFailure(w) ==
    \/ WorkerSaves(w, "record", [run EXCEPT !.status = Failure], "leaving", "gone")
    \/ WorkerSaves(w, "lost", [run EXCEPT !.status = Failure, !.lost = TRUE], "leaving", "gone")

Leave(w) ==
    /\ wpc[w] = "leaving"
    /\ Goto(w, "gone")
    /\ WorkerOnly
    /\ UNCHANGED <<run, claim, runner, provider, faults, history>>

Worker(w) ==
    \/ Claim(w) \/ SaveStarting(w) \/ FirstCheck(w) \/ Trust(w) \/ SecondCheck(w)
    \/ StartFails(w) \/ Start(w) \/ CheckContinue(w) \/ Continue(w) \/ SaveRunning(w)
    \/ Poll(w) \/ Forward(w) \/ SaveStopping(w) \/ Escalate(w) \/ Enforce(w)
    \/ Look(w) \/ ObservedUnsaved(w)
    \/ CheckTerm(w) \/ TermGroup(w) \/ CheckKill(w) \/ KillGroup(w) \/ Reap(w) \/ SaveOutcome(w)
    \/ Handle(w) \/ CheckBury(w) \/ BuryTerm(w) \/ CheckBurying(w) \/ BuryKill(w) \/ BuryReap(w)
    \/ SaveFailure(w) \/ Leave(w)

-----------------------------------------------------------------------------
(* inspect_run reads run.json, launch.json and /proc, one after the other;
   wait repeats it, stop begins with it. *)

ObserverOnly ==
    UNCHANGED <<placement, run, launch, claim, lpc, requested, wpc, runner, provider, kills, history>>

Ask(o) ==
    /\ opc[o] = "idle"
    /\ \E k \in Asks : kind' = [kind EXCEPT ![o] = k]
    /\ opc' = [opc EXCEPT ![o] = "run"]
    /\ answer' = [answer EXCEPT ![o] = None]
    /\ ObserverOnly
    /\ UNCHANGED <<seen, stop, faults>>

(* A result, or an error (None); what was read is forgotten. *)
Return(o, result) ==
    /\ answer' = [answer EXCEPT ![o] = result]
    /\ opc' = [opc EXCEPT ![o] = "idle"]
    /\ kind' = [kind EXCEPT ![o] = "wait"]
    /\ seen' = [seen EXCEPT ![o] = NothingSeen]

ReadRun(o) ==
    /\ opc[o] = "run"
    /\ \/ /\ run = None
          /\ Return(o, None)
       \/ /\ run # None
          /\ seen' = [seen EXCEPT ![o] = [status |-> run.status, runner |-> run.runner, launch |-> None]]
          /\ opc' = [opc EXCEPT ![o] = IF run.runner = None THEN "launch" ELSE "proc"]
          /\ UNCHANGED <<kind, answer>>
    /\ ObserverOnly
    /\ UNCHANGED <<stop, faults>>

(* launch.json matters while run.json does not name the runner. *)
ReadLaunch(o) ==
    /\ opc[o] = "launch"
    /\ seen' = [seen EXCEPT ![o].launch = IF launch = None THEN None ELSE launch.status,
                            ![o].runner = IF launch = None THEN None ELSE launch.runner]
    /\ opc' = [opc EXCEPT ![o] = "proc"]
    /\ ObserverOnly
    /\ UNCHANGED <<kind, answer, stop, faults>>

Effective(r) ==
    IF r.status \in Terminal THEN r.status
    ELSE IF r.runner # None /\ ~Alive(r.runner) THEN "orphaned"
    ELSE IF r.status # "prepared" \/ r.launch = None THEN r.status
    ELSE IF r.launch = "submitted" THEN "queued" ELSE r.launch

Conclude(o) ==
    LET effective == Effective(seen[o])
        over == Terminal \cup {"orphaned"} \cup (IF kind[o] = "wait" THEN {"uncertain"} ELSE {})
    IN  /\ opc[o] = "proc"
        /\ \/ effective \in over /\ Return(o, effective)
           \/ effective \notin over /\ kind[o] = "wait" /\ Return(o, None)     \* timed out
           \/ /\ effective \notin over
              /\ opc' = [opc EXCEPT ![o] = IF kind[o] = "stop" THEN "request" ELSE "run"]
              /\ seen' = [seen EXCEPT ![o] = NothingSeen]
              /\ UNCHANGED <<kind, answer>>
        /\ ObserverOnly
        /\ UNCHANGED <<stop, faults>>

(* stop.json is written once, under stop.lock; then stop waits. *)
RequestStop(o) ==
    /\ opc[o] = "request"
    /\ \/ /\ Saves(stop, TRUE)
          /\ kind' = [kind EXCEPT ![o] = "wait"]
          /\ opc' = [opc EXCEPT ![o] = "run"]
          /\ UNCHANGED <<seen, answer>>
       \/ SaveRaises(stop, TRUE) /\ Return(o, None)
    /\ ObserverOnly

Observer(o) == Ask(o) \/ ReadRun(o) \/ ReadLaunch(o) \/ Conclude(o) \/ RequestStop(o)

-----------------------------------------------------------------------------
(* Around them. *)

EnvOnly == UNCHANGED <<placement, files, lpc, requested, observer, faults, history>>

(* The engine opens the pane, at once or after the launcher gave up. *)
PaneOpens(w) ==
    /\ requested
    /\ wpc[w] = "none"
    /\ wpc' = [wpc EXCEPT ![w] = "born"]
    /\ requested' = FALSE
    /\ UNCHANGED <<placement, files, lpc, runner, provider, observer, faults, kills, history>>

(* `_worker RUN_ID` is invoked again. *)
Duplicate(w) ==
    /\ launch # None
    /\ launch.status = "submitted"
    /\ wpc[w] = "none"
    /\ wpc' = [wpc EXCEPT ![w] = "born"]
    /\ EnvOnly
    /\ UNCHANGED <<runner, provider, kills>>

(* SIGTERM or SIGHUP reaches the worker while its handlers are installed. *)
Signal(w) ==
    /\ wpc[w] \notin {"none", "born", "claimed", "leaving", "gone"}
    /\ interrupted' = TRUE
    /\ EnvOnly
    /\ UNCHANGED <<wpc, sent, due, provider, kills>>

KillWorker(w) ==
    /\ Alive(w)
    /\ kills < MaxKills
    /\ kills' = kills + 1
    /\ wpc' = [wpc EXCEPT ![w] = "gone"]
    /\ EnvOnly
    /\ UNCHANGED <<runner, provider>>

KillLauncher ==
    /\ lpc # "done"
    /\ kills < MaxKills
    /\ kills' = kills + 1
    /\ lpc' = "done"
    /\ UNCHANGED <<placement, files, requested, wpc, runner, provider, observer, faults, history>>

KillDeadline ==
    /\ sent
    /\ wpc[claim] \in {"poll", "stopping", "escalate", "look"}
    /\ due' = TRUE
    /\ EnvOnly
    /\ UNCHANGED <<wpc, interrupted, sent, provider, kills>>

ProviderForks ==
    /\ leader = "running"
    /\ child' = TRUE
    /\ EnvOnly
    /\ UNCHANGED <<wpc, runner, leader, code, kills>>

ProviderExits ==
    /\ leader = "running"
    /\ leader' = "exited"
    /\ code' \in {"zero", "error", "signal"}
    /\ EnvOnly
    /\ UNCHANGED <<wpc, runner, child, kills>>

DescendantExits ==
    /\ child
    /\ child' = FALSE
    /\ EnvOnly
    /\ UNCHANGED <<wpc, runner, leader, code, kills>>

ForeignReap ==
    /\ ForeignWaiter
    /\ leader = "exited"
    /\ Alive(claim)
    /\ leader' = "taken"
    /\ EnvOnly
    /\ UNCHANGED <<wpc, runner, code, child, kills>>

Environment ==
    \/ \E w \in Workers : PaneOpens(w) \/ Duplicate(w) \/ Signal(w) \/ KillWorker(w)
    \/ KillLauncher \/ KillDeadline \/ ProviderForks \/ ProviderExits \/ DescendantExits \/ ForeignReap

Next ==
    \/ Launcher
    \/ \E w \in Workers : Worker(w)
    \/ \E o \in Observers : Observer(o)
    \/ Environment

Spec == Init /\ [][Next]_vars

(* A worker that lives goes on, and three seconds pass. *)
FairSpec ==
    /\ Spec
    /\ \A w \in Workers : WF_vars(Worker(w))
    /\ WF_vars(KillDeadline)

-----------------------------------------------------------------------------
(* A worker between waitid and killpg. *)
SignalSteps == {"continue", "forward", "enforce", "sigterm", "sigkill", "buryterm", "burykill"}

Statuses == {"prepared", "starting", "running", "stopping"} \cup Terminal
LaunchStatuses == {"prepared", "uncertain", "submitted", "failed"}
Records == [status : Statuses, runner : Workers \cup {None}, lost : BOOLEAN]
Receipts == [status : LaunchStatuses, runner : Workers \cup {None}]

ASSUME RecordAssumption == None \notin Records \cup Receipts \cup Statuses \cup LaunchStatuses

(* The variables have their types, and run.json names the process that claimed
   the run as its runner (runner.run). *)
TypeOK ==
    /\ placement \in Placements
    /\ run \in Records \cup {None}
    /\ run # None /\ run.runner # None => run.runner = claim
    /\ launch \in Receipts \cup {None}
    /\ stop \in BOOLEAN /\ requested \in BOOLEAN
    /\ claim \in Workers \cup {None}
    /\ lpc \in {"start", "listed", "placing", "starting", "verify", "started", "run", "handle", "failing",
                "done"}
    /\ wpc \in [Workers -> {"none", "born", "claimed", "begin", "trust", "check", "start", "started", "poll",
                            "stopping", "escalate", "look", "term", "kill", "reap", "final", "except",
                            "bury", "burying", "buried", "record", "lost", "leaving", "gone",
                            "cont"} \cup SignalSteps]
    /\ interrupted \in BOOLEAN /\ sent \in BOOLEAN /\ due \in BOOLEAN
    /\ leader \in {"none", "running", "exited", "taken", "reaped", "collected"}
    /\ code \in {None, "zero", "error", "signal"}
    /\ child \in BOOLEAN
    /\ opc \in [Observers -> {"idle", "run", "launch", "proc", "request"}]
    /\ kind \in [Observers -> {"wait", "stop"}]
    /\ seen \in [Observers -> [status : Statuses \cup {None}, runner : Workers \cup {None},
                              launch : LaunchStatuses \cup {None}]]
    /\ answer \in [Observers -> Terminal \cup {"orphaned", "uncertain", None}]
    /\ faults \in 0..MaxFaults /\ kills \in 0..MaxKills
    /\ starts \in Nat /\ strays \in Nat
    /\ early \in BOOLEAN

(* However often the worker of a run is invoked, by the launcher, by a late
   terminal or again by hand, one provider is started for it at most: the
   exclusive creation of worker.claim, after which run.json names its creator
   and nobody else (runner.run, TypeOK). *)
OneProvider == TypeOK /\ starts <= 1

(* A run whose record is final has left nothing behind: the leader was reaped
   and no descendant lives in its group, whatever raised after the start,
   unless the record says that the child was lost to another waiter (runner.run,
   the end of the loop and the exception handler). *)
GroupCleared ==
    run # None /\ run.status \in Terminal /\ claim # None /\ ~run.lost =>
        leader \in {"none", "reaped", "collected"} /\ ~child

(* "child wait ownership lost; no further signals sent": a worker that lost its
   leader to another waiter between waitid and killpg sends one signal to a number
   that may be a stranger's, never a second one; without another waiter it sends
   none, whatever it signals and whenever the provider exits (_group_signal and
   its callers in runner.run). *)
NoFurtherSignals == strays <= IF ForeignWaiter THEN 1 ELSE 0

(* A run stopped while it was queued neither starts its provider nor changes
   the client's folder trust, whenever its worker comes (cancelled in
   runner.run). *)
CancelledRunsNothing ==
    early => starts = 0 /\ \A w \in Workers : wpc[w] \notin {"trust", "check", "start"}

(* When the launcher records that the launch failed, there is no worker and
   the terminal was not asked for one; only a foreground launch goes on
   (launch, its exception handler and its last lines). *)
FailedLaunchRanNothing ==
    launch # None /\ launch.status = "failed" /\ placement # "foreground" =>
        claim = None /\ ~requested /\ \A w \in Workers : ~Alive(w)

(* A run that a stop or a signal was forwarded to is not called completed, even
   if the provider handles the signal and exits with 0, or another waiter takes
   its exit code (runner.run, the choice of the status). *)
StoppedNotCompleted == run # None /\ run.status = "completed" => ~sent

(* A final record stays final: no late save of the launcher, of the worker or
   of a second worker takes it back.  A foreground launch that failed is the
   exception WaitMeansExit is about. *)
FinalStaysFinal ==
    [][ run # None /\ run.status \in Terminal =>
          \/ run'.status \in Terminal
          \/ placement = "foreground" /\ launch.status = "failed" ]_vars

(* wait answers a final status only when the run's provider is not running and
   will not run: "Wait for process exit" (manager.wait). *)
WaitMeansExit ==
    \A o \in Observers : answer[o] \in Terminal => leader # "running"

(* wait and stop answer orphaned only about a run that recorded no outcome:
   "SIGKILL, machine failure or a dead runner may leave status incomplete"
   (docs/session.md, inspect_run). *)
OrphanedHasNoOutcome ==
    \A o \in Observers : answer[o] = "orphaned" => run.status \notin Terminal

(* A stop that was requested ends the run: while its worker lives it records
   an outcome, even if the provider ignores every TERM. *)
StopEnds ==
    \A w \in Workers :
        stop /\ claim = w /\ Alive(w) ~> (run # None /\ run.status \in Terminal) \/ ~Alive(w)

=============================================================================
