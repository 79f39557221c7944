----------------------------- MODULE PrivateBus -----------------------------
(***************************************************************************)
(* The family of processes behind the private bus of a GUI pane            *)
(* (src/config/kilix_sdk): the controller of a root service, the wait      *)
(* owner it forks (here the ancestor: it owns every wait of the family),   *)
(* the cleanup owner, the owner's guardian with the bus daemon, the        *)
(* program of the pane, and whatever the daemon and the program start.     *)
(* Births are gated, pinned and moved into a control group before they     *)
(* run; the end of the family is certified by the ancestor's own waits.    *)
(* The controller only waits for the ancestor, and the SDK holds its pidfd.*)
(*                                                                         *)
(* A process is none, gated (it waits for its birth gate), opening (gate   *)
(* open, program not yet executed), alive, a zombie, or gone (reaped).     *)
(* The model starts when the ancestor has authenticated its SDK and        *)
(* allocated both boundaries; every process of the family and the SDK may  *)
(* be killed at any moment, controller and ancestor too when RootMayDie.   *)
(***************************************************************************)
EXTENDS Naturals, Sequences

CONSTANTS
    Kids,            \* processes the bus daemon and the program may start
    MaxQueued,       \* bound: packets waiting for the SDK when it repeats a launch
    RootMayDie       \* whether controller and ancestor may be killed

Family == {"owner", "guardian", "daemon", "program"} \cup Kids
Procs == Family \cup {"controller", "ancestor", "sdk"}

ASSUME FamilyAssumption ==
    /\ Kids \cap {"owner", "guardian", "daemon", "program",
                 "controller", "ancestor", "sdk", "init"} = {}
    /\ MaxQueued \in Nat
    /\ RootMayDie \in BOOLEAN

VARIABLES
    life, parent, group,      \* of every process; group is none, outer or inner
    below,                    \* the kids that descend from the owner
    apc, trigger, cert,       \* the ancestor: where it is, why it ends, what it certified
    notified,                 \* the ancestor said once that its drain is pending
    toA, toSDK,               \* the control socket, one queue per direction
    spc, held, receipt, reported,  \* the SDK and its PrivateBus
    opc, hand, blame          \* the owner; the hand-off of the program; who left first

procVars == <<life, parent, group, below>>
ancVars == <<apc, trigger, cert, notified>>
sdkVars == <<spc, held, receipt, reported>>
ownVars == <<opc, hand>>
vars == <<life, parent, group, below, apc, trigger, cert, notified, toA, toSDK,
          spc, held, receipt, reported, opc, hand, blame>>

Ending == {"finish", "sent", "done", "lost"}
Faults == {"owner-loss", "supervisor-stop", "protocol-fault", "bootstrap-fault"}
Triggers == Faults \cup {"none", "requested", "primary-exit"}

(* A pidfd is ready once the process is dead, reaped or not. *)
Dead(p) == life[p] \in {"zombie", "gone"}
Living(p) == life[p] \in {"gated", "opening", "alive"}
ChildrenOf(q) == {p \in Procs : parent[p] = q /\ (Living(p) \/ life[p] = "zombie")}

(* cgroup.events of a boundary: populated by its living members, zombies    *)
(* not counted; the inner one lies within the outer one.                    *)
Members(boundary) ==
    {p \in Family : Living(p) /\ \/ group[p] = "inner"
                                 \/ boundary = "outer" /\ group[p] = "outer"}

Init ==
    /\ life = [p \in Procs |-> IF p \in Family THEN "none" ELSE "alive"]
    /\ parent = [p \in Procs |-> IF p = "ancestor" THEN "controller" ELSE "init"]
    /\ group = [p \in Procs |-> "none"]
    /\ below = {}
    /\ apc = "fork" /\ trigger = "none" /\ cert = "none" /\ notified = FALSE
    /\ toA = <<>> /\ toSDK = <<>>
    /\ spc = "boot" /\ held = FALSE /\ receipt = "none" /\ reported = FALSE
    /\ opc = "begin" /\ hand = "no" /\ blame = "none"

-----------------------------------------------------------------------------
(* Births and deaths.                                                       *)

(* Owner, ancestor and controller are subreapers: an orphan goes to the     *)
(* nearest one above it that lives.                                         *)
Heir(p) ==
    IF p \in {"guardian", "daemon"} \cup below /\ life["owner"] = "alive" THEN "owner"
    ELSE IF p \notin {"ancestor", "controller"} /\ life["ancestor"] = "alive" THEN "ancestor"
    ELSE IF p # "controller" /\ life["controller"] = "alive" THEN "controller"
    ELSE "init"

Born(p, by, how, where) ==
    /\ life[p] = "none"
    /\ life' = [life EXCEPT ![p] = how]
    /\ parent' = [parent EXCEPT ![p] = by]
    /\ group' = [group EXCEPT ![p] = where]
    /\ below' = IF p \in Kids /\ by \in {"daemon"} \cup below THEN below \cup {p} ELSE below

(* Why the first of owner and guardian left before the ancestor ended the   *)
(* family: they are asked to when the SDK hangs up or dies, and when the    *)
(* program ends.                                                            *)
HungUp == spc \in {"closing", "closed", "stuck", "dead"}
Asked == HungUp \/ Dead("program")

(* p exits or is killed: its children change hands, init reaps its own. *)
Die(p) ==
    LET heir == Heir(p)
    IN  /\ Living(p)
        /\ group' = [group EXCEPT ![p] = "none"]
        /\ below' = below \ {p}
        /\ opc' = IF p = "owner" THEN "begin" ELSE opc
        /\ blame' = IF p \in {"owner", "guardian"} /\ blame = "none" /\ apc \notin Ending
                    THEN (IF Asked THEN "asked" ELSE "lost") ELSE blame
        /\ parent' = [q \in Procs |-> IF parent[q] = p THEN heir ELSE parent[q]]
        /\ life' = [q \in Procs |->
             CASE q = p -> (IF parent[p] = "init" THEN "gone" ELSE "zombie")
               [] parent[q] = p /\ life[q] = "zombie" /\ heir = "init" -> "gone"
               [] OTHER -> life[q]]

Reap(q, p) ==
    /\ life[p] = "zombie" /\ parent[p] = q
    /\ life' = [life EXCEPT ![p] = "gone"]
    /\ parent' = [parent EXCEPT ![p] = "init"]
    /\ UNCHANGED <<group, below>>

(* Anything may be killed or exit by itself; a gated birth is still root's. *)
Exits(p) ==
    /\ life[p] \in {"opening", "alive"}
    /\ p \notin {"sdk", "ancestor"} /\ (p = "controller" => RootMayDie)
    /\ Die(p)
    /\ UNCHANGED <<ancVars, toA, toSDK, sdkVars, hand>>

(* What was queued for a killed ancestor and what it knew is lost with it. *)
AncestorLost ==
    /\ life["ancestor"] = "alive" /\ RootMayDie
    /\ Die("ancestor")
    /\ apc' = IF cert = "none" THEN "lost" ELSE apc
    /\ trigger' = cert /\ notified' = FALSE
    /\ toA' = <<>>
    /\ UNCHANGED <<cert, toSDK, sdkVars, hand>>

(* The SDK is killed or exits; its end of every socket closes with it. *)
SDKExits ==
    /\ life["sdk"] = "alive"
    /\ Die("sdk")
    /\ spc' = "dead" /\ toSDK' = <<>>
    /\ UNCHANGED <<ancVars, toA, held, receipt, reported, hand>>

(* PR_SET_PDEATHSIG: exec_owner and exec_primary bind to the ancestor,      *)
(* the guardian to the owner, the daemon to the guardian.                   *)
BoundTo(p) == CASE p \in {"owner", "program"} -> "ancestor"
                [] p = "guardian" -> "owner"
                [] p = "daemon" -> "guardian"

ParentDeath(p) ==
    /\ p \in Family \ Kids
    /\ Dead(BoundTo(p))
    /\ Die(p)
    /\ UNCHANGED <<ancVars, toA, toSDK, sdkVars, hand>>

(* The daemon starts services, the program its children, and those theirs;  *)
(* they inherit the group. Nobody asks the daemon before the program runs.  *)
Starts(p, c) ==
    /\ p \in {"daemon", "program"} \cup Kids /\ c \in Kids
    /\ life[p] = "alive" /\ life["program"] \notin {"none", "gated", "opening"}
    /\ Born(c, p, "alive", group[p])
    /\ UNCHANGED <<ancVars, toA, toSDK, sdkVars, ownVars, blame>>

-----------------------------------------------------------------------------
(* The ancestor: NativeWaitOwner and SupervisorServer.                      *)

AncestorRuns(at) == apc = at /\ life["ancestor"] = "alive"

(* From here on nothing is read: close_connections discards what is queued. *)
(* Who left first is only remembered for the trigger that speaks of it.     *)
End(why) == /\ apc' = "finish" /\ trigger' = why
            /\ toA' = <<>>
            /\ blame' = IF why = "owner-loss" THEN blame ELSE "none"
            /\ UNCHANGED <<cert, notified>>

Goes(to) == apc' = to /\ UNCHANGED <<trigger, cert, notified>>

(* birth_authority: no birth and no commit once the controller is lost. *)
MayBear == ~Dead("controller")

(* spawn: fork behind the gate, pin and migrate, open the gate, answer. *)
ForkOwner ==
    /\ AncestorRuns("fork") /\ MayBear
    /\ Born("owner", "ancestor", "gated", "none")
    /\ Goes("placing")
    /\ UNCHANGED <<toA, toSDK, sdkVars, ownVars, blame>>

PlaceOwner ==
    /\ AncestorRuns("placing") /\ Living("owner")
    /\ group' = [group EXCEPT !["owner"] = "outer"]
    /\ Goes("gate")
    /\ UNCHANGED <<life, parent, below, toA, toSDK, sdkVars, ownVars, blame>>

OpenOwnerGate ==
    /\ AncestorRuns("gate") /\ Living("owner")
    /\ life' = [life EXCEPT !["owner"] = "alive"]
    /\ Goes("serve")
    /\ toSDK' = Append(toSDK, "boundary")
    /\ UNCHANGED <<parent, group, below, toA, sdkVars, ownVars, blame>>

(* Any step of the start may raise: a pin, a write, the peer gone. *)
BootFault ==
    /\ apc \in {"fork", "placing", "gate"} /\ life["ancestor"] = "alive"
    /\ End("bootstrap-fault")
    /\ UNCHANGED <<procVars, toSDK, sdkVars, ownVars>>

(* wait_event: the manager asks the service to stop, or the controller is   *)
(* lost: its end of the hand-off is closed.                                 *)
SupervisorStop ==
    /\ AncestorRuns("serve")
    /\ End("supervisor-stop")
    /\ UNCHANGED <<procVars, toSDK, sdkVars, ownVars>>

(* wait_event: a queued packet first, then the program, the SDK, the owner. *)
(* The end of the control socket is a packet too, and it does not decode.   *)
ProgramExit ==
    /\ AncestorRuns("serve") \/ AncestorRuns("owner-seen")
    /\ apc = "serve" => toA = <<>> /\ ~Dead("sdk")
    /\ Dead("program")
    /\ End("primary-exit")
    /\ UNCHANGED <<procVars, toSDK, sdkVars, ownVars>>

ControlIgnored == AncestorRuns("serve") /\ toA = <<>> /\ Dead("sdk") /\ UNCHANGED vars
ControlEnds ==
    /\ AncestorRuns("serve") /\ toA = <<>> /\ Dead("sdk")
    /\ End("protocol-fault")
    /\ UNCHANGED <<procVars, toSDK, sdkVars, ownVars>>

(* The select finds only the owner's pidfd; the program is read afresh. *)
OwnerSeen ==
    /\ AncestorRuns("serve") /\ toA = <<>> /\ ~Dead("sdk") /\ ~Dead("program")
    /\ Dead("owner")
    /\ Goes("owner-seen")
    /\ UNCHANGED <<procVars, toA, toSDK, sdkVars, ownVars, blame>>

OwnerLoss ==
    /\ AncestorRuns("owner-seen") /\ ~Dead("program")
    /\ End("owner-loss")
    /\ UNCHANGED <<procVars, toSDK, sdkVars, ownVars>>

Packet(m) == AncestorRuns("serve") /\ toA # <<>> /\ Head(toA) = m
Taken == toA' = Tail(toA)

TakeClose ==
    /\ Packet("close")
    /\ End("requested")
    /\ UNCHANGED <<procVars, toSDK, sdkVars, ownVars>>

(* spawn_primary: born gated, then pinned and moved into the inner group;   *)
(* a repeated request is answered with the birth it already made.           *)
TakeLaunch ==
    /\ Packet("launch") /\ Taken
    /\ life["program"] = "none" /\ ~Dead("sdk") /\ ~Dead("owner") /\ MayBear
    /\ Born("program", "ancestor", "gated", "none")
    /\ Goes("born")
    /\ UNCHANGED <<toSDK, sdkVars, ownVars, blame>>

PlaceProgram ==
    /\ AncestorRuns("born") /\ Living("program")
    /\ group' = [group EXCEPT !["program"] = "inner"]
    /\ toSDK' = Append(toSDK, "primary")
    /\ Goes("serve")
    /\ UNCHANGED <<life, parent, below, toA, sdkVars, ownVars, blame>>

TakeLaunchAgain ==
    /\ Packet("launch") /\ Taken /\ life["program"] # "none" /\ MayBear
    /\ toSDK' = Append(toSDK, "primary")
    /\ UNCHANGED <<procVars, ancVars, sdkVars, ownVars, blame>>

(* commit_primary: open the gate, then wait for the exec status. *)
TakeCommit ==
    /\ Packet("commit") /\ Taken /\ ~Dead("sdk") /\ ~Dead("owner") /\ MayBear
    /\ life' = [life EXCEPT !["program"] = IF @ = "gated" THEN "opening" ELSE @]
    /\ Goes("commit")
    /\ UNCHANGED <<parent, group, below, toSDK, sdkVars, ownVars, blame>>

(* A program that died without an error text reads as executed. *)
Committed ==
    /\ AncestorRuns("commit") /\ life["program"] # "opening"
    /\ toSDK' = Append(toSDK, "committed")
    /\ Goes("serve")
    /\ UNCHANGED <<procVars, toA, sdkVars, ownVars, blame>>

(* A refused packet, a failed pin or migration, an exec error or no status  *)
(* in time: the failure ends the service.                                   *)
ProtocolFault ==
    /\ life["ancestor"] = "alive"
    /\ \/ /\ apc = "serve" /\ toA # <<>> /\ Head(toA) \in {"launch", "commit"}
          /\ Dead("sdk") \/ Dead("owner") \/ ~MayBear
       \/ apc \in {"born", "commit"}
    /\ End("protocol-fault")
    /\ UNCHANGED <<procVars, toSDK, sdkVars, ownVars>>

(* DescendantDrain of the outer boundary: TERM, then the group's kill. *)
AncestorKills(p) ==
    /\ AncestorRuns("finish") /\ p \in ChildrenOf("ancestor") \cup Members("outer")
    /\ Die(p)
    /\ UNCHANGED <<ancVars, toA, toSDK, sdkVars, hand>>

AncestorReaps(p) ==
    /\ \/ AncestorRuns("finish")
       \/ p = "program" /\ (AncestorRuns("serve") \/ AncestorRuns("owner-seen"))
    /\ Reap("ancestor", p)
    /\ UNCHANGED <<ancVars, toA, toSDK, sdkVars, ownVars, blame>>

(* No child is left and nobody lives in the boundary; nothing can be born   *)
(* from there on, so the reads of one round are one step. The program's     *)
(* task is detached, and the certificate names the trigger.                 *)
GroupEmpty == Members("outer") = {}
Drained == ChildrenOf("ancestor") = {} /\ GroupEmpty
Certify ==
    /\ AncestorRuns("finish")
    /\ Drained
    /\ life["program"] \in {"none", "gone"}
    /\ apc' = "sent" /\ cert' = trigger /\ UNCHANGED <<trigger, notified>>
    /\ toSDK' = IF Dead("sdk") THEN toSDK ELSE Append(toSDK, "certificate")
    /\ UNCHANGED <<procVars, toA, sdkVars, ownVars, blame>>

(* An attempt that ran out of time says so, once. To an SDK that already    *)
(* closes and holds the boundary that is no event: finish passes over it.   *)
Pending ==
    /\ AncestorRuns("finish") /\ ~notified /\ ~Dead("sdk")
    /\ held => spc \notin {"requested", "closing", "closed"}
    /\ notified' = TRUE
    /\ toSDK' = Append(toSDK, "pending")
    /\ UNCHANGED <<procVars, apc, trigger, cert, toA, sdkVars, ownVars, blame>>

(* close_connections, and the ancestor exits. *)
AncestorExits ==
    /\ AncestorRuns("sent")
    /\ Goes("done")
    /\ Die("ancestor")
    /\ UNCHANGED <<toA, toSDK, sdkVars, hand>>

-----------------------------------------------------------------------------
(* The controller, main process of the service: RootController. It collects *)
(* the ancestor and exits when it has no other child. The orphans it adopts *)
(* from a lost ancestor it neither stops nor collects: they keep it for     *)
(* good. (Its other condition, that the ancestor's scope is empty, follows: *)
(* who lives there has the controller above it.)                            *)
ControllerExits ==
    /\ life["controller"] = "alive" /\ Dead("ancestor")
    /\ ChildrenOf("controller") \subseteq {"ancestor"}
    /\ Die("controller")
    /\ UNCHANGED <<ancVars, toA, toSDK, sdkVars, hand>>

-----------------------------------------------------------------------------
(* The owner, its guardian and the bus daemon: bootstrap_owner, bus_owner   *)
(* and guardian of private_bus.py.                                          *)

OwnerRuns(at) == opc = at /\ life["owner"] = "alive"
GuardianRuns == life["guardian"] = "alive"
OwnerHolds == hand \in {"owner", "acked"}        \* the owner has the program's pidfd
GuardianHolds == OwnerHolds \/ hand = "guardian"

(* The owner starts once the SDK has handed it the boundary. *)
OwnerStarts ==
    /\ OwnerRuns("begin") /\ held
    /\ Born("guardian", "owner", "alive", "outer")
    /\ opc' = "loop"
    /\ UNCHANGED <<ancVars, toA, toSDK, sdkVars, hand, blame>>

GuardianJoins ==
    /\ GuardianRuns /\ group["guardian"] = "outer"
    /\ group' = [group EXCEPT !["guardian"] = "inner"]
    /\ UNCHANGED <<life, parent, below, ancVars, toA, toSDK, sdkVars, ownVars, blame>>

DaemonStarts ==
    /\ GuardianRuns /\ group["guardian"] = "inner"
    /\ Born("daemon", "guardian", "alive", group["guardian"])
    /\ UNCHANGED <<ancVars, toA, toSDK, sdkVars, ownVars, blame>>

(* The pidfd of the program goes from the SDK to the guardian, on to the    *)
(* owner, and back as an acknowledgement.                                   *)
GuardianPasses ==
    /\ GuardianRuns /\ life["daemon"] # "none"
    /\ \/ hand = "sent" /\ hand' = "guardian"
       \/ hand = "owner" /\ hand' = "acked"
    /\ UNCHANGED <<procVars, ancVars, toA, toSDK, sdkVars, opc, blame>>

OwnerTakes ==
    /\ OwnerRuns("loop") /\ hand = "guardian" /\ hand' = "owner"
    /\ UNCHANGED <<procVars, ancVars, toA, toSDK, sdkVars, opc, blame>>

(* End of the control socket, the SDK's or the daemon's death, the end of   *)
(* the program, or no hand-off in time.                                     *)
GuardianCause ==
    \/ Dead("sdk") \/ HungUp \/ Dead("daemon")
    \/ GuardianHolds /\ Dead("program")
    \/ life["daemon"] # "none" /\ hand # "acked"

(* stop_owned(app_fd), stop_owned(bus_fd). *)
GuardianStops(p) ==
    /\ GuardianRuns /\ GuardianCause
    /\ \/ p = "daemon"
       \/ p = "program" /\ GuardianHolds
    /\ Die(p)
    /\ UNCHANGED <<ancVars, toA, toSDK, sdkVars, hand>>

GuardianExits ==
    /\ GuardianRuns /\ GuardianCause
    /\ Die("guardian")
    /\ UNCHANGED <<ancVars, toA, toSDK, sdkVars, hand>>

(* The owner leaves its loop (also on the SIGTERM of an ancestor that       *)
(* drains or was lost then), drains the inner boundary and its own          *)
(* children, and exits when nothing of them is left.                        *)
OwnerLeaves ==
    /\ OwnerRuns("loop")
    /\ Dead("sdk") \/ Dead("guardian") \/ apc \in Ending
    /\ opc' = "drain"
    /\ UNCHANGED <<procVars, ancVars, toA, toSDK, sdkVars, hand, blame>>

OwnerKills(p) ==
    /\ OwnerRuns("drain")
    /\ \/ p \in ChildrenOf("owner") \cup Members("inner")
       \/ p = "program" /\ OwnerHolds
    /\ Die(p)
    /\ UNCHANGED <<ancVars, toA, toSDK, sdkVars, hand>>

OwnerReaps(p) ==
    /\ OwnerRuns("drain")
    /\ Reap("owner", p)
    /\ UNCHANGED <<ancVars, toA, toSDK, sdkVars, ownVars, blame>>

OwnerExits ==
    /\ OwnerRuns("drain")
    /\ ChildrenOf("owner") = {} /\ Members("inner") = {}
    /\ OwnerHolds => Dead("program")
    /\ Die("owner")
    /\ UNCHANGED <<ancVars, toA, toSDK, sdkVars, hand>>

(* The program's prelude drops its credentials and executes the command. *)
Executes ==
    /\ life["program"] = "opening"
    /\ life' = [life EXCEPT !["program"] = "alive"]
    /\ UNCHANGED <<parent, group, below, ancVars, toA, toSDK, sdkVars, ownVars, blame>>

-----------------------------------------------------------------------------
(* The SDK: PrivateBus and SupervisedPlatform.                              *)

SDKRuns(at) == spc \in at /\ life["sdk"] = "alive"

(* A packet to an ancestor that reads no more has no effect. *)
Sends(m) == toA' = IF life["ancestor"] = "alive" /\ apc \notin Ending THEN Append(toA, m) ELSE toA

(* launch_owner: the first packet is the boundary, or the certificate of a  *)
(* failed start. Any other is kept as the bootstrap packet for good.        *)
Bootstrap ==
    /\ SDKRuns({"boot", "closing"}) /\ ~held /\ receipt = "none" /\ toSDK # <<>>
    /\ toSDK' = Tail(toSDK)
    /\ \/ /\ Head(toSDK) = "boundary" /\ held' = TRUE
          /\ spc' = IF spc = "boot" THEN "held" ELSE spc
          /\ UNCHANGED receipt
       \/ /\ Head(toSDK) = "certificate" /\ receipt' = cert
          /\ spc' = IF spc = "boot" THEN "close" ELSE spc
          /\ UNCHANGED held
       \/ /\ Head(toSDK) = "pending" /\ spc' = "stuck"
          /\ UNCHANGED <<held, receipt>>
    /\ UNCHANGED <<procVars, ancVars, toA, reported, ownVars, blame>>

Opens ==
    /\ SDKRuns({"held"}) /\ life["daemon"] = "alive" /\ GuardianRuns
    /\ spc' = "open"
    /\ UNCHANGED <<procVars, ancVars, toA, toSDK, held, receipt, reported, ownVars, blame>>

(* launch_primary: one request and its answer; an attempt that times out    *)
(* may be repeated with the same request.                                   *)
Launch ==
    /\ SDKRuns({"open"}) /\ receipt = "none" /\ life["ancestor"] = "alive"
    /\ toA = <<>> /\ Len(toSDK) <= MaxQueued
    /\ spc' = "launching" /\ Sends("launch")
    /\ UNCHANGED <<procVars, ancVars, toSDK, held, receipt, reported, ownVars, blame>>

LaunchAnswer ==
    /\ SDKRuns({"launching"}) /\ toSDK # <<>>
    /\ toSDK' = Tail(toSDK)
    /\ spc' = IF Head(toSDK) = "primary" THEN "gated" ELSE "open"
    /\ UNCHANGED <<procVars, ancVars, toA, held, receipt, reported, ownVars, blame>>

LaunchTimeout ==
    /\ SDKRuns({"launching"})
    /\ spc' = "open"
    /\ UNCHANGED <<procVars, ancVars, toA, toSDK, held, receipt, reported, ownVars, blame>>

(* bind: the hand-off to both keepers, then the commit. *)
Bind ==
    /\ SDKRuns({"gated"}) /\ ~Dead("controller")
    /\ spc' = "binding" /\ hand' = "sent"
    /\ UNCHANGED <<procVars, ancVars, toA, toSDK, held, receipt, reported, opc, blame>>

SentToKeepers == hand # "no"
TakenOver == hand = "acked"
Commit ==
    /\ SDKRuns({"binding"}) /\ TakenOver /\ life["ancestor"] = "alive"
    /\ spc' = "committing" /\ Sends("commit")
    /\ UNCHANGED <<procVars, ancVars, toSDK, held, receipt, reported, ownVars, blame>>

CommitAnswer ==
    /\ SDKRuns({"committing"}) /\ toSDK # <<>>
    /\ toSDK' = Tail(toSDK)
    /\ spc' = IF Head(toSDK) = "committed" THEN "running" ELSE "close"
    /\ UNCHANGED <<procVars, ancVars, toA, held, receipt, reported, ownVars, blame>>

(* A start or a bind that fails closes; otherwise the caller does.          *)
Closes == SDKRuns({"boot", "held", "open", "gated", "binding", "committing", "running", "close"})

(* _close_attempt: the intentional close is queued before the owner's end   *)
(* of the control socket.                                                   *)
HangUpOnly ==
    /\ Closes /\ spc' = "closing"
    /\ UNCHANGED <<procVars, ancVars, toA, toSDK, held, receipt, reported, ownVars, blame>>
RequestClose ==
    /\ Closes
    /\ IF receipt = "none" THEN Sends("close") ELSE UNCHANGED toA
    /\ spc' = "requested"
    /\ UNCHANGED <<procVars, ancVars, toSDK, held, receipt, reported, ownVars, blame>>

CloseControl ==
    /\ SDKRuns({"requested"})
    /\ spc' = "closing"
    /\ UNCHANGED <<procVars, ancVars, toA, toSDK, held, receipt, reported, ownVars, blame>>

(* finish, from close or from the watcher of the service's pidfd, which is  *)
(* the controller's.                                                        *)
Finishing == \/ SDKRuns({"closing"})
             \/ Dead("controller") /\ SDKRuns({"held", "open", "gated", "running"})

ReadCertificate ==
    /\ Finishing /\ held /\ receipt = "none" /\ toSDK # <<>>
    /\ toSDK' = Tail(toSDK)
    /\ receipt' = IF Head(toSDK) = "certificate" THEN cert ELSE receipt
    /\ UNCHANGED <<procVars, ancVars, toA, spc, held, reported, ownVars, blame>>

(* The controller is lost and the certificate did not come, in time or at   *)
(* all: the boundary is killed, but nothing takes the certificate's place.  *)
Cull(p) ==
    /\ Finishing /\ held /\ receipt = "none" /\ Dead("controller")
    /\ p \in Members("outer")
    /\ Die(p)
    /\ UNCHANGED <<ancVars, toA, toSDK, sdkVars, hand>>

(* The proof is checked against the live kernel state; a fault is reported  *)
(* by the first close and the next one succeeds.                            *)
ProvenByExit == receipt # "none" \/ Dead("ancestor")
Proven == receipt # "none"
Finish ==
    /\ SDKRuns({"closing"}) /\ Proven
    /\ Dead("controller") /\ Dead("ancestor") /\ life["program"] \in {"none", "gone"}
    /\ held => Members("outer") = {}
    /\ IF receipt \in Faults /\ ~reported
       THEN reported' = TRUE /\ UNCHANGED spc
       ELSE spc' = "closed" /\ UNCHANGED reported
    /\ UNCHANGED <<procVars, ancVars, toA, toSDK, held, receipt, ownVars, blame>>

-----------------------------------------------------------------------------
AncestorStep ==
    \/ ForkOwner \/ PlaceOwner \/ OpenOwnerGate
    \/ ProgramExit \/ ControlEnds \/ OwnerSeen \/ OwnerLoss \/ TakeClose
    \/ TakeLaunch \/ PlaceProgram \/ TakeLaunchAgain \/ TakeCommit \/ Committed
    \/ \E p \in Family : AncestorKills(p) \/ AncestorReaps(p)
    \/ Certify \/ AncestorExits
    \/ apc \in {"serve", "commit"} /\ ProtocolFault
    \/ ~MayBear /\ (BootFault \/ SupervisorStop)

CloseStep ==
    \/ spc = "close" /\ RequestClose
    \/ CloseControl \/ Finish
    \/ spc = "closing" /\ (Bootstrap \/ ReadCertificate \/ \E p \in Family : Cull(p))

SDKStep ==
    \/ CloseStep \/ Bootstrap \/ ReadCertificate \/ \E p \in Family : Cull(p)
    \/ Opens \/ Launch \/ LaunchAnswer \/ LaunchTimeout \/ Bind \/ Commit \/ CommitAnswer
    \/ RequestClose

OwnerStep ==
    \/ OwnerStarts \/ OwnerTakes \/ OwnerLeaves \/ OwnerExits
    \/ \E p \in Family : OwnerKills(p) \/ OwnerReaps(p)

GuardianStep ==
    \/ GuardianJoins \/ DaemonStarts \/ GuardianPasses \/ GuardianExits
    \/ \E p \in Family : GuardianStops(p)

Next ==
    \/ AncestorStep \/ ControllerExits \/ BootFault \/ SupervisorStop \/ ProtocolFault \/ Pending
    \/ OwnerStep \/ GuardianStep \/ SDKStep \/ Executes
    \/ SDKExits \/ AncestorLost
    \/ \E p \in Procs : Exits(p)
    \/ \E p \in Family : ParentDeath(p)
    \/ \E p \in Family : \E c \in Kids : Starts(p, c)

Spec == Init /\ [][Next]_vars

(* Somebody moves while anybody can: the ancestor's and the controller's    *)
(* single threads, the closing caller, who repeats an incomplete close, or  *)
(* the kernel with a parent's death. Each has finitely many steps to take.  *)
Progress == AncestorStep \/ ControllerExits \/ CloseStep \/ \E p \in Family : ParentDeath(p)

FairSpec == Spec /\ WF_vars(Progress)

-----------------------------------------------------------------------------
TypeOK ==
    /\ life \in [Procs -> {"none", "gated", "opening", "alive", "zombie", "gone"}]
    /\ parent \in [Procs -> Procs \cup {"init"}]
    /\ group \in [Procs -> {"none", "outer", "inner"}]
    /\ below \subseteq Kids
    /\ apc \in {"fork", "placing", "gate", "serve", "born", "commit", "owner-seen"} \cup Ending
    /\ trigger \in Triggers /\ cert \in Triggers /\ receipt \in Triggers
    /\ toA \in Seq({"launch", "commit", "close"})
    /\ toSDK \in Seq({"boundary", "primary", "committed", "pending", "certificate"})
    /\ spc \in {"boot", "held", "open", "launching", "gated", "binding", "committing",
                "running", "close", "requested", "closing", "closed", "stuck", "dead"}
    /\ notified \in BOOLEAN /\ held \in BOOLEAN /\ reported \in BOOLEAN
    /\ opc \in {"begin", "loop", "drain"}
    /\ hand \in {"no", "sent", "guardian", "owner", "acked"}
    /\ blame \in {"none", "lost", "asked"}

(* Whoever runs code of its own does so inside its boundary, where the      *)
(* group's kill reaches it, and the program only runs while owner and       *)
(* guardian have both taken it over (gates, migrations and hand-off order). *)
Contained ==
    \A p \in Family : life[p] \in {"opening", "alive"} =>
        /\ group[p] # "none"
        /\ p \notin {"owner", "guardian"} => group[p] = "inner"
        /\ p = "program" => hand = "acked"

(* The ancestor's certificate is true when it is sent and stays true: every *)
(* process of the family, orphans of a dead owner and late births included, *)
(* has exited and has been waited for.                                      *)
CertificateIsTrue ==
    cert # "none" => \A p \in Family : life[p] \in {"none", "gone"}

(* A close that succeeds leaves nothing behind, even if the service was     *)
(* killed, and never passes over a fault that was not reported before.      *)
ClosedMeansGone ==
    spc = "closed" =>
        /\ \A p \in Family : life[p] \in {"none", "gone"}
        /\ receipt = cert
        /\ receipt \in Faults => reported

(* An orderly end is never taken for the loss of the owner: when that is    *)
(* the trigger, nobody had hung up, died or finished before the first of    *)
(* the keepers left. A requested end was requested.                         *)
TriggerIsTrue ==
    /\ TypeOK
    /\ trigger = "owner-loss" => blame = "lost"
    /\ trigger = "requested" => spc \in {"requested", "closing", "closed", "dead"}

(* Once the SDK is gone or closing or the controller is lost, the whole     *)
(* family ends and is certified, whatever failed before. When the ancestor  *)
(* is lost too, a closing SDK ends the family with its own kill; the loss   *)
(* of the ancestor alone, which keeps the controller, promises nothing.     *)
NobodyLives == \A p \in Family : ~Living(p)
FamilyEnds ==
    (Dead("sdk") \/ Dead("controller") \/ spc = "closing") ~>
        \/ cert # "none"
        \/ Dead("ancestor") /\ (spc = "closing" /\ Dead("controller") => NobodyLives)

(* A certificate sent to a living SDK is received or still queued: close    *)
(* can be repeated until it succeeds (bus_supervision.py:1252, "Ancestor    *)
(* proof can resolve a lost launch/FD ACK").                                *)
CertificateKept ==
    cert # "none" /\ life["sdk"] = "alive" =>
        receipt = cert \/ \E i \in DOMAIN toSDK : toSDK[i] = "certificate"
=============================================================================
