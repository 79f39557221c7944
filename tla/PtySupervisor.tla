--------------------------- MODULE PtySupervisor ---------------------------
(***************************************************************************)
(* The terminal supervisor: config/kilix_pty_supervisor.py above the       *)
(* controller.  The user reads which session the selector resolves to and  *)
(* types END; only then is the grant issued and an actor started in its    *)
(* sandbox.  One loop serves the actor's requests one at a time, ends the  *)
(* actor at a deadline, a limit or a line of the user, and prints a report *)
(* whose operation_outcome is taken from the receipts of the end requests. *)
(*                                                                         *)
(* The processes outside Supervised use a controller the way any embedding *)
(* application may (PtyController!Step), under the same operation ids: the *)
(* supervisor draws its id at random, so this is more than can happen.     *)
(*                                                                         *)
(* Reads and malformed requests of the actor change nothing and leave no   *)
(* receipt of an end; a replay repeats the receipt before it.  They appear *)
(* where the work deadline may interrupt them.                             *)
(***************************************************************************)
EXTENDS PtyController

CONSTANT Supervised         \* the processes that are terminal supervisors

ASSUME SupervisedAssumption == Supervised \subseteq Procs

VARIABLES
    stage,      \* how far a supervision is; "call" while an end request is in flight
    confirmed,  \* the incarnation the user read and confirmed
    heard,      \* operation_outcome as of the receipts recorded so far
    unheard     \* history: its request went out and no receipt is recorded yet

supervisorVars == <<stage, confirmed, heard, unheard>>
allVars == <<vars, supervisorVars>>

Outcomes == {"not_requested", "refused", "uncertain", "verified_absent"}

SupervisorInit ==
    /\ InitController
    /\ stage = [p \in Supervised |-> "off"]
    /\ confirmed = [p \in Supervised |-> None]
    /\ heard = [p \in Supervised |-> "not_requested"]
    /\ unheard = [p \in Supervised |-> FALSE]

Enter(p, s) == stage' = [stage EXCEPT ![p] = s]
Report(p, r) == heard' = [heard EXCEPT ![p] = r]

(* The outcome after one more receipt: an absence that was verified stays. *)
Hear(p, r) == Report(p, IF heard[p] = "verified_absent" THEN heard[p] ELSE r)

Reset(p) ==
    /\ Enter(p, "off")
    /\ confirmed' = [confirmed EXCEPT ![p] = None]
    /\ Report(p, "not_requested")
    /\ unheard' = [unheard EXCEPT ![p] = FALSE]

(* The process, or what it does, ends with its authority: nothing is rearmed. *)
Unwind(p) == IF pc[p] = "idle" THEN Regrant(p, None) ELSE Die(p)

-----------------------------------------------------------------------------
(* user_selection: the preview that is shown to the user ... *)
Show(p) ==
    /\ stage[p] = "off"
    /\ current # None
    /\ Enter(p, "shown")
    /\ confirmed' = [confirmed EXCEPT ![p] = current]
    /\ UNCHANGED <<vars, heard, unheard>>

(* ... is not confirmed in time, or cannot be issued any more: no actor. *)
NotIssued(p) ==
    /\ stage[p] = "shown"
    /\ Reset(p)
    /\ UNCHANGED vars

(* Mutant of Issue: select is not told what the user has read. *)
IssueWhateverResolves(p) ==
    /\ stage[p] = "shown"
    /\ Select(p) /\ grant'[p] # None
    /\ Enter(p, "actor")
    /\ UNCHANGED <<confirmed, heard, unheard>>

(* END: select resolves again and compares with the preview (expected_binding). *)
Issue(p) ==
    /\ stage[p] = "shown"
    /\ Select(p) /\ grant'[p] # None
    /\ grant'[p].binding = confirmed[p]
    /\ Enter(p, "actor")
    /\ UNCHANGED <<confirmed, heard, unheard>>

-----------------------------------------------------------------------------
(* The actor asks for the end it was granted, as a selector request or as a raw
   kill of that incarnation. *)
CallEnd(p) ==
    /\ stage[p] = "actor"
    /\ grant[p] # None
    /\ Dispatch(p, grant[p].op, grant[p].key)
    /\ Enter(p, "call")
    /\ UNCHANGED <<confirmed, heard, unheard>>

(* Another end request, or one too late: authority_mismatch, _expired or _required. *)
CallRefused(p) ==
    /\ stage[p] = "actor"
    /\ \/ \E o \in Ops, k \in Keys : DispatchRefused(p, o, k)
       \/ grant[p] = None /\ UNCHANGED vars
    /\ Hear(p, "refused")
    /\ UNCHANGED <<stage, confirmed, unheard>>

(* A raw kill of another incarnation revokes; its refusal is no end receipt. *)
RawMismatch(p) ==
    /\ stage[p] = "actor"
    /\ Revoke(p)
    /\ UNCHANGED supervisorVars

CallStep(p) ==
    /\ stage[p] = "call"
    /\ CheckPasses(p) \/ ExecuteStep(p)
    /\ unheard' = [unheard EXCEPT ![p] = @ \/ sends' # sends]
    /\ UNCHANGED <<stage, confirmed, heard>>

(* result of a receipt, by its request_sent *)
Results(sent) == CASE sent = "no" -> {"refused"}
                   [] sent = "yes" -> {"refused", "uncertain", "verified_absent"}
                   [] OTHER -> {"uncertain"}

(* The receipt is recorded, then the request is no longer in flight.  Whether the
   actor gets it does not matter. *)
Answered(p) ==
    /\ stage[p] = "call"
    /\ pc[p] = "idle"
    /\ \E r \in Results(said[p]) : Hear(p, r)
    /\ Enter(p, "actor")
    /\ unheard' = [unheard EXCEPT ![p] = FALSE]
    /\ UNCHANGED <<vars, confirmed>>

-----------------------------------------------------------------------------
(* The actor exits, a deadline passes, a limit is reached, or the user types:
   authority is revoked and the sandbox killed before the report.  The work
   deadline may have interrupted a request that is not an end. *)
StopActor(p) ==
    /\ stage[p] = "actor"
    /\ Regrant(p, None)
    /\ Enter(p, "report")
    /\ confirmed' = [confirmed EXCEPT ![p] = None]
    /\ \E r \in {heard[p], "uncertain"} : Report(p, r)
    /\ UNCHANGED unheard

(* Mutant of WorkDeadline: the outcome is that of the receipts alone. *)
DeadlineUnreported(p) ==
    /\ stage[p] = "call"
    /\ Unwind(p)
    /\ Enter(p, "report")
    /\ confirmed' = [confirmed EXCEPT ![p] = None]
    /\ UNCHANGED <<heard, unheard>>

(* The alarm of the work deadline unwinds the request in flight, wherever it is. *)
WorkDeadline(p) ==
    /\ stage[p] = "call"
    /\ Unwind(p)
    /\ Enter(p, "report")
    /\ confirmed' = [confirmed EXCEPT ![p] = None]
    /\ Report(p, "uncertain")
    /\ UNCHANGED unheard

(* The report is printed. *)
Exit(p) ==
    /\ stage[p] = "report"
    /\ Reset(p)
    /\ UNCHANGED vars

(* The supervisor is killed, interrupted, or its cleanup does not end: no report. *)
Crash(p) ==
    /\ stage[p] \in {"actor", "call"}
    /\ Unwind(p)
    /\ Reset(p)

SupervisorStep(p) ==
    \/ Show(p) \/ NotIssued(p) \/ Issue(p)
    \/ CallEnd(p) \/ CallRefused(p) \/ RawMismatch(p) \/ CallStep(p) \/ Answered(p)
    \/ StopActor(p) \/ WorkDeadline(p) \/ Exit(p) \/ Crash(p)
    \/ Expire(p) /\ UNCHANGED supervisorVars

SupervisorEnvironment ==
    \/ (SessionChanges \/ \E o \in Ops : Evict(o))
       /\ UNCHANGED <<grant, underGrant, supervisorVars>>
    \/ /\ PowerLoss
       /\ grant' = [p \in Procs |-> None] /\ underGrant' = [p \in Procs |-> 0]
       /\ stage' = [p \in Supervised |-> "off"]
       /\ confirmed' = [p \in Supervised |-> None]
       /\ heard' = [p \in Supervised |-> "not_requested"]
       /\ unheard' = [p \in Supervised |-> FALSE]

SupervisorNext ==
    \/ \E p \in Supervised : SupervisorStep(p)
    \/ \E p \in Procs \ Supervised : Step(p) /\ UNCHANGED supervisorVars
    \/ SupervisorEnvironment

SupervisorSpec == SupervisorInit /\ [][SupervisorNext]_allVars

-----------------------------------------------------------------------------
(* A request of a supervision is bound to the session the user read on the
   terminal before typing END, although sessions are replaced while the user
   reads, while the grant waits for the actor, and during the request itself. *)
ConfirmedIsEnded ==
    \A p \in Supervised :
        stage[p] = "call" /\ pc[p] \in {"send", "sent"} => binding[p] = confirmed[p]

(* A request that went out and whose receipt was not recorded is reported as
   uncertain, wherever the work deadline cut it off: in the store, in the broker,
   or with the receipt in hand ("An interrupted call is reported uncertain",
   docs/pty-supervisor.md). *)
UnheardIsUncertain ==
    \A p \in Supervised : stage[p] = "report" /\ unheard[p] => heard[p] = "uncertain"
=============================================================================
