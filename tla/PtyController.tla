--------------------------- MODULE PtyController ---------------------------
(***************************************************************************)
(* Selected-session authority: config/kilix_pty_controller.py on top of    *)
(* kilix_pty_selector.execute.  Each process has a controller with at most *)
(* one grant.  The trusted user selects, which binds a request to the      *)
(* incarnation it resolves to; the actor may dispatch exactly that         *)
(* request.  The grant is consumed before the store is entered, and        *)
(* compared with the fresh resolution just before the dispatch phase.      *)
(*                                                                         *)
(* The controller's lock serialises select, dispatch and revoke: they run  *)
(* when the process is idle, and dispatch keeps it from being idle.  The   *)
(* deadline is the flag `fresh`, which time may clear at any moment.       *)
(***************************************************************************)
EXTENDS PtySelector

VARIABLES
    grant,      \* per process: the grant, or None
    underGrant  \* history: requests sent under the grant of a process

vars == <<selectorVars, grant, underGrant>>

Grant == [op : Ops, key : Keys, binding : Incarnations,
          fresh : BOOLEAN, consumed : BOOLEAN]

ASSUME GrantAssumption == None \notin Grant

InitController ==
    /\ Init
    /\ grant = [p \in Procs |-> None]
    /\ underGrant = [p \in Procs |-> 0]

SetGrant(p, g) == grant' = [grant EXCEPT ![p] = g]

(* The grant is revoked or replaced, and the outcome it kept is gone with it. *)
Regrant(p, g) ==
    /\ SetGrant(p, g)
    /\ said' = [said EXCEPT ![p] = NoReceipt]
    /\ underGrant' = [underGrant EXCEPT ![p] = 0]
    /\ UNCHANGED <<store, current, call, sends>>

(* select: the previous grant is revoked, whatever becomes of the new one
   (unusable context, nothing actionable, another binding than expected, expired). *)
Select(p) ==
    /\ pc[p] = "idle"
    /\ \/ /\ current # None
          /\ \E o \in Ops, k \in Keys :
                Regrant(p, [op |-> o, key |-> k, binding |-> current, fresh |-> TRUE,
                            consumed |-> FALSE])
       \/ grant[p] # None /\ Regrant(p, None)

(* revoke: before a dispatch starts or after it ended. *)
Revoke(p) ==
    /\ pc[p] = "idle"
    /\ grant[p] # None
    /\ Regrant(p, None)

(* The monotonic clock passes the deadline. *)
Expire(p) ==
    /\ grant[p] # None
    /\ grant[p].fresh
    /\ SetGrant(p, [grant[p] EXCEPT !.fresh = FALSE])
    /\ UNCHANGED <<selectorVars, underGrant>>

(* dispatch of another request than the granted one, or after the deadline:
   the grant is gone.  (Without a grant nothing changes.) *)
DispatchRefused(p, o, k) ==
    /\ pc[p] = "idle"
    /\ grant[p] # None
    /\ grant[p].op # o \/ grant[p].key # k \/ ~grant[p].fresh
    /\ Regrant(p, None)

(* A consumed grant answers with its cached outcome, said[p] (or authority_consumed
   when it has none): only an unconsumed one goes further, and is consumed first. *)
Dispatch(p, o, k) ==
    /\ grant[p] # None
    /\ grant[p].op = o /\ grant[p].key = k
    /\ grant[p].fresh
    /\ ~grant[p].consumed
    /\ SetGrant(p, [grant[p] EXCEPT !.consumed = TRUE])
    /\ Begin(p, o, k)
    /\ UNCHANGED underGrant

(* check: the callback before the dispatch phase.  Mutant: the fresh resolution
   is not compared with the binding the user selected. *)
CheckWithoutBinding(p) == grant[p].fresh
Check(p) == grant[p].fresh /\ binding[p] = grant[p].binding

CheckPasses(p) ==
    /\ Pass(p)
    /\ Check(p)
    /\ UNCHANGED <<grant, underGrant>>

(* A step of execute; when it returns, said[p] is the outcome the grant keeps. *)
ExecuteStep(p) ==
    /\ Execute(p)
    /\ UNCHANGED grant
    /\ underGrant' = IF sends' # sends THEN [underGrant EXCEPT ![p] = @ + 1] ELSE underGrant

(* Cancelled: the exception leaves dispatch, and the grant stays consumed
   without a result.  Mutant: the grant is given back. *)
RearmOnCancel(p) ==
    /\ Abort(p)
    /\ SetGrant(p, [grant[p] EXCEPT !.consumed = FALSE])
    /\ UNCHANGED underGrant

Cancel(p) ==
    /\ Abort(p)
    /\ UNCHANGED <<grant, underGrant>>

(* The supervisor process dies: its authority is gone. *)
Die(p) ==
    /\ Abort(p)
    /\ SetGrant(p, None)
    /\ underGrant' = [underGrant EXCEPT ![p] = 0]

Environment ==
    \/ (SessionChanges \/ \E o \in Ops : Evict(o)) /\ UNCHANGED <<grant, underGrant>>
    \/ PowerLoss /\ grant' = [p \in Procs |-> None] /\ underGrant' = [p \in Procs |-> 0]

(* What a process does with a controller of its own. *)
Step(p) ==
    \/ Select(p) \/ Revoke(p) \/ Expire(p)
    \/ \E o \in Ops, k \in Keys : Dispatch(p, o, k) \/ DispatchRefused(p, o, k)
    \/ CheckPasses(p) \/ ExecuteStep(p) \/ Cancel(p) \/ Die(p)

Next == (\E p \in Procs : Step(p)) \/ Environment

Spec == InitController /\ [][Next]_vars

-----------------------------------------------------------------------------
TypeOK ==
    /\ record \in [Ops -> Record \cup {None}]
    /\ disk \in [Ops -> Record \cup {None}]
    /\ owner \in [Ops -> Procs \cup {None}]
    /\ current \in Incarnations \cup {None}
    /\ pc \in [Procs -> Performing \cup {"idle", "reserve", "wait", "failed"}]
    /\ op \in [Procs -> Ops \cup {None}]
    /\ key \in [Procs -> Keys \cup {None}]
    /\ seen \in [Procs -> BOOLEAN]
    /\ binding \in [Procs -> Incarnations \cup {None}]
    /\ outcome \in [Procs -> Sent \cup {NoReceipt}]
    /\ said \in [Procs -> Sent \cup {NoReceipt}]
    /\ sends \in [Ops -> Nat]
    /\ grant \in [Procs -> Grant \cup {None}]
    /\ underGrant \in [Procs -> Nat]

(* A retained record, now and after a power loss, is one its reader accepts
   (kilix_pty_selector_validation.record): otherwise the id is stuck as
   store_unavailable for as long as the store exists. *)
Readable(r) ==
    r # None =>
        /\ r.phase = "reserved" => r.binding = None
        /\ r.phase \in {"resolved", "dispatch"} => r.binding # None
        /\ r.phase = "done" <=> r.sent # NoReceipt
        /\ r.binding = None => r.sent \in {"no", NoReceipt}

RecordsReadable == TypeOK /\ \A o \in Ops : Readable(record[o]) /\ Readable(disk[o])

(* A request that may go out is bound to the incarnation its user selected, and
   the durable record names it, although sessions are replaced between the
   selection, the fresh resolution and the request ("captures ... full resolved
   incarnation", docs/pty-controller.md). *)
BoundToSelection ==
    \A p \in Procs : pc[p] \in {"send", "sent"} =>
        /\ binding[p] = grant[p].binding
        /\ record[op[p]].phase = "dispatch"
        /\ record[op[p]].binding = grant[p].binding

(* One selection sends at most one request, through retries, cancellations and
   exceptions ("Exceptions/cancellation cannot rearm a grant"). *)
OneSendPerSelection == \A p \in Procs : underGrant[p] <= 1

(* An operation id sends at most one request while its record is retained, also
   when several supervisors and later selections use it ("Durable operation keys
   still prevent re-admission after controller restart"). *)
OneSendPerOperation == \A o \in Ops : sends[o] <= 1

(* An answer that says request_sent false to the owner of a fingerprint is true:
   no request of that operation went out, whoever asks and whatever failed. *)
TruthfulRefusal ==
    [][\A p \in Procs :
          /\ pc[p] # "idle" /\ pc'[p] = "idle" /\ said'[p] = "no"
          /\ record[op[p]] # None /\ record[op[p]].key = key[p]
          => sends[op[p]] = 0]_vars

(* The receipt of a retained record never says unsent for a request that went out. *)
HonestRecord ==
    \A o \in Ops : record[o] # None /\ record[o].sent = "no" => sends[o] = 0

(* What the selector store promises, operation by operation. *)
Life(o) == IF record[o] = None THEN "free"
           ELSE IF record[o].phase = "done" THEN IF sends[o] > 0 THEN "closed" ELSE "settled"
           ELSE IF sends[o] > 0 THEN "out"
           ELSE IF \E p \in Procs : op[p] = o /\ pc[p] \in Performing THEN "claimed"
           ELSE "abandoned"

Promise == INSTANCE TerminateOnce WITH life <- [o \in Ops |-> Life(o)]

(* Reservation, the phases and the recovery of abandoned records implement TerminateOnce. *)
ImplementsTerminateOnce == Promise!Spec
=============================================================================
