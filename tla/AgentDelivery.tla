--------------------------- MODULE AgentDelivery ---------------------------
(***************************************************************************)
(* Delivery of a message to a coding agent (`kilix agent-control deliver`, *)
(* modes steer and defer): config/agent_delivery.py, class Ledger,         *)
(* ledger() and deliver(), with the input path of agent_control.Client.    *)
(*                                                                         *)
(* A sender locks the ledger of the target pane, reads the receipt of its  *)
(* message id and the screen, records that it will paste, pastes the wire  *)
(* (marker and body), waits until the composer shows exactly the wire,     *)
(* records that it will submit, sends Enter (Tab in mode defer, to an      *)
(* agent that visibly works) and waits until the screen shows the message  *)
(* in the history (and a queued follow-up).  Input reaches the agent       *)
(* asynchronously, a human types into the same composer, and the agent may *)
(* be restarted in the pane.                                               *)
(*                                                                         *)
(* Abstraction: one target.  A composer is the sequence of the fragments   *)
(* in it: wires and what a human typed.  A screen read is one action; in   *)
(* poll a redraw the parser refuses is a read that does not happen.        *)
(***************************************************************************)
EXTENDS Naturals, Sequences, FiniteSets

CONSTANTS
    Callers,        \* processes that deliver messages
    Ids,            \* message ids
    Bodies,         \* message bodies: with the id they make the wire and the digest
    Deferred,       \* the ids sent in mode defer; the others are sent in mode steer
    None,
    Typed,          \* text a human typed
    Enter,          \* the submit key
    Tab,            \* ... and the key that queues a follow-up to a working agent
    MaxHuman,       \* bound: the human types while there were fewer strays than this
    MaxOrphans,     \* bound: input outlives its sender while there were fewer strays
    MaxRestarts     \* bound: times the foreground agent is replaced

Wire(m, b) == <<m, b>>
Fragments == (Ids \X Bodies) \cup {Typed}
Final == {"submitted", "deferred"}
Phases == {"pasting", "submitting"} \cup Final
Receipt == [digest : Bodies, phase : Phases, process : Nat]

ASSUME DeliveryAssumption ==
    /\ None \notin Callers \cup Ids \cup Bodies \cup Receipt
    /\ Deferred \subseteq Ids
    /\ Typed \notin Ids \X Bodies
    /\ {Enter, Tab} \cap Fragments = {}

VARIABLES
    receipts,   \* the ledger of the target: message id -> receipt
    lock,       \* who holds the lock of the target
    agent,      \* the foreground process of the pane
    pending,    \* input on its way to it
    late,       \* input in the hands of a kitten that outlived its sender: message and input
    composer,   \* what its composer holds
    shown,      \* ids whose marker is visible in the history on the screen
    activity,   \* what the screen says of it: idle, working, or with a follow-up queued
    human,      \* history: inputs of the human
    pc, msg, body, staged, identity,
    pastes, keys,   \* history: how often a message was pasted, and submitted, by senders
    resumed,    \* history: a staged draft was finished by a later call
    orphans,    \* history: input that outlived its sender
    turns       \* history: what the agents were given, one composer content each

kittens == <<late, orphans>>
world == <<agent, pending, kittens, composer, shown, activity, human, turns>>
call == <<msg, body, staged>>
count == <<pastes, keys, resumed>>
deliveryVars == <<receipts, lock, world, pc, call, identity, count>>

Steps == {"idle", "look", "intend", "paste", "pasting", "drafted", "recheck", "arm",
          "armStaged", "recheckStaged", "key", "keying", "submitted", "confirm"}
(* The steps of a call that has a receipt in its hands. *)
Recorded == Steps \ {"idle", "look", "intend"}

Init ==
    /\ receipts = [m \in Ids |-> None]
    /\ lock = None
    /\ agent = 0
    /\ pending = <<>>
    /\ late = {}
    /\ orphans = {}
    /\ composer = <<>>
    /\ shown = {}
    /\ activity \in {"idle", "working"}
    /\ human = 0
    /\ pc = [p \in Callers |-> "idle"]
    /\ msg = [p \in Callers |-> None]
    /\ body = [p \in Callers |-> None]
    /\ staged = [p \in Callers |-> FALSE]
    /\ identity = [p \in Callers |-> None]
    /\ pastes = [m \in Ids |-> 0]
    /\ keys = [m \in Ids |-> 0]
    /\ resumed = FALSE
    /\ turns = {}

Goto(p, step) == pc' = [pc EXCEPT ![p] = step]

(* The call returns; the ledger lock is closed. *)
Answer(p) ==
    /\ Goto(p, "idle")
    /\ msg' = [msg EXCEPT ![p] = None]
    /\ body' = [body EXCEPT ![p] = None]
    /\ staged' = [staged EXCEPT ![p] = FALSE]
    /\ identity' = [identity EXCEPT ![p] = None]
    /\ lock' = IF lock = p THEN None ELSE lock

MyWire(p) == Wire(msg[p], body[p])
MyReceipt(p) == receipts[msg[p]]
(* The composer shows exactly this wire (composer_matches). *)
Matches(p) == composer = <<MyWire(p)>>
Key(p) == IF msg[p] \in Deferred THEN Tab ELSE Enter
(* A follow-up is only queued to an agent that visibly works. *)
MayKey(p) == msg[p] \in Deferred => activity # "idle"
(* The screen shows the message as submitted, or that a follow-up is queued (submitted). *)
Submitted(p) == composer = <<>> /\ msg[p] \in shown /\ (msg[p] \in Deferred => activity = "queued")
(* The marker of the message is somewhere on the screen. *)
MarkerVisible(p) == msg[p] \in shown \/ \E i \in DOMAIN composer : composer[i] = MyWire(p)

Save(p, r) == receipts' = [receipts EXCEPT ![msg[p]] = r]
SavePhase(p, phase) == Save(p, [MyReceipt(p) EXCEPT !.phase = phase])

-----------------------------------------------------------------------------
(* deliver is called with valid arguments and takes the lock of the target (ledger,
   LOCK_NB: one delivery per target).  While another delivery owns the target, or when
   the ledger cannot be used, the call is answered blocked and changes nothing. *)
Deliver(p, m, b, finish) ==
    /\ pc[p] = "idle"
    /\ lock = None
    /\ lock' = p
    /\ Goto(p, "look")
    /\ msg' = [msg EXCEPT ![p] = m]
    /\ body' = [body EXCEPT ![p] = b]
    /\ staged' = [staged EXCEPT ![p] = finish]
    /\ UNCHANGED <<receipts, world, identity, count>>

(* A finished receipt of this message is the answer: submitted or deferred. *)
AnswerFromReceipt(p) ==
    /\ pc[p] = "look"
    /\ MyReceipt(p) # None
    /\ MyReceipt(p).digest = body[p]
    /\ MyReceipt(p).phase \in Final
    /\ Answer(p)
    /\ UNCHANGED <<receipts, world, count>>

(* Nothing to finish, the id belongs to another message, something else is in the
   composer, or receipt or target cannot be read, before this call has recorded
   anything: blocked. *)
Refuse(p) ==
    /\ pc[p] \in {"look", "intend"}
    /\ Answer(p)
    /\ UNCHANGED <<receipts, world, count>>

(* An earlier attempt stopped: recovery observes, and finishes a staged draft only. *)
SameProcess(p) == MyReceipt(p).process = agent

Unfinished(p) ==
    /\ pc[p] = "look"
    /\ MyReceipt(p) # None
    /\ MyReceipt(p).digest = body[p]
    /\ MyReceipt(p).phase \notin Final

(* Mutant of RecoverStaged: a retry finishes whatever phase was left. *)
RecoverAnyPhase(p) ==
    /\ Unfinished(p)
    /\ SameProcess(p)
    /\ staged[p]
    /\ msg[p] \notin shown
    /\ Matches(p) /\ MayKey(p)
    /\ identity' = [identity EXCEPT ![p] = agent]
    /\ resumed' = TRUE
    /\ Goto(p, "armStaged")
    /\ UNCHANGED <<receipts, lock, world, call, pastes, keys>>

RecoverStaged(p) ==
    /\ Unfinished(p)
    /\ SameProcess(p)
    /\ staged[p] /\ MyReceipt(p).phase = "pasting"
    /\ msg[p] \notin shown
    /\ Matches(p) /\ MayKey(p)
    /\ identity' = [identity EXCEPT ![p] = agent]
    /\ resumed' = TRUE
    /\ Goto(p, "armStaged")
    /\ UNCHANGED <<receipts, lock, world, call, pastes, keys>>

RecoverSubmitted(p) ==
    /\ Unfinished(p)
    /\ SameProcess(p)
    /\ ~(staged[p] /\ MyReceipt(p).phase = "pasting")
    /\ Submitted(p)
    /\ Goto(p, "confirm")
    /\ UNCHANGED <<receipts, lock, world, call, identity, count>>

(* Mutant of RecoverFails: an unresolved attempt is taken up from the start. *)
RestartUnresolved(p) ==
    /\ Unfinished(p)
    /\ SameProcess(p)
    /\ composer = <<>> /\ ~MarkerVisible(p)
    /\ identity' = [identity EXCEPT ![p] = agent]
    /\ Goto(p, "intend")
    /\ UNCHANGED <<receipts, lock, world, call, count>>

(* The attempt stays unresolved: uncertain. *)
RecoverFails(p) ==
    /\ Unfinished(p)
    /\ Answer(p)
    /\ UNCHANGED <<receipts, world, count>>

(* A new message: its marker is nowhere and the composer is empty. *)
FindComposerEmpty(p) ==
    /\ pc[p] = "look"
    /\ MyReceipt(p) = None /\ ~staged[p]
    /\ ~MarkerVisible(p)
    /\ composer = <<>> /\ MayKey(p)
    /\ identity' = [identity EXCEPT ![p] = agent]
    /\ Goto(p, "intend")
    /\ UNCHANGED <<receipts, lock, world, call, count>>

(* Mutant of Intend: the paste goes out before anything is recorded. *)
IntendInMemory(p) ==
    /\ pc[p] = "intend"
    /\ Goto(p, "paste")
    /\ UNCHANGED <<receipts, lock, world, call, identity, count>>

(* The intent is durable before the first side effect. *)
Intend(p) ==
    /\ pc[p] = "intend"
    /\ Save(p, [digest |-> body[p], phase |-> "pasting", process |-> identity[p]])
    /\ Goto(p, "paste")
    /\ UNCHANGED <<lock, world, call, identity, count>>

(* send: the foreground process is checked, ... *)
CheckTarget(p) ==
    /\ agent = identity[p]
    /\ \/ pc[p] = "paste" /\ Goto(p, "pasting")
       \/ pc[p] = "key" /\ Goto(p, "keying")
    /\ UNCHANGED <<receipts, lock, world, call, identity, count>>

(* ... and then the input is sent, to the process that runs by then. *)
Paste(p) ==
    /\ pc[p] = "pasting"
    /\ pending' = Append(pending, MyWire(p))
    /\ pastes' = [pastes EXCEPT ![msg[p]] = @ + 1]
    /\ Goto(p, "drafted")
    /\ UNCHANGED <<receipts, lock, agent, kittens, composer, shown, activity, human, turns, call, identity, keys, resumed>>

Press(p) ==
    /\ pc[p] = "keying"
    /\ pending' = Append(pending, Key(p))
    /\ keys' = [keys EXCEPT ![msg[p]] = @ + 1]
    /\ Goto(p, "submitted")
    /\ UNCHANGED <<receipts, lock, agent, kittens, composer, shown, activity, human, turns, call, identity, pastes, resumed>>

(* Mutant of SeeDraft: the draft contains the wire. *)
SeeDraftSomewhere(p) ==
    /\ pc[p] \in {"drafted", "recheck", "recheckStaged"}
    /\ agent = identity[p]
    /\ pc[p] = "recheckStaged" => msg[p] \notin shown /\ MayKey(p)
    /\ \E i \in DOMAIN composer : composer[i] = MyWire(p)
    /\ Goto(p, CASE pc[p] = "drafted" -> "recheck"
                 [] pc[p] = "recheck" -> "arm"
                 [] pc[p] = "recheckStaged" -> "key")
    /\ UNCHANGED <<receipts, lock, world, call, identity, count>>

(* The composer holds exactly the wire: in the poll, right before the phase is
   saved, and for a staged draft again after it. *)
SeeDraft(p) ==
    /\ pc[p] \in {"drafted", "recheck", "recheckStaged"}
    /\ agent = identity[p]
    /\ pc[p] = "recheckStaged" => msg[p] \notin shown /\ MayKey(p)
    /\ Matches(p)
    /\ Goto(p, CASE pc[p] = "drafted" -> "recheck"
                 [] pc[p] = "recheck" -> "arm"
                 [] pc[p] = "recheckStaged" -> "key")
    /\ UNCHANGED <<receipts, lock, world, call, identity, count>>

(* The key is only considered once the phase submitting is durable. *)
Arm(p) ==
    /\ pc[p] \in {"arm", "armStaged"}
    /\ SavePhase(p, "submitting")
    /\ Goto(p, IF pc[p] = "arm" THEN "key" ELSE "recheckStaged")
    /\ UNCHANGED <<lock, world, call, identity, count>>

(* Mutant of SeeSubmitted: an empty composer is taken for a submission. *)
SeeComposerEmpty(p) ==
    /\ pc[p] = "submitted"
    /\ agent = identity[p]
    /\ composer = <<>>
    /\ Goto(p, "confirm")
    /\ UNCHANGED <<receipts, lock, world, call, identity, count>>

SeeSubmitted(p) ==
    /\ pc[p] = "submitted"
    /\ agent = identity[p]
    /\ Submitted(p)
    /\ Goto(p, "confirm")
    /\ UNCHANGED <<receipts, lock, world, call, identity, count>>

(* The receipt is final: submitted or deferred, by the mode. *)
FinalPhase(p) == IF msg[p] \in Deferred THEN "deferred" ELSE "submitted"
Close(p) == SavePhase(p, FinalPhase(p))

Confirm(p) ==
    /\ pc[p] = "confirm"
    /\ Close(p)
    /\ Answer(p)
    /\ UNCHANGED <<world, count>>

(* A check refuses, the deadline passes, the terminal does not answer in time
   (the input may have gone out) or the receipt is not saved for sure: uncertain. *)
GiveUp(p) ==
    /\ pc[p] \in Recorded \cup {"intend"}
    /\ Answer(p)
    /\ \/ UNCHANGED <<receipts, world, count>>
       \/ /\ pc[p] = "intend"
          /\ Save(p, [digest |-> body[p], phase |-> "pasting", process |-> identity[p]])
          /\ UNCHANGED <<world, count>>
       \/ /\ pc[p] \in {"arm", "armStaged"}
          /\ SavePhase(p, "submitting")
          /\ UNCHANGED <<world, count>>
       \/ /\ pc[p] = "confirm"
          /\ Close(p)
          /\ UNCHANGED <<world, count>>
       \/ /\ pc[p] = "pasting"
          /\ pending' = Append(pending, MyWire(p))
          /\ pastes' = [pastes EXCEPT ![msg[p]] = @ + 1]
          /\ UNCHANGED <<receipts, agent, kittens, composer, shown, activity, human, turns, keys, resumed>>
       \/ /\ pc[p] = "keying"
          /\ pending' = Append(pending, Key(p))
          /\ keys' = [keys EXCEPT ![msg[p]] = @ + 1]
          /\ UNCHANGED <<receipts, agent, kittens, composer, shown, activity, human, turns, pastes, resumed>>

(* Inputs no sender waits for: of the human, and of kittens that outlived their sender. *)
Strays == human + Cardinality(orphans)

(* The kitten that has this input goes on without its sender and without the lock. *)
Outlive(p, input) ==
    /\ Strays < MaxOrphans
    /\ late' = late \cup {<<msg[p], input>>}
    /\ orphans' = orphans \cup {input}
    /\ UNCHANGED pending

(* The sender is killed, and the kernel releases the lock.  A kitten it had started
   has written the input, outlives its sender, or is gone without having written. *)
Crash(p) ==
    /\ pc[p] # "idle"
    /\ Answer(p)
    /\ UNCHANGED <<receipts, agent, composer, shown, activity, human, turns, resumed>>
    /\ \/ UNCHANGED <<pending, kittens, pastes, keys>>
       \/ /\ pc[p] = "pasting"
          /\ \/ pending' = Append(pending, MyWire(p)) /\ UNCHANGED kittens
             \/ Outlive(p, MyWire(p))
          /\ pastes' = [pastes EXCEPT ![msg[p]] = @ + 1]
          /\ UNCHANGED keys
       \/ /\ pc[p] = "keying"
          /\ \/ pending' = Append(pending, Key(p)) /\ UNCHANGED kittens
             \/ Outlive(p, Key(p))
          /\ keys' = [keys EXCEPT ![msg[p]] = @ + 1]
          /\ UNCHANGED pastes

-----------------------------------------------------------------------------
(* The composer is handed to the agent, as a turn or as a follow-up. *)
HandOver ==
    /\ composer' = <<>>
    /\ shown' = shown \cup {m \in Ids : \E i \in DOMAIN composer, b \in Bodies :
                                            composer[i] = Wire(m, b)}
    /\ turns' = IF composer = <<>> THEN turns ELSE turns \cup {composer}

(* The agent takes the next input: text goes to the composer, Enter submits it, and
   Tab queues it; without work in progress Tab may submit it, or do nothing. *)
AgentReads ==
    /\ pending # <<>>
    /\ pending' = Tail(pending)
    /\ CASE Head(pending) = Enter ->
             HandOver /\ UNCHANGED activity
         [] Head(pending) = Tab ->
             \/ HandOver /\ activity' = IF activity = "working" /\ composer # <<>> THEN "queued" ELSE activity
             \/ activity = "idle" /\ UNCHANGED <<composer, shown, turns, activity>>
         [] OTHER ->
             composer' = Append(composer, Head(pending)) /\ UNCHANGED <<shown, turns, activity>>
    /\ UNCHANGED <<receipts, lock, agent, kittens, human, pc, call, identity, count>>

(* The agent starts to work, finishes, or takes up its follow-ups. *)
AgentWorks ==
    /\ activity' = CASE activity = "working" -> "idle" [] OTHER -> "working"
    /\ UNCHANGED <<receipts, lock, agent, pending, kittens, composer, shown, human, turns, pc, call, identity, count>>

(* A kitten that outlived its sender writes its input, whoever holds the lock now. *)
LateInput ==
    \E o \in late :
        /\ late' = late \ {o}
        /\ pending' = Append(pending, o[2])
        /\ UNCHANGED <<receipts, lock, agent, orphans, composer, shown, activity, human, turns,
                       pc, call, identity, count>>

(* A human types, presses a key, or clears the composer. *)
HumanTypes ==
    /\ Strays < MaxHuman
    /\ human' = human + 1
    /\ \E input \in {Typed, Enter, Tab} : pending' = Append(pending, input)
    /\ UNCHANGED <<receipts, lock, agent, kittens, composer, shown, activity, turns, pc, call, identity, count>>

HumanClears ==
    /\ composer # <<>>
    /\ composer' = <<>>
    /\ UNCHANGED <<receipts, lock, agent, pending, kittens, shown, activity, human, turns, pc, call, identity, count>>

(* Output of the agent scrolls a message off the screen. *)
Scroll ==
    /\ \E m \in shown : shown' = shown \ {m}
    /\ UNCHANGED <<receipts, lock, agent, pending, kittens, composer, activity, human, turns, pc, call, identity, count>>

(* Another process takes the foreground of the pane; unread input stays in the tty. *)
AgentRestarts ==
    /\ agent < MaxRestarts
    /\ agent' = agent + 1
    /\ composer' = <<>>
    /\ shown' \in SUBSET shown
    /\ activity' = "idle"
    /\ UNCHANGED <<receipts, lock, pending, kittens, human, turns, pc, call, identity, count>>

DeliverySteps(p) ==
    \/ AnswerFromReceipt(p) \/ Refuse(p)
    \/ RecoverStaged(p) \/ RecoverSubmitted(p) \/ RecoverFails(p)
    \/ FindComposerEmpty(p) \/ Intend(p) \/ CheckTarget(p) \/ Paste(p) \/ Press(p)
    \/ SeeDraft(p) \/ Arm(p) \/ SeeSubmitted(p) \/ Confirm(p) \/ GiveUp(p)

Environment ==
    AgentReads \/ AgentWorks \/ LateInput \/ HumanTypes \/ HumanClears \/ Scroll \/ AgentRestarts

Next ==
    \/ \E p \in Callers :
        \/ \E m \in Ids, b \in Bodies, finish \in BOOLEAN : Deliver(p, m, b, finish)
        \/ DeliverySteps(p)
        \/ Crash(p)
    \/ Environment

Spec == Init /\ [][Next]_deliveryVars

-----------------------------------------------------------------------------
(* Types, and with them the fields every retained receipt must have for
   validate_record: one that lacks a field would block its id for good. *)
TypeOK ==
    /\ receipts \in [Ids -> Receipt \cup {None}]
    /\ lock \in Callers \cup {None}
    /\ agent \in Nat
    /\ pending \in Seq(Fragments \cup {Enter, Tab})
    /\ late \subseteq Ids \X (Fragments \cup {Enter, Tab})
    /\ orphans \subseteq Fragments \cup {Enter, Tab}
    /\ composer \in Seq(Fragments)
    /\ shown \subseteq Ids
    /\ activity \in {"idle", "working", "queued"}
    /\ human \in Nat
    /\ pc \in [Callers -> Steps]
    /\ msg \in [Callers -> Ids \cup {None}]
    /\ body \in [Callers -> Bodies \cup {None}]
    /\ staged \in [Callers -> BOOLEAN]
    /\ identity \in [Callers -> Nat \cup {None}]
    /\ pastes \in [Ids -> Nat]
    /\ keys \in [Ids -> Nat]
    /\ resumed \in BOOLEAN
    /\ \A t \in turns : t \in Seq(Fragments)

(* A message is pasted at most once and its submit key sent at most once, through
   retries, finish-staged calls, failed writes, timeouts and killed senders
   ("durable, at-most-once input attempts", config/agent_delivery.py). *)
AtMostOnceInput == \A m \in Ids : pastes[m] <= 1 /\ keys[m] <= 1

(* Input is only ever sent under a receipt that says so, and a draft is only
   submitted if it was pasted by a delivery: the retry of a killed sender can
   tell what may have happened, and read the receipt at all (TypeOK). *)
InputIsRecorded ==
    /\ TypeOK
    /\ \A m \in Ids :
        /\ pastes[m] > 0 => receipts[m] # None
        /\ keys[m] > 0 => pastes[m] > 0 /\ receipts[m].phase # "pasting"

(* A final receipt says submitted only if an agent was given the recorded message,
   although the composer may have been cleared, submitted by hand or replaced with
   the process while the sender, or its successor, was looking. *)
SubmittedIsTrue ==
    \A m \in Ids : receipts[m] # None /\ receipts[m].phase \in Final =>
        \E t \in turns : \E i \in DOMAIN t : t[i] = Wire(m, receipts[m].digest)

(* Fresh deliveries never mix: as long as no human has typed or submitted anything, no
   staged draft was finished by a later call and no key outlived its sender, an agent
   is never given two messages at once, also when senders were killed with input on
   its way and others deliver to the same composer.  Only a paste that outlived its
   own sender, which no lock and no check of a later sender holds back, can be given
   to the agent together with another message. *)
NothingMixed ==
    human = 0 /\ ~resumed /\ {Enter, Tab} \cap orphans = {} =>
        \A t \in turns : \A i, j \in DOMAIN t : t[i] \notin orphans /\ t[j] \notin orphans => i = j

(* What the ledger promises, message by message. *)
Life(m) == IF receipts[m] = None THEN "new"
           ELSE IF receipts[m].phase \in Final THEN "closed"
           ELSE IF receipts[m].phase = "submitting" THEN IF keys[m] > 0 THEN "keyed" ELSE "armed"
           ELSE IF pastes[m] > 0 THEN "pasted" ELSE "intended"

Promise == INSTANCE DeliverOnce WITH life <- [m \in Ids |-> Life(m)]

(* The phases of the ledger and its recovery implement DeliverOnce. *)
ImplementsDeliverOnce == Promise!Spec
=============================================================================
