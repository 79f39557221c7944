------------------------ MODULE AgentDelivery_proofs ------------------------
(***************************************************************************)
(* Proofs about AgentDelivery, for any number of senders, message ids,     *)
(* human inputs and agent restarts: what a delivery promises as invariants *)
(* of Spec, and that Spec implements DeliverOnce.                          *)
(***************************************************************************)
EXTENDS AgentDelivery, TLAPS

(* A call past the lock holds it, and knows its message and its target. *)
CallInv ==
    \A p \in Callers :
        /\ pc[p] # "idle" => msg[p] \in Ids /\ body[p] \in Bodies
        /\ pc[p] # "idle" => lock = p
        /\ pc[p] \notin {"idle", "look", "confirm"} => identity[p] \in Nat

(* The receipt a call finds at each of its steps; the digest it checked stays its own. *)
RecordInv ==
    \A p \in Callers :
        /\ pc[p] = "intend" => MyReceipt(p) = None
        /\ pc[p] \in Recorded => MyReceipt(p) # None /\ MyReceipt(p).digest = body[p]
        /\ pc[p] \in {"paste", "pasting", "drafted", "recheck", "arm", "armStaged"}
              => MyReceipt(p).phase = "pasting"
        /\ pc[p] \in {"recheckStaged", "key", "keying", "submitted"}
              => MyReceipt(p).phase = "submitting"
        /\ pc[p] = "confirm" => MyReceipt(p).phase \notin Final

(* What was pasted and keyed so far, by the step of the call and by the phase. *)
CountInv ==
    /\ \A p \in Callers :
        /\ pc[p] \in {"paste", "pasting"} => pastes[msg[p]] = 0
        /\ pc[p] \in Recorded \ {"paste", "pasting"} => pastes[msg[p]] > 0
        /\ pc[p] \in {"recheckStaged", "key", "keying"} => keys[msg[p]] = 0
    /\ \A m \in Ids :
        /\ pastes[m] <= 1 /\ keys[m] <= 1
        /\ receipts[m] = None => pastes[m] = 0 /\ keys[m] = 0
        /\ receipts[m] # None /\ receipts[m].phase = "pasting" => keys[m] = 0
        /\ receipts[m] # None /\ receipts[m].phase # "pasting" => pastes[m] > 0
        /\ receipts[m] # None /\ receipts[m].phase \in Final
              => receipts[m].phase = IF m \in Deferred THEN "deferred" ELSE "submitted"

Wires == {Wire(m, b) : m \in Ids, b \in Bodies}

Written(m, b) == receipts[m] # None /\ receipts[m].digest = b /\ pastes[m] > 0

Given(m) == \E t \in turns : \E i \in DOMAIN t : t[i] = Wire(m, receipts[m].digest)

(* A wire in the terminal, or in a kitten without a sender, is the recorded paste of its message, and a message that the
   history shows, or that a call is about to close, was given to an agent. *)
WireInv ==
    /\ \A m \in Ids, b \in Bodies :
        /\ \A i \in DOMAIN pending : pending[i] = Wire(m, b) => Written(m, b)
        /\ \A i \in DOMAIN composer : composer[i] = Wire(m, b) => Written(m, b)
        /\ \A o \in late : o[2] = Wire(m, b) => Written(m, b) /\ o[1] = m
    /\ \A m \in shown : receipts[m] # None /\ pastes[m] > 0 /\ Given(m)
    /\ \A p \in Callers : pc[p] = "confirm" => Given(msg[p])
    /\ SubmittedIsTrue

(* No wire is twice in the terminal and in the kittens without a sender. *)
OnceInv ==
    /\ \A i, j \in DOMAIN pending : pending[i] \in Wires /\ pending[i] = pending[j] => i = j
    /\ \A i \in DOMAIN pending, j \in DOMAIN composer : pending[i] \in Wires => pending[i] # composer[j]
    /\ \A o \in late :
        /\ o[2] \in orphans
        /\ \A i \in DOMAIN pending : o[2] \in Wires => pending[i] # o[2]
        /\ \A i \in DOMAIN composer : o[2] \in Wires => composer[i] # o[2]

(* Without a human, a staged draft that was taken up and an orphaned key: a key is only
   sent when nothing but orphans is on its way and the composer holds one draft besides
   orphans, and no fresh input ever gets in front of it. *)
Calm == human = 0 /\ ~resumed /\ {Enter, Tab} \cap orphans = {}

Single(s) == \A i, j \in DOMAIN s : s[i] \notin orphans /\ s[j] \notin orphans => i = j

CalmInv ==
    Calm =>
        /\ \A i \in DOMAIN pending : pending[i] \in {Enter, Tab} =>
               Single(composer) /\ \A j \in DOMAIN pending : j < i => pending[j] \in orphans
        /\ \A p \in Callers :
            /\ pc[p] \notin {"armStaged", "recheckStaged"}
            /\ pc[p] = "drafted" => \A i \in DOMAIN pending :
                  pending[i] \in orphans \/ \E j \in DOMAIN pending : j >= i /\ pending[j] = MyWire(p)
            /\ pc[p] \in {"recheck", "arm", "key", "keying"} =>
                  Single(composer) /\ \A i \in DOMAIN pending : pending[i] \in orphans
        /\ \A t \in turns : Single(t)

IInv == TypeOK /\ CallInv /\ RecordInv /\ CountInv /\ WireInv /\ OnceInv /\ CalmInv

-----------------------------------------------------------------------------
(* What the helpers of a step do to the call that takes it and to the others. *)
LEMMA GotoFacts ==
    ASSUME TypeOK, NEW p \in Callers, NEW step \in Steps, Goto(p, step)
    PROVE  /\ pc' \in [Callers -> Steps]
           /\ pc'[p] = step
           /\ \A q \in Callers : q # p => pc'[q] = pc[q]
BY DEF TypeOK, Goto

LEMMA AnswerFacts ==
    ASSUME TypeOK, NEW p \in Callers, Answer(p)
    PROVE  /\ pc' \in [Callers -> Steps]
           /\ msg' \in [Callers -> Ids \cup {None}]
           /\ body' \in [Callers -> Bodies \cup {None}]
           /\ staged' \in [Callers -> BOOLEAN]
           /\ identity' \in [Callers -> Nat \cup {None}]
           /\ lock' \in Callers \cup {None}
           /\ pc'[p] = "idle"
           /\ \A q \in Callers : q # p =>
                  /\ pc'[q] = pc[q] /\ msg'[q] = msg[q] /\ body'[q] = body[q]
                  /\ staged'[q] = staged[q] /\ identity'[q] = identity[q]
                  /\ lock = q => lock' = q
BY DEF TypeOK, Answer, Goto, Steps

(* One call at a time is past the lock of the ledger. *)
LEMMA Alone ==
    ASSUME CallInv, NEW p \in Callers, pc[p] # "idle"
    PROVE  \A q \in Callers : q # p => pc[q] = "idle"
BY DEF CallInv

LEMMA SaveFacts ==
    ASSUME TypeOK, NEW p \in Callers, msg[p] \in Ids, NEW r \in Receipt, Save(p, r)
    PROVE  /\ receipts' \in [Ids -> Receipt \cup {None}]
           /\ receipts'[msg[p]] = r
           /\ \A m \in Ids : m # msg[p] => receipts'[m] = receipts[m]
BY DEF TypeOK, Save

LEMMA AppendFacts ==
    ASSUME TypeOK, NEW x \in Fragments \cup {Enter, Tab}, pending' = Append(pending, x)
    PROVE  /\ pending' \in Seq(Fragments \cup {Enter, Tab})
           /\ Len(pending') = Len(pending) + 1
           /\ DOMAIN pending = 1..Len(pending)
           /\ DOMAIN pending' = 1..(Len(pending) + 1)
           /\ pending'[Len(pending) + 1] = x
           /\ \A i \in DOMAIN pending : pending'[i] = pending[i]
BY DEF TypeOK

(* The ways a call gives up or is killed: with nothing done, or with the step it was
   about to take done without its knowledge. *)
GiveUpQuiet(p) ==
    /\ Answer(p)
    /\ UNCHANGED <<receipts, world, count>>
GiveUpIntend(p) ==
    /\ pc[p] = "intend" /\ Answer(p)
    /\ Save(p, [digest |-> body[p], phase |-> "pasting", process |-> identity[p]])
    /\ UNCHANGED <<world, count>>
GiveUpArm(p) ==
    /\ pc[p] \in {"arm", "armStaged"} /\ Answer(p)
    /\ SavePhase(p, "submitting")
    /\ UNCHANGED <<world, count>>
GiveUpPaste(p) ==
    /\ pc[p] = "pasting" /\ Answer(p)
    /\ pending' = Append(pending, MyWire(p))
    /\ pastes' = [pastes EXCEPT ![msg[p]] = @ + 1]
    /\ UNCHANGED <<receipts, agent, kittens, composer, shown, activity, human, turns, keys, resumed>>
GiveUpPress(p) ==
    /\ pc[p] = "keying" /\ Answer(p)
    /\ pending' = Append(pending, Key(p))
    /\ keys' = [keys EXCEPT ![msg[p]] = @ + 1]
    /\ UNCHANGED <<receipts, agent, kittens, composer, shown, activity, human, turns, pastes, resumed>>

(* ... and with the input in the hands of a kitten that outlives it. *)
Outlived(p, input) ==
    /\ late' = late \cup {<<msg[p], input>>}
    /\ orphans' = orphans \cup {input}
    /\ UNCHANGED <<receipts, pending, agent, composer, shown, activity, human, turns, resumed>>
KilledPasting(p) ==
    /\ pc[p] = "pasting" /\ Answer(p)
    /\ Outlived(p, MyWire(p))
    /\ pastes' = [pastes EXCEPT ![msg[p]] = @ + 1] /\ keys' = keys
KilledKeying(p) ==
    /\ pc[p] = "keying" /\ Answer(p)
    /\ Outlived(p, Key(p))
    /\ keys' = [keys EXCEPT ![msg[p]] = @ + 1] /\ pastes' = pastes

LEMMA WaysToBeKilled ==
    ASSUME NEW p \in Callers, Crash(p)
    PROVE  GiveUpQuiet(p) \/ GiveUpPaste(p) \/ GiveUpPress(p) \/ KilledPasting(p) \/ KilledKeying(p)
<1> USE DEF Crash, kittens
<1>1. CASE UNCHANGED <<pending, kittens, pastes, keys>>
  BY <1>1 DEF GiveUpQuiet, world, count
<1>2. CASE /\ pc[p] = "pasting"
           /\ pending' = Append(pending, MyWire(p)) /\ UNCHANGED kittens
           /\ pastes' = [pastes EXCEPT ![msg[p]] = @ + 1] /\ UNCHANGED keys
  BY <1>2 DEF GiveUpPaste
<1>3. CASE /\ pc[p] = "pasting" /\ Outlive(p, MyWire(p))
           /\ pastes' = [pastes EXCEPT ![msg[p]] = @ + 1] /\ UNCHANGED keys
  BY <1>3 DEF KilledPasting, Outlived, Outlive
<1>4. CASE /\ pc[p] = "keying"
           /\ pending' = Append(pending, Key(p)) /\ UNCHANGED kittens
           /\ keys' = [keys EXCEPT ![msg[p]] = @ + 1] /\ UNCHANGED pastes
  BY <1>4 DEF GiveUpPress
<1>5. CASE /\ pc[p] = "keying" /\ Outlive(p, Key(p))
           /\ keys' = [keys EXCEPT ![msg[p]] = @ + 1] /\ UNCHANGED pastes
  BY <1>5 DEF KilledKeying, Outlived, Outlive
<1> QED BY <1>1, <1>2, <1>3, <1>4, <1>5

LEMMA WaysToGiveUp ==
    ASSUME NEW p \in Callers, GiveUp(p)
    PROVE  \/ GiveUpQuiet(p) \/ GiveUpIntend(p) \/ GiveUpArm(p) \/ Confirm(p)
           \/ GiveUpPaste(p) \/ GiveUpPress(p)
<1> USE DEF GiveUp, Recorded, Steps
<1>1. CASE UNCHANGED <<receipts, world, count>>
  BY <1>1 DEF GiveUpQuiet
<1>2. CASE pc[p] = "intend" /\ Save(p, [digest |-> body[p], phase |-> "pasting", process |-> identity[p]])
           /\ UNCHANGED <<world, count>>
  BY <1>2 DEF GiveUpIntend
<1>3. CASE pc[p] \in {"arm", "armStaged"} /\ SavePhase(p, "submitting") /\ UNCHANGED <<world, count>>
  BY <1>3 DEF GiveUpArm
<1>4. CASE pc[p] = "confirm" /\ Close(p) /\ UNCHANGED <<world, count>>
  BY <1>4 DEF Confirm
<1>5. CASE /\ pc[p] = "pasting"
           /\ pending' = Append(pending, MyWire(p))
           /\ pastes' = [pastes EXCEPT ![msg[p]] = @ + 1]
           /\ UNCHANGED <<receipts, agent, kittens, composer, shown, activity, human, turns, keys, resumed>>
  BY <1>5 DEF GiveUpPaste
<1>6. CASE /\ pc[p] = "keying"
           /\ pending' = Append(pending, Key(p))
           /\ keys' = [keys EXCEPT ![msg[p]] = @ + 1]
           /\ UNCHANGED <<receipts, agent, kittens, composer, shown, activity, human, turns, pastes, resumed>>
  BY <1>6 DEF GiveUpPress
<1> QED BY <1>1, <1>2, <1>3, <1>4, <1>5, <1>6

-----------------------------------------------------------------------------
(* Every step of a call preserves every part of the invariant. *)

LEMMA KeepAnswerFromReceipt ==
    ASSUME IInv, NEW p \in Callers, AnswerFromReceipt(p)
    PROVE  IInv'
<1> USE DEF IInv
<1>call. /\ pc' \in [Callers -> Steps]
         /\ msg' \in [Callers -> Ids \cup {None}]
         /\ body' \in [Callers -> Bodies \cup {None}]
         /\ staged' \in [Callers -> BOOLEAN]
         /\ identity' \in [Callers -> Nat \cup {None}]
         /\ lock' \in Callers \cup {None}
         /\ pc'[p] = "idle"
         /\ \A q \in Callers : q # p =>
                /\ pc'[q] = pc[q] /\ msg'[q] = msg[q] /\ body'[q] = body[q]
                /\ staged'[q] = staged[q] /\ identity'[q] = identity[q]
                /\ lock = q => lock' = q
  BY AnswerFacts DEF AnswerFromReceipt
<1>types. TypeOK'
  BY <1>call DEF TypeOK, AnswerFromReceipt, world, kittens, call, count
<1>calls. CallInv'
  BY <1>call DEF TypeOK, CallInv, AnswerFromReceipt, world, kittens, call, count
<1>records. RecordInv'
  BY <1>call DEF CallInv, RecordInv, MyReceipt, AnswerFromReceipt, world, kittens, call, count, Recorded, Steps
<1>counts. CountInv'
  BY <1>call DEF CallInv, RecordInv, CountInv, MyReceipt, Final, AnswerFromReceipt, world, kittens, call, count, Recorded, Steps
<1>wires. WireInv'
  BY <1>call DEF WireInv, SubmittedIsTrue, Written, Given, AnswerFromReceipt, world, kittens, call, count
<1>once. OnceInv'
  BY <1>call DEF OnceInv, AnswerFromReceipt, world, kittens, call, count
<1>calm. CalmInv'
  BY <1>call DEF CalmInv, Calm, Single, CallInv, MyWire, AnswerFromReceipt, world, kittens, call, count
<1> QED BY <1>types, <1>calls, <1>records, <1>counts, <1>wires, <1>once, <1>calm

LEMMA KeepRefuse ==
    ASSUME IInv, NEW p \in Callers, Refuse(p)
    PROVE  IInv'
<1> USE DEF IInv
<1>call. /\ pc' \in [Callers -> Steps]
         /\ msg' \in [Callers -> Ids \cup {None}]
         /\ body' \in [Callers -> Bodies \cup {None}]
         /\ staged' \in [Callers -> BOOLEAN]
         /\ identity' \in [Callers -> Nat \cup {None}]
         /\ lock' \in Callers \cup {None}
         /\ pc'[p] = "idle"
         /\ \A q \in Callers : q # p =>
                /\ pc'[q] = pc[q] /\ msg'[q] = msg[q] /\ body'[q] = body[q]
                /\ staged'[q] = staged[q] /\ identity'[q] = identity[q]
                /\ lock = q => lock' = q
  BY AnswerFacts DEF Refuse
<1>types. TypeOK'
  BY <1>call DEF TypeOK, Refuse, world, kittens, call, count
<1>calls. CallInv'
  BY <1>call DEF TypeOK, CallInv, Refuse, world, kittens, call, count
<1>records. RecordInv'
  BY <1>call DEF CallInv, RecordInv, MyReceipt, Refuse, world, kittens, call, count, Recorded, Steps
<1>counts. CountInv'
  BY <1>call DEF CallInv, RecordInv, CountInv, MyReceipt, Final, Refuse, world, kittens, call, count, Recorded, Steps
<1>wires. WireInv'
  BY <1>call DEF WireInv, SubmittedIsTrue, Written, Given, Refuse, world, kittens, call, count
<1>once. OnceInv'
  BY <1>call DEF OnceInv, Refuse, world, kittens, call, count
<1>calm. CalmInv'
  BY <1>call DEF CalmInv, Calm, Single, CallInv, MyWire, Refuse, world, kittens, call, count
<1> QED BY <1>types, <1>calls, <1>records, <1>counts, <1>wires, <1>once, <1>calm

LEMMA KeepRecoverStaged ==
    ASSUME IInv, NEW p \in Callers, RecoverStaged(p)
    PROVE  IInv'
<1> USE DEF IInv
<1>call. /\ pc' \in [Callers -> Steps]
         /\ pc'[p] = "armStaged"
         /\ \A q \in Callers : q # p => pc'[q] = pc[q]
  BY GotoFacts DEF RecoverStaged, Steps
<1>alone. msg[p] \in Ids /\ body[p] \in Bodies /\ (\A q \in Callers : q # p => pc[q] = "idle")
  BY Alone DEF CallInv, RecoverStaged, Unfinished, Recorded, Steps
<1>types. TypeOK'
  BY <1>call, <1>alone DEF TypeOK, RecoverStaged, Unfinished, SameProcess, world, kittens, call, count
<1>calls. CallInv'
  BY <1>call, <1>alone DEF TypeOK, CallInv, RecoverStaged, Unfinished, SameProcess, world, kittens, call, count
<1>records. RecordInv'
  BY <1>call, <1>alone DEF CallInv, RecordInv, MyReceipt, RecoverStaged, Unfinished, SameProcess, world, kittens, call, count, Recorded, Steps
<1>counts. CountInv'
  BY <1>call, <1>alone DEF CallInv, RecordInv, CountInv, WireInv, Written, MyReceipt, RecoverStaged, Unfinished, Matches, MyWire, world, kittens, call, Recorded, Steps, Final
<1>wires. WireInv'
  BY <1>call, <1>alone DEF WireInv, SubmittedIsTrue, Written, Given, RecoverStaged, Unfinished, SameProcess, world, kittens, call, count
<1>once. OnceInv'
  BY <1>call, <1>alone DEF OnceInv, RecoverStaged, Unfinished, SameProcess, world, kittens, call, count
<1>calm. CalmInv'
  BY <1>call, <1>alone DEF CalmInv, Calm, Single, CallInv, MyWire, RecoverStaged, Unfinished, SameProcess, world, kittens, call, count
<1> QED BY <1>types, <1>calls, <1>records, <1>counts, <1>wires, <1>once, <1>calm

LEMMA KeepRecoverSubmitted ==
    ASSUME IInv, NEW p \in Callers, RecoverSubmitted(p)
    PROVE  IInv'
<1> USE DEF IInv
<1>call. /\ pc' \in [Callers -> Steps]
         /\ pc'[p] = "confirm"
         /\ \A q \in Callers : q # p => pc'[q] = pc[q]
  BY GotoFacts DEF RecoverSubmitted, Steps
<1>alone. msg[p] \in Ids /\ body[p] \in Bodies /\ (\A q \in Callers : q # p => pc[q] = "idle")
  BY Alone DEF CallInv, RecoverSubmitted, Unfinished, Recorded, Steps
<1>types. TypeOK'
  BY <1>call, <1>alone DEF TypeOK, RecoverSubmitted, Unfinished, SameProcess, Submitted, world, kittens, call, count
<1>calls. CallInv'
  BY <1>call, <1>alone DEF TypeOK, CallInv, RecoverSubmitted, Unfinished, SameProcess, Submitted, world, kittens, call, count
<1>records. RecordInv'
  BY <1>call, <1>alone DEF CallInv, RecordInv, MyReceipt, RecoverSubmitted, Unfinished, SameProcess, Submitted, world, kittens, call, count, Recorded, Steps
<1>counts. CountInv'
  BY <1>call, <1>alone DEF CallInv, RecordInv, CountInv, WireInv, MyReceipt, RecoverSubmitted, Unfinished, Submitted, world, kittens, call, count, Recorded, Steps, Final
<1>wires. WireInv'
  BY <1>call, <1>alone DEF WireInv, SubmittedIsTrue, Written, Given, RecoverSubmitted, Unfinished, SameProcess, Submitted, world, kittens, call, count
<1>once. OnceInv'
  BY <1>call, <1>alone DEF OnceInv, RecoverSubmitted, Unfinished, SameProcess, Submitted, world, kittens, call, count
<1>calm. CalmInv'
  BY <1>call, <1>alone DEF CalmInv, Calm, Single, CallInv, MyWire, RecoverSubmitted, Unfinished, SameProcess, Submitted, world, kittens, call, count
<1> QED BY <1>types, <1>calls, <1>records, <1>counts, <1>wires, <1>once, <1>calm

LEMMA KeepRecoverFails ==
    ASSUME IInv, NEW p \in Callers, RecoverFails(p)
    PROVE  IInv'
<1> USE DEF IInv
<1>call. /\ pc' \in [Callers -> Steps]
         /\ msg' \in [Callers -> Ids \cup {None}]
         /\ body' \in [Callers -> Bodies \cup {None}]
         /\ staged' \in [Callers -> BOOLEAN]
         /\ identity' \in [Callers -> Nat \cup {None}]
         /\ lock' \in Callers \cup {None}
         /\ pc'[p] = "idle"
         /\ \A q \in Callers : q # p =>
                /\ pc'[q] = pc[q] /\ msg'[q] = msg[q] /\ body'[q] = body[q]
                /\ staged'[q] = staged[q] /\ identity'[q] = identity[q]
                /\ lock = q => lock' = q
  BY AnswerFacts DEF RecoverFails
<1>types. TypeOK'
  BY <1>call DEF TypeOK, RecoverFails, Unfinished, world, kittens, call, count
<1>calls. CallInv'
  BY <1>call DEF TypeOK, CallInv, RecoverFails, Unfinished, world, kittens, call, count
<1>records. RecordInv'
  BY <1>call DEF CallInv, RecordInv, MyReceipt, RecoverFails, Unfinished, world, kittens, call, count, Recorded, Steps
<1>counts. CountInv'
  BY <1>call DEF CallInv, RecordInv, CountInv, MyReceipt, Final, RecoverFails, Unfinished, world, kittens, call, count, Recorded, Steps
<1>wires. WireInv'
  BY <1>call DEF WireInv, SubmittedIsTrue, Written, Given, RecoverFails, Unfinished, world, kittens, call, count
<1>once. OnceInv'
  BY <1>call DEF OnceInv, RecoverFails, Unfinished, world, kittens, call, count
<1>calm. CalmInv'
  BY <1>call DEF CalmInv, Calm, Single, CallInv, MyWire, RecoverFails, Unfinished, world, kittens, call, count
<1> QED BY <1>types, <1>calls, <1>records, <1>counts, <1>wires, <1>once, <1>calm

LEMMA KeepFindComposerEmpty ==
    ASSUME IInv, NEW p \in Callers, FindComposerEmpty(p)
    PROVE  IInv'
<1> USE DEF IInv
<1>call. /\ pc' \in [Callers -> Steps]
         /\ pc'[p] = "intend"
         /\ \A q \in Callers : q # p => pc'[q] = pc[q]
  BY GotoFacts DEF FindComposerEmpty, Steps
<1>alone. msg[p] \in Ids /\ body[p] \in Bodies /\ (\A q \in Callers : q # p => pc[q] = "idle")
  BY Alone DEF CallInv, FindComposerEmpty, Recorded, Steps
<1>types. TypeOK'
  BY <1>call, <1>alone DEF TypeOK, FindComposerEmpty, world, kittens, call, count
<1>calls. CallInv'
  BY <1>call, <1>alone DEF TypeOK, CallInv, FindComposerEmpty, world, kittens, call, count
<1>records. RecordInv'
  BY <1>call, <1>alone DEF CallInv, RecordInv, MyReceipt, FindComposerEmpty, world, kittens, call, count, Recorded, Steps
<1>counts. CountInv'
  BY <1>call, <1>alone DEF CallInv, RecordInv, CountInv, MyReceipt, Final, FindComposerEmpty, world, kittens, call, count, Recorded, Steps
<1>wires. WireInv'
  BY <1>call, <1>alone DEF WireInv, SubmittedIsTrue, Written, Given, FindComposerEmpty, world, kittens, call, count
<1>once. OnceInv'
  BY <1>call, <1>alone DEF OnceInv, FindComposerEmpty, world, kittens, call, count
<1>calm. CalmInv'
  BY <1>call, <1>alone DEF CalmInv, Calm, Single, CallInv, MyWire, FindComposerEmpty, world, kittens, call, count
<1> QED BY <1>types, <1>calls, <1>records, <1>counts, <1>wires, <1>once, <1>calm

LEMMA KeepIntend ==
    ASSUME IInv, NEW p \in Callers, Intend(p)
    PROVE  IInv'
<1> USE DEF IInv
<1>call. /\ pc' \in [Callers -> Steps]
         /\ pc'[p] = "paste"
         /\ \A q \in Callers : q # p => pc'[q] = pc[q]
  BY GotoFacts DEF Intend, Steps
<1>alone. msg[p] \in Ids /\ body[p] \in Bodies /\ (\A q \in Callers : q # p => pc[q] = "idle")
  BY Alone DEF CallInv, Intend, Recorded, Steps
<1>effect. /\ receipts' \in [Ids -> Receipt \cup {None}]
           /\ receipts'[msg[p]] # None
           /\ receipts'[msg[p]].digest = body[p]
           /\ receipts'[msg[p]].phase = "pasting"
           /\ \A m \in Ids : m # msg[p] => receipts'[m] = receipts[m]
  <2> DEFINE r == [digest |-> body[p], phase |-> "pasting", process |-> identity[p]]
  <2>1. r \in Receipt /\ r.digest = body[p] /\ r.phase = "pasting"
    BY <1>alone, <1>call DEF Intend, TypeOK, CallInv, RecordInv, Receipt, Phases, Final, Recorded, Steps, MyReceipt
  <2>2. Save(p, r)
    BY DEF Intend, SavePhase, Close, FinalPhase
  <2> HIDE DEF r
  <2> QED BY <1>alone, <2>1, <2>2, SaveFacts, DeliveryAssumption
<1>types. TypeOK'
  BY <1>call, <1>effect, <1>alone DEF TypeOK, Intend, world, kittens, call, count
<1>calls. CallInv'
  BY <1>call, <1>effect, <1>alone DEF TypeOK, CallInv, Intend, world, kittens, call, count
<1>records. RecordInv'
  BY <1>call, <1>effect, <1>alone DEF RecordInv, CallInv, MyReceipt, Intend, Recorded, Steps, call, Final
<1>counts. CountInv'
  BY <1>call, <1>effect, <1>alone DEF RecordInv, CountInv, CallInv, MyReceipt, Intend, Recorded, Steps, call, count, Final, FinalPhase
<1>wires. WireInv'
  <2>1. \A m \in Ids : receipts[m] # None => receipts'[m] # None /\ receipts'[m].digest = receipts[m].digest
    BY <1>effect, <1>alone DEF RecordInv, MyReceipt, Intend
  <2>2. \A m \in Ids, b \in Bodies : Written(m, b) => Written(m, b)'
    BY <2>1 DEF Written, Intend, world, kittens, count
  <2>3. \A m \in Ids : receipts[m] # None /\ Given(m) => Given(m)'
    BY <2>1 DEF Given, Intend, world, kittens
  <2>4. \A m \in Ids, b \in Bodies :
          /\ \A i \in DOMAIN pending' : pending'[i] = Wire(m, b) => Written(m, b)'
          /\ \A i \in DOMAIN composer' : composer'[i] = Wire(m, b) => Written(m, b)'
          /\ \A o \in late' : o[2] = Wire(m, b) => Written(m, b)' /\ o[1] = m
    BY <2>2 DEF WireInv, Intend, world, kittens
  <2>5. \A m \in shown' : receipts'[m] # None /\ pastes'[m] > 0 /\ Given(m)'
    BY <2>1, <2>3 DEF WireInv, TypeOK, Intend, world, kittens, count
  <2>6. \A q \in Callers : pc'[q] # "confirm"
    BY <1>call, <1>alone
  <2>7. SubmittedIsTrue'
    <3> SUFFICES ASSUME NEW m \in Ids, receipts'[m] # None, receipts'[m].phase \in Final
                 PROVE  Given(m)'
      BY DEF SubmittedIsTrue, Given
    <3>1. CASE m = msg[p]
      BY <3>1, <1>effect, <1>alone, <2>3 DEF Intend, Final, WireInv, RecordInv, Recorded, Steps, MyReceipt
    <3>2. CASE m # msg[p]
      <4>1. receipts[m] # None /\ receipts[m].phase \in Final
        BY <3>2, <1>effect
      <4>2. Given(m)
        BY <4>1 DEF WireInv, SubmittedIsTrue, Given
      <4> QED BY <4>1, <4>2, <2>3
    <3> QED BY <3>1, <3>2
  <2> QED BY <2>4, <2>5, <2>6, <2>7 DEF WireInv
<1>once. OnceInv'
  BY <1>call, <1>effect, <1>alone DEF OnceInv, Intend, world, kittens, call, count
<1>calm. CalmInv'
  BY <1>call, <1>effect, <1>alone DEF CalmInv, Calm, Single, CallInv, MyWire, Intend, world, kittens, call, count
<1> QED BY <1>types, <1>calls, <1>records, <1>counts, <1>wires, <1>once, <1>calm

LEMMA KeepCheckTarget ==
    ASSUME IInv, NEW p \in Callers, CheckTarget(p)
    PROVE  IInv'
<1> USE DEF IInv
<1>call. /\ pc' \in [Callers -> Steps]
         /\ \/ pc[p] = "paste" /\ pc'[p] = "pasting"
            \/ pc[p] = "key" /\ pc'[p] = "keying"
         /\ \A q \in Callers : q # p => pc'[q] = pc[q]
  BY GotoFacts DEF CheckTarget, Steps
<1>alone. msg[p] \in Ids /\ body[p] \in Bodies /\ (\A q \in Callers : q # p => pc[q] = "idle")
  BY Alone DEF CallInv, CheckTarget, Recorded, Steps
<1>types. TypeOK'
  BY <1>call, <1>alone DEF TypeOK, CheckTarget, world, kittens, call, count
<1>calls. CallInv'
  BY <1>call, <1>alone DEF TypeOK, CallInv, CheckTarget, world, kittens, call, count
<1>records. RecordInv'
  BY <1>call, <1>alone DEF RecordInv, MyReceipt, CheckTarget, Recorded, Steps, world, kittens, call
<1>counts. CountInv'
  BY <1>call, <1>alone DEF CountInv, CheckTarget, Recorded, Steps, world, kittens, call, count
<1>wires. WireInv'
  BY <1>call, <1>alone DEF WireInv, SubmittedIsTrue, Written, Given, CheckTarget, world, kittens, call, count
<1>once. OnceInv'
  BY <1>call, <1>alone DEF OnceInv, CheckTarget, world, kittens, call, count
<1>calm. CalmInv'
  BY <1>call, <1>alone DEF CalmInv, Calm, Single, MyWire, CheckTarget, world, kittens, call, count
<1> QED BY <1>types, <1>calls, <1>records, <1>counts, <1>wires, <1>once, <1>calm

LEMMA KeepPaste ==
    ASSUME IInv, NEW p \in Callers, Paste(p)
    PROVE  IInv'
<1> USE DEF IInv
<1>call. /\ pc' \in [Callers -> Steps]
         /\ pc'[p] = "drafted"
         /\ \A q \in Callers : q # p => pc'[q] = pc[q]
  BY GotoFacts DEF Paste, Steps
<1>alone. msg[p] \in Ids /\ body[p] \in Bodies /\ (\A q \in Callers : q # p => pc[q] = "idle")
  BY Alone DEF CallInv, Paste, Recorded, Steps
<1>effect. /\ pastes' \in [Ids -> Nat]
           /\ pastes[msg[p]] = 0 /\ pastes'[msg[p]] = 1
           /\ \A m \in Ids : m # msg[p] => pastes'[m] = pastes[m]
  BY <1>alone DEF Paste, TypeOK, CountInv
<1>input. MyWire(p) \in Fragments /\ MyWire(p) \notin {Enter, Tab}
  BY <1>alone, DeliveryAssumption DEF MyWire, Wire, Fragments
<1>pending. /\ pending' \in Seq(Fragments \cup {Enter, Tab})
            /\ Len(pending') = Len(pending) + 1 /\ Len(pending) \in Nat
            /\ DOMAIN pending = 1..Len(pending)
            /\ DOMAIN pending' = 1..(Len(pending) + 1)
            /\ pending'[Len(pending) + 1] = MyWire(p)
            /\ \A i \in DOMAIN pending : pending'[i] = pending[i]
  BY <1>input, AppendFacts DEF Paste, TypeOK
<1>fresh. /\ \A i \in DOMAIN pending : pending[i] # MyWire(p)
          /\ \A i \in DOMAIN composer : composer[i] # MyWire(p)
          /\ \A o \in late : o[2] # MyWire(p)
  BY <1>effect, <1>alone DEF WireInv, Written, MyWire
<1>types. TypeOK'
  BY <1>call, <1>effect, <1>pending DEF TypeOK, Paste, call, kittens
<1>calls. CallInv'
  BY <1>call, <1>alone DEF TypeOK, CallInv, Paste, world, kittens, call, count
<1>records. RecordInv'
  BY <1>call, <1>alone DEF CallInv, RecordInv, MyReceipt, Paste, world, kittens, call, count, Recorded, Steps
<1>counts. CountInv'
  BY <1>call, <1>effect, <1>alone DEF CountInv, RecordInv, MyReceipt, Paste, Recorded, Steps, call
<1>wires. WireInv'
  <2>1. \A m \in Ids, b \in Bodies : Written(m, b) => Written(m, b)'
    BY <1>effect, <1>alone DEF Written, Paste
  <2>2. receipts'[msg[p]] # None /\ receipts'[msg[p]].digest = body[p] /\ pastes'[msg[p]] > 0
    BY <1>effect, <1>alone DEF Paste, RecordInv, MyReceipt, Recorded, Steps
  <2>3. ASSUME NEW m \in Ids, NEW b \in Bodies, NEW i \in DOMAIN pending', pending'[i] = Wire(m, b)
        PROVE  Written(m, b)'
    <3>1. CASE i \in DOMAIN pending
      BY <3>1, <2>1, <2>3, <1>pending DEF WireInv
    <3>2. CASE i = Len(pending) + 1
      <4>1. m = msg[p] /\ b = body[p]
        BY <3>2, <2>3, <1>pending DEF MyWire, Wire
      <4> QED BY <4>1, <2>2 DEF Written
    <3> QED BY <3>1, <3>2, <1>pending
  <2>4. ASSUME NEW m \in Ids, NEW b \in Bodies, NEW i \in DOMAIN composer', composer'[i] = Wire(m, b)
        PROVE  Written(m, b)'
    BY <2>1, <2>4 DEF WireInv, Paste
  <2>9. \A m \in Ids, b \in Bodies, o \in late' : o[2] = Wire(m, b) => Written(m, b)' /\ o[1] = m
    BY <2>1 DEF WireInv, Paste, kittens
  <2> HIDE DEF IInv
  <2>5. \A m \in shown : receipts[m] # None /\ pastes'[m] > 0 /\ Given(m)
    <3> SUFFICES ASSUME NEW m \in shown PROVE receipts[m] # None /\ pastes'[m] > 0 /\ Given(m)
      OBVIOUS
    <3>1. m \in Ids /\ pastes[m] \in Nat
      BY DEF IInv, TypeOK
    <3>2. receipts[m] # None /\ pastes[m] > 0 /\ Given(m)
      BY DEF IInv, WireInv
    <3> QED BY <3>1, <3>2, <1>effect
  <2>6. SubmittedIsTrue'
    BY DEF IInv, WireInv, SubmittedIsTrue, Paste
  <2>7. \A m \in shown' : receipts'[m] # None /\ pastes'[m] > 0 /\ Given(m)'
    BY <2>5 DEF Given, Paste
  <2>8. \A q \in Callers : pc'[q] = "confirm" => Given(msg[q])'
    BY <1>call DEF IInv, WireInv, Given, Paste, call
  <2> QED BY <2>3, <2>4, <2>6, <2>7, <2>8, <2>9 DEF WireInv, Paste, call
<1>once. OnceInv'
  <2>1. \A i, j \in DOMAIN pending' : pending'[i] \in Wires /\ pending'[i] = pending'[j] => i = j
    BY <1>pending, <1>fresh DEF OnceInv
  <2>2. \A i \in DOMAIN pending', j \in DOMAIN composer : pending'[i] \in Wires => pending'[i] # composer[j]
    BY <1>pending, <1>fresh DEF OnceInv
  <2>3. \A o \in late, i \in DOMAIN pending' : o[2] \in Wires => pending'[i] # o[2]
    BY <1>pending, <1>fresh DEF OnceInv
  <2> QED BY <2>1, <2>2, <2>3 DEF OnceInv, Paste, kittens
<1>calm. CalmInv'
  <2>1. UNCHANGED <<orphans, composer, turns, human, resumed, msg, body>>
    BY DEF Paste, kittens, call
  <2> SUFFICES ASSUME Calm PROVE CalmInv'
    BY <2>1 DEF CalmInv, Calm
  <2>2. ASSUME NEW i \in DOMAIN pending', pending'[i] \in {Enter, Tab}
        PROVE  Single(composer) /\ \A j \in DOMAIN pending' : j < i => pending'[j] \in orphans
    BY <2>2, <1>input, <1>pending DEF CalmInv
  <2>3. \A i \in DOMAIN pending' : Len(pending) + 1 >= i /\ Len(pending) + 1 \in DOMAIN pending'
    BY <1>pending
  <2>4. \A q \in Callers : pc'[q] \in {"idle", "drafted"} /\ (pc'[q] = "drafted" => q = p)
    BY <1>call, <1>alone
  <2> QED BY <2>1, <2>2, <2>3, <2>4, <1>pending DEF CalmInv, Single, MyWire
<1> QED BY <1>types, <1>calls, <1>records, <1>counts, <1>wires, <1>once, <1>calm

LEMMA KeepPress ==
    ASSUME IInv, NEW p \in Callers, Press(p)
    PROVE  IInv'
<1> USE DEF IInv
<1>call. /\ pc' \in [Callers -> Steps]
         /\ pc'[p] = "submitted"
         /\ \A q \in Callers : q # p => pc'[q] = pc[q]
  BY GotoFacts DEF Press, Steps
<1>alone. msg[p] \in Ids /\ body[p] \in Bodies /\ (\A q \in Callers : q # p => pc[q] = "idle")
  BY Alone DEF CallInv, Press, Recorded, Steps
<1>effect. /\ keys' \in [Ids -> Nat]
           /\ keys[msg[p]] = 0 /\ keys'[msg[p]] = 1
           /\ \A m \in Ids : m # msg[p] => keys'[m] = keys[m]
  BY <1>alone DEF Press, TypeOK, CountInv
<1>input. Key(p) \in {Enter, Tab} /\ Key(p) \notin Wires
  BY DeliveryAssumption DEF Key, Wire, Wires, Fragments
<1>pending. /\ pending' \in Seq(Fragments \cup {Enter, Tab})
            /\ Len(pending') = Len(pending) + 1 /\ Len(pending) \in Nat
            /\ DOMAIN pending = 1..Len(pending)
            /\ DOMAIN pending' = 1..(Len(pending) + 1)
            /\ pending'[Len(pending) + 1] = Key(p)
            /\ \A i \in DOMAIN pending : pending'[i] = pending[i]
  BY <1>input, AppendFacts DEF Press, TypeOK
<1>types. TypeOK'
  BY <1>call, <1>effect, <1>pending DEF TypeOK, Press, call, kittens
<1>calls. CallInv'
  BY <1>call, <1>alone DEF TypeOK, CallInv, Press, world, kittens, call, count
<1>records. RecordInv'
  BY <1>call, <1>alone DEF CallInv, RecordInv, MyReceipt, Press, world, kittens, call, count, Recorded, Steps
<1>counts. CountInv'
  BY <1>call, <1>effect, <1>alone DEF CountInv, RecordInv, MyReceipt, Press, Recorded, Steps, call
<1>wires. WireInv'
  <2>1. \A m \in Ids, b \in Bodies, i \in DOMAIN pending' : pending'[i] = Wire(m, b) => Written(m, b)
    <3>1. \A m \in Ids, b \in Bodies : Wire(m, b) \in Wires
      BY DEF Wires
    <3> QED BY <3>1, <1>input, <1>pending DEF WireInv
  <2>2. \A q \in Callers : pc'[q] = "confirm" => pc[q] = "confirm"
    BY <1>call
  <2> QED BY <2>1, <2>2 DEF WireInv, SubmittedIsTrue, Written, Given, Press, call, kittens
<1>once. OnceInv'
  <2>1. \A i, j \in DOMAIN pending' : pending'[i] \in Wires /\ pending'[i] = pending'[j] => i = j
    BY <1>pending, <1>input DEF OnceInv
  <2>2. \A i \in DOMAIN pending', j \in DOMAIN composer : pending'[i] \in Wires => pending'[i] # composer[j]
    BY <1>pending, <1>input DEF OnceInv
  <2>3. \A o \in late, i \in DOMAIN pending' : o[2] \in Wires => pending'[i] # o[2]
    BY <1>pending, <1>input DEF OnceInv
  <2> QED BY <2>1, <2>2, <2>3 DEF OnceInv, Press, kittens
<1>calm. CalmInv'
  <2>1. UNCHANGED <<orphans, composer, turns, human, resumed>>
    BY DEF Press, kittens
  <2> SUFFICES ASSUME Calm PROVE CalmInv'
    BY <2>1 DEF CalmInv, Calm
  <2>2. Single(composer) /\ \A i \in DOMAIN pending : pending[i] \in orphans
    BY DEF CalmInv, Press
  <2>3. \A i, j \in DOMAIN pending' : j < i => j \in DOMAIN pending /\ pending'[j] = pending[j]
    BY <1>pending
  <2>4. \A q \in Callers : pc'[q] \in {"idle", "submitted"}
    BY <1>call, <1>alone
  <2> QED BY <2>1, <2>2, <2>3, <2>4 DEF CalmInv, Single
<1> QED BY <1>types, <1>calls, <1>records, <1>counts, <1>wires, <1>once, <1>calm

LEMMA KeepSeeDraft ==
    ASSUME IInv, NEW p \in Callers, SeeDraft(p)
    PROVE  IInv'
<1> USE DEF IInv
<1>call. /\ pc' \in [Callers -> Steps]
         /\ \/ pc[p] = "drafted" /\ pc'[p] = "recheck"
            \/ pc[p] = "recheck" /\ pc'[p] = "arm"
            \/ pc[p] = "recheckStaged" /\ pc'[p] = "key"
         /\ \A q \in Callers : q # p => pc'[q] = pc[q]
  BY GotoFacts DEF SeeDraft, Steps
<1>alone. msg[p] \in Ids /\ body[p] \in Bodies /\ (\A q \in Callers : q # p => pc[q] = "idle")
  BY Alone DEF CallInv, SeeDraft, Recorded, Steps
<1>types. TypeOK'
  BY <1>call, <1>alone DEF TypeOK, SeeDraft, Matches, world, kittens, call, count
<1>calls. CallInv'
  BY <1>call, <1>alone DEF TypeOK, CallInv, SeeDraft, Matches, world, kittens, call, count
<1>records. RecordInv'
  BY <1>call, <1>alone DEF RecordInv, MyReceipt, SeeDraft, Recorded, Steps, world, kittens, call
<1>counts. CountInv'
  BY <1>call, <1>alone DEF CallInv, RecordInv, CountInv, MyReceipt, Final, SeeDraft, Matches, world, kittens, call, count, Recorded, Steps
<1>wires. WireInv'
  BY <1>call, <1>alone DEF WireInv, SubmittedIsTrue, Written, Given, SeeDraft, Matches, world, kittens, call, count
<1>once. OnceInv'
  BY <1>call, <1>alone DEF OnceInv, SeeDraft, Matches, world, kittens, call, count
<1>calm. CalmInv'
  <2>0. UNCHANGED <<orphans, composer, turns, human, resumed, pending, msg, body>>
    BY DEF SeeDraft, world, kittens, call, count
  <2> SUFFICES ASSUME Calm PROVE CalmInv'
    BY <2>0 DEF CalmInv, Calm
  <2>1. \A i \in DOMAIN pending : pending[i] # MyWire(p)
    <3>1. composer[1] = MyWire(p) /\ 1 \in DOMAIN composer /\ MyWire(p) \in Wires
      BY <1>alone DEF SeeDraft, Matches, MyWire, Wires
    <3> QED BY <3>1 DEF OnceInv
  <2>2. \A i \in DOMAIN pending : pending[i] \in orphans
    BY <2>1, <1>call DEF CalmInv
  <2>3. Single(composer)
    BY DEF SeeDraft, Matches, Single
  <2>4. \A q \in Callers : q # p => pc'[q] = "idle"
    BY <1>call, <1>alone
  <2>5. pc'[p] \in {"recheck", "arm"}
    BY <1>call DEF CalmInv
  <2>6. \A t \in turns : Single(t)
    BY DEF CalmInv
  <2> QED BY <2>0, <2>2, <2>3, <2>4, <2>5, <2>6 DEF CalmInv, Single
<1> QED BY <1>types, <1>calls, <1>records, <1>counts, <1>wires, <1>once, <1>calm

LEMMA KeepArm ==
    ASSUME IInv, NEW p \in Callers, Arm(p)
    PROVE  IInv'
<1> USE DEF IInv
<1>call. /\ pc' \in [Callers -> Steps]
         /\ \/ pc[p] = "arm" /\ pc'[p] = "key"
            \/ pc[p] = "armStaged" /\ pc'[p] = "recheckStaged"
         /\ \A q \in Callers : q # p => pc'[q] = pc[q]
  BY GotoFacts DEF Arm, Steps
<1>alone. msg[p] \in Ids /\ body[p] \in Bodies /\ (\A q \in Callers : q # p => pc[q] = "idle")
  BY Alone DEF CallInv, Arm, Recorded, Steps
<1>effect. /\ receipts' \in [Ids -> Receipt \cup {None}]
           /\ receipts'[msg[p]] # None
           /\ receipts'[msg[p]].digest = MyReceipt(p).digest
           /\ receipts'[msg[p]].phase = "submitting"
           /\ \A m \in Ids : m # msg[p] => receipts'[m] = receipts[m]
  <2> DEFINE r == [MyReceipt(p) EXCEPT !.phase = "submitting"]
  <2>0. MyReceipt(p) \in Receipt
    <3>1. MyReceipt(p) # None
      BY <1>alone, <1>call DEF Arm, RecordInv, Recorded, Steps, MyReceipt
    <3>2. MyReceipt(p) \in Receipt \cup {None}
      BY <1>alone, <1>call DEF TypeOK, MyReceipt
    <3> QED BY <3>1, <3>2
  <2>1. r \in Receipt /\ r.digest = MyReceipt(p).digest /\ r.phase = "submitting"
    BY <2>0 DEF Receipt, Phases, Final, FinalPhase
  <2>2. Save(p, r)
    BY DEF Arm, SavePhase, Close, FinalPhase
  <2> HIDE DEF r
  <2> QED BY <1>alone, <2>1, <2>2, SaveFacts, DeliveryAssumption
<1>types. TypeOK'
  BY <1>call, <1>effect, <1>alone DEF TypeOK, Arm, world, kittens, call, count
<1>calls. CallInv'
  BY <1>call, <1>effect, <1>alone DEF TypeOK, CallInv, Arm, world, kittens, call, count
<1>records. RecordInv'
  BY <1>call, <1>effect, <1>alone DEF RecordInv, CallInv, MyReceipt, Arm, Recorded, Steps, call, Final
<1>counts. CountInv'
  BY <1>call, <1>effect, <1>alone DEF RecordInv, CountInv, CallInv, MyReceipt, Arm, Recorded, Steps, call, count, Final, FinalPhase
<1>wires. WireInv'
  <2>1. \A m \in Ids : receipts[m] # None => receipts'[m] # None /\ receipts'[m].digest = receipts[m].digest
    BY <1>effect, <1>alone DEF RecordInv, MyReceipt, Arm
  <2>2. \A m \in Ids, b \in Bodies : Written(m, b) => Written(m, b)'
    BY <2>1 DEF Written, Arm, world, kittens, count
  <2>3. \A m \in Ids : receipts[m] # None /\ Given(m) => Given(m)'
    BY <2>1 DEF Given, Arm, world, kittens
  <2>4. \A m \in Ids, b \in Bodies :
          /\ \A i \in DOMAIN pending' : pending'[i] = Wire(m, b) => Written(m, b)'
          /\ \A i \in DOMAIN composer' : composer'[i] = Wire(m, b) => Written(m, b)'
          /\ \A o \in late' : o[2] = Wire(m, b) => Written(m, b)' /\ o[1] = m
    BY <2>2 DEF WireInv, Arm, world, kittens
  <2>5. \A m \in shown' : receipts'[m] # None /\ pastes'[m] > 0 /\ Given(m)'
    BY <2>1, <2>3 DEF WireInv, TypeOK, Arm, world, kittens, count
  <2>6. \A q \in Callers : pc'[q] # "confirm"
    BY <1>call, <1>alone
  <2>7. SubmittedIsTrue'
    <3> SUFFICES ASSUME NEW m \in Ids, receipts'[m] # None, receipts'[m].phase \in Final
                 PROVE  Given(m)'
      BY DEF SubmittedIsTrue, Given
    <3>1. CASE m = msg[p]
      BY <3>1, <1>effect, <1>alone, <2>3 DEF Arm, Final, WireInv, RecordInv, Recorded, Steps, MyReceipt
    <3>2. CASE m # msg[p]
      <4>1. receipts[m] # None /\ receipts[m].phase \in Final
        BY <3>2, <1>effect
      <4>2. Given(m)
        BY <4>1 DEF WireInv, SubmittedIsTrue, Given
      <4> QED BY <4>1, <4>2, <2>3
    <3> QED BY <3>1, <3>2
  <2> QED BY <2>4, <2>5, <2>6, <2>7 DEF WireInv
<1>once. OnceInv'
  BY <1>call, <1>effect, <1>alone DEF OnceInv, Arm, world, kittens, call, count
<1>calm. CalmInv'
  BY <1>call, <1>alone DEF CalmInv, Calm, Single, MyWire, Arm, world, kittens, call, count
<1> QED BY <1>types, <1>calls, <1>records, <1>counts, <1>wires, <1>once, <1>calm

LEMMA KeepSeeSubmitted ==
    ASSUME IInv, NEW p \in Callers, SeeSubmitted(p)
    PROVE  IInv'
<1> USE DEF IInv
<1>call. /\ pc' \in [Callers -> Steps]
         /\ pc'[p] = "confirm"
         /\ \A q \in Callers : q # p => pc'[q] = pc[q]
  BY GotoFacts DEF SeeSubmitted, Steps
<1>alone. msg[p] \in Ids /\ body[p] \in Bodies /\ (\A q \in Callers : q # p => pc[q] = "idle")
  BY Alone DEF CallInv, SeeSubmitted, Recorded, Steps
<1>types. TypeOK'
  BY <1>call, <1>alone DEF TypeOK, SeeSubmitted, world, kittens, call, count
<1>calls. CallInv'
  BY <1>call, <1>alone DEF TypeOK, CallInv, SeeSubmitted, world, kittens, call, count
<1>records. RecordInv'
  BY <1>call, <1>alone DEF RecordInv, MyReceipt, SeeSubmitted, Recorded, Steps, world, kittens, call, Final
<1>counts. CountInv'
  BY <1>call, <1>alone DEF CallInv, RecordInv, CountInv, MyReceipt, Final, SeeSubmitted, world, kittens, call, count, Recorded, Steps
<1>wires. WireInv'
  BY <1>call, <1>alone DEF WireInv, SubmittedIsTrue, Written, Given, SeeSubmitted, Submitted, world, kittens, call, count
<1>once. OnceInv'
  BY <1>call, <1>alone DEF OnceInv, SeeSubmitted, world, kittens, call, count
<1>calm. CalmInv'
  BY <1>call, <1>alone DEF CalmInv, Calm, Single, CallInv, MyWire, SeeSubmitted, world, kittens, call, count
<1> QED BY <1>types, <1>calls, <1>records, <1>counts, <1>wires, <1>once, <1>calm

LEMMA KeepConfirm ==
    ASSUME IInv, NEW p \in Callers, Confirm(p)
    PROVE  IInv'
<1> USE DEF IInv
<1>call. /\ pc' \in [Callers -> Steps]
         /\ msg' \in [Callers -> Ids \cup {None}]
         /\ body' \in [Callers -> Bodies \cup {None}]
         /\ staged' \in [Callers -> BOOLEAN]
         /\ identity' \in [Callers -> Nat \cup {None}]
         /\ lock' \in Callers \cup {None}
         /\ pc'[p] = "idle"
         /\ \A q \in Callers : q # p =>
                /\ pc'[q] = pc[q] /\ msg'[q] = msg[q] /\ body'[q] = body[q]
                /\ staged'[q] = staged[q] /\ identity'[q] = identity[q]
                /\ lock = q => lock' = q
  BY AnswerFacts DEF Confirm
<1>alone. msg[p] \in Ids /\ body[p] \in Bodies /\ (\A q \in Callers : q # p => pc[q] = "idle")
  BY Alone DEF CallInv, Confirm, Recorded, Steps
<1>effect. /\ receipts' \in [Ids -> Receipt \cup {None}]
           /\ receipts'[msg[p]] # None
           /\ receipts'[msg[p]].digest = MyReceipt(p).digest
           /\ receipts'[msg[p]].phase = FinalPhase(p)
           /\ \A m \in Ids : m # msg[p] => receipts'[m] = receipts[m]
  <2> DEFINE r == [MyReceipt(p) EXCEPT !.phase = FinalPhase(p)]
  <2>0. MyReceipt(p) \in Receipt
    <3>1. pc[p] = "confirm" /\ pc[p] \in Recorded
      BY DEF Confirm, Recorded, Steps
    <3>2. MyReceipt(p) # None
      BY <3>1 DEF RecordInv
    <3> QED BY <1>alone, <3>2 DEF TypeOK, MyReceipt
  <2>1. r \in Receipt /\ r.digest = MyReceipt(p).digest /\ r.phase = FinalPhase(p)
    BY <2>0 DEF Receipt, Phases, Final, FinalPhase
  <2>2. Save(p, r)
    BY DEF Confirm, SavePhase, Close, FinalPhase
  <2> HIDE DEF r
  <2> QED BY <1>alone, <2>1, <2>2, SaveFacts, DeliveryAssumption
<1>types. TypeOK'
  BY <1>call, <1>effect, <1>alone DEF TypeOK, Confirm, world, kittens, call, count
<1>calls. CallInv'
  BY <1>call, <1>effect, <1>alone DEF TypeOK, CallInv, Confirm, world, kittens, call, count
<1>records. RecordInv'
  BY <1>call, <1>effect, <1>alone DEF RecordInv, CallInv, MyReceipt, Confirm, Recorded, Steps, call, Final
<1>counts. CountInv'
  BY <1>call, <1>effect, <1>alone DEF RecordInv, CountInv, CallInv, MyReceipt, Confirm, Recorded, Steps, call, count, Final, FinalPhase
<1>wires. WireInv'
  <2>1. \A m \in Ids : receipts[m] # None => receipts'[m] # None /\ receipts'[m].digest = receipts[m].digest
    BY <1>effect, <1>alone DEF RecordInv, MyReceipt, Confirm
  <2>2. \A m \in Ids, b \in Bodies : Written(m, b) => Written(m, b)'
    BY <2>1 DEF Written, Confirm, world, kittens, count
  <2>3. \A m \in Ids : receipts[m] # None /\ Given(m) => Given(m)'
    BY <2>1 DEF Given, Confirm, world, kittens
  <2>4. \A m \in Ids, b \in Bodies :
          /\ \A i \in DOMAIN pending' : pending'[i] = Wire(m, b) => Written(m, b)'
          /\ \A i \in DOMAIN composer' : composer'[i] = Wire(m, b) => Written(m, b)'
          /\ \A o \in late' : o[2] = Wire(m, b) => Written(m, b)' /\ o[1] = m
    BY <2>2 DEF WireInv, Confirm, world, kittens
  <2>5. \A m \in shown' : receipts'[m] # None /\ pastes'[m] > 0 /\ Given(m)'
    BY <2>1, <2>3 DEF WireInv, TypeOK, Confirm, world, kittens, count
  <2>6. \A q \in Callers : pc'[q] # "confirm"
    BY <1>call, <1>alone
  <2>7. SubmittedIsTrue'
    <3> SUFFICES ASSUME NEW m \in Ids, receipts'[m] # None, receipts'[m].phase \in Final
                 PROVE  Given(m)'
      BY DEF SubmittedIsTrue, Given
    <3>1. CASE m = msg[p]
      BY <3>1, <1>effect, <1>alone, <2>3 DEF Confirm, Final, WireInv, RecordInv, Recorded, Steps, MyReceipt
    <3>2. CASE m # msg[p]
      <4>1. receipts[m] # None /\ receipts[m].phase \in Final
        BY <3>2, <1>effect
      <4>2. Given(m)
        BY <4>1 DEF WireInv, SubmittedIsTrue, Given
      <4> QED BY <4>1, <4>2, <2>3
    <3> QED BY <3>1, <3>2
  <2> QED BY <2>4, <2>5, <2>6, <2>7 DEF WireInv
<1>once. OnceInv'
  BY <1>call, <1>effect, <1>alone DEF OnceInv, Confirm, world, kittens, call, count
<1>calm. CalmInv'
  BY <1>call, <1>effect, <1>alone DEF CalmInv, Calm, Single, CallInv, MyWire, Confirm, world, kittens, call, count
<1> QED BY <1>types, <1>calls, <1>records, <1>counts, <1>wires, <1>once, <1>calm

LEMMA KeepGiveUpQuiet ==
    ASSUME IInv, NEW p \in Callers, GiveUpQuiet(p)
    PROVE  IInv'
<1> USE DEF IInv
<1>call. /\ pc' \in [Callers -> Steps]
         /\ msg' \in [Callers -> Ids \cup {None}]
         /\ body' \in [Callers -> Bodies \cup {None}]
         /\ staged' \in [Callers -> BOOLEAN]
         /\ identity' \in [Callers -> Nat \cup {None}]
         /\ lock' \in Callers \cup {None}
         /\ pc'[p] = "idle"
         /\ \A q \in Callers : q # p =>
                /\ pc'[q] = pc[q] /\ msg'[q] = msg[q] /\ body'[q] = body[q]
                /\ staged'[q] = staged[q] /\ identity'[q] = identity[q]
                /\ lock = q => lock' = q
  BY AnswerFacts DEF GiveUpQuiet
<1>types. TypeOK'
  BY <1>call DEF TypeOK, GiveUpQuiet, world, kittens, call, count
<1>calls. CallInv'
  BY <1>call DEF TypeOK, CallInv, GiveUpQuiet, world, kittens, call, count
<1>records. RecordInv'
  BY <1>call DEF CallInv, RecordInv, MyReceipt, GiveUpQuiet, world, kittens, call, count, Recorded, Steps
<1>counts. CountInv'
  BY <1>call DEF CallInv, RecordInv, CountInv, MyReceipt, Final, GiveUpQuiet, world, kittens, call, count, Recorded, Steps
<1>wires. WireInv'
  BY <1>call DEF WireInv, SubmittedIsTrue, Written, Given, GiveUpQuiet, world, kittens, call, count
<1>once. OnceInv'
  BY <1>call DEF OnceInv, GiveUpQuiet, world, kittens, call, count
<1>calm. CalmInv'
  BY <1>call DEF CalmInv, Calm, Single, CallInv, MyWire, GiveUpQuiet, world, kittens, call, count
<1> QED BY <1>types, <1>calls, <1>records, <1>counts, <1>wires, <1>once, <1>calm

LEMMA KeepGiveUpIntend ==
    ASSUME IInv, NEW p \in Callers, GiveUpIntend(p)
    PROVE  IInv'
<1> USE DEF IInv
<1>call. /\ pc' \in [Callers -> Steps]
         /\ msg' \in [Callers -> Ids \cup {None}]
         /\ body' \in [Callers -> Bodies \cup {None}]
         /\ staged' \in [Callers -> BOOLEAN]
         /\ identity' \in [Callers -> Nat \cup {None}]
         /\ lock' \in Callers \cup {None}
         /\ pc'[p] = "idle"
         /\ \A q \in Callers : q # p =>
                /\ pc'[q] = pc[q] /\ msg'[q] = msg[q] /\ body'[q] = body[q]
                /\ staged'[q] = staged[q] /\ identity'[q] = identity[q]
                /\ lock = q => lock' = q
  BY AnswerFacts DEF GiveUpIntend
<1>alone. msg[p] \in Ids /\ body[p] \in Bodies /\ (\A q \in Callers : q # p => pc[q] = "idle")
  BY Alone DEF CallInv, GiveUpIntend, Recorded, Steps
<1>effect. /\ receipts' \in [Ids -> Receipt \cup {None}]
           /\ receipts'[msg[p]] # None
           /\ receipts'[msg[p]].digest = body[p]
           /\ receipts'[msg[p]].phase = "pasting"
           /\ \A m \in Ids : m # msg[p] => receipts'[m] = receipts[m]
  <2> DEFINE r == [digest |-> body[p], phase |-> "pasting", process |-> identity[p]]
  <2>1. r \in Receipt /\ r.digest = body[p] /\ r.phase = "pasting"
    BY <1>alone, <1>call DEF GiveUpIntend, TypeOK, CallInv, RecordInv, Receipt, Phases, Final, Recorded, Steps, MyReceipt
  <2>2. Save(p, r)
    BY DEF GiveUpIntend, SavePhase, Close, FinalPhase
  <2> HIDE DEF r
  <2> QED BY <1>alone, <2>1, <2>2, SaveFacts, DeliveryAssumption
<1>types. TypeOK'
  BY <1>call, <1>effect, <1>alone DEF TypeOK, GiveUpIntend, world, kittens, call, count
<1>calls. CallInv'
  BY <1>call, <1>alone DEF CallInv
<1>records. RecordInv'
  BY <1>call, <1>effect, <1>alone DEF RecordInv, CallInv, MyReceipt, GiveUpIntend, Recorded, Steps, call, Final
<1>counts. CountInv'
  BY <1>call, <1>effect, <1>alone DEF RecordInv, CountInv, CallInv, MyReceipt, GiveUpIntend, Recorded, Steps, call, count, Final, FinalPhase
<1>wires. WireInv'
  <2>1. \A m \in Ids : receipts[m] # None => receipts'[m] # None /\ receipts'[m].digest = receipts[m].digest
    BY <1>effect, <1>alone DEF RecordInv, MyReceipt, GiveUpIntend
  <2>2. \A m \in Ids, b \in Bodies : Written(m, b) => Written(m, b)'
    BY <2>1 DEF Written, GiveUpIntend, world, kittens, count
  <2>3. \A m \in Ids : receipts[m] # None /\ Given(m) => Given(m)'
    BY <2>1 DEF Given, GiveUpIntend, world, kittens
  <2>4. \A m \in Ids, b \in Bodies :
          /\ \A i \in DOMAIN pending' : pending'[i] = Wire(m, b) => Written(m, b)'
          /\ \A i \in DOMAIN composer' : composer'[i] = Wire(m, b) => Written(m, b)'
          /\ \A o \in late' : o[2] = Wire(m, b) => Written(m, b)' /\ o[1] = m
    BY <2>2 DEF WireInv, GiveUpIntend, world, kittens
  <2>5. \A m \in shown' : receipts'[m] # None /\ pastes'[m] > 0 /\ Given(m)'
    BY <2>1, <2>3 DEF WireInv, TypeOK, GiveUpIntend, world, kittens, count
  <2>6. \A q \in Callers : pc'[q] # "confirm"
    BY <1>call, <1>alone
  <2>7. SubmittedIsTrue'
    <3> SUFFICES ASSUME NEW m \in Ids, receipts'[m] # None, receipts'[m].phase \in Final
                 PROVE  Given(m)'
      BY DEF SubmittedIsTrue, Given
    <3>1. CASE m = msg[p]
      BY <3>1, <1>effect, <1>alone, <2>3 DEF GiveUpIntend, Final, WireInv, RecordInv, Recorded, Steps, MyReceipt
    <3>2. CASE m # msg[p]
      <4>1. receipts[m] # None /\ receipts[m].phase \in Final
        BY <3>2, <1>effect
      <4>2. Given(m)
        BY <4>1 DEF WireInv, SubmittedIsTrue, Given
      <4> QED BY <4>1, <4>2, <2>3
    <3> QED BY <3>1, <3>2
  <2> QED BY <2>4, <2>5, <2>6, <2>7 DEF WireInv
<1>once. OnceInv'
  BY <1>call, <1>effect, <1>alone DEF OnceInv, GiveUpIntend, world, kittens, call, count
<1>calm. CalmInv'
  BY <1>call, <1>effect, <1>alone DEF CalmInv, Calm, Single, CallInv, MyWire, GiveUpIntend, world, kittens, call, count
<1> QED BY <1>types, <1>calls, <1>records, <1>counts, <1>wires, <1>once, <1>calm

LEMMA KeepGiveUpArm ==
    ASSUME IInv, NEW p \in Callers, GiveUpArm(p)
    PROVE  IInv'
<1> USE DEF IInv
<1>call. /\ pc' \in [Callers -> Steps]
         /\ msg' \in [Callers -> Ids \cup {None}]
         /\ body' \in [Callers -> Bodies \cup {None}]
         /\ staged' \in [Callers -> BOOLEAN]
         /\ identity' \in [Callers -> Nat \cup {None}]
         /\ lock' \in Callers \cup {None}
         /\ pc'[p] = "idle"
         /\ \A q \in Callers : q # p =>
                /\ pc'[q] = pc[q] /\ msg'[q] = msg[q] /\ body'[q] = body[q]
                /\ staged'[q] = staged[q] /\ identity'[q] = identity[q]
                /\ lock = q => lock' = q
  BY AnswerFacts DEF GiveUpArm
<1>alone. msg[p] \in Ids /\ body[p] \in Bodies /\ (\A q \in Callers : q # p => pc[q] = "idle")
  BY Alone DEF CallInv, GiveUpArm, Recorded, Steps
<1>effect. /\ receipts' \in [Ids -> Receipt \cup {None}]
           /\ receipts'[msg[p]] # None
           /\ receipts'[msg[p]].digest = MyReceipt(p).digest
           /\ receipts'[msg[p]].phase = "submitting"
           /\ \A m \in Ids : m # msg[p] => receipts'[m] = receipts[m]
  <2> DEFINE r == [MyReceipt(p) EXCEPT !.phase = "submitting"]
  <2>0. MyReceipt(p) \in Receipt
    <3>1. pc[p] \in {"arm", "armStaged"} /\ pc[p] \in Recorded
      BY DEF GiveUpArm, Recorded, Steps
    <3>2. MyReceipt(p) # None
      BY <3>1 DEF RecordInv
    <3> QED BY <1>alone, <3>2 DEF TypeOK, MyReceipt
  <2>1. r \in Receipt /\ r.digest = MyReceipt(p).digest /\ r.phase = "submitting"
    BY <2>0 DEF Receipt, Phases, Final, FinalPhase
  <2>2. Save(p, r)
    BY DEF GiveUpArm, SavePhase, Close, FinalPhase
  <2> HIDE DEF r
  <2> QED BY <1>alone, <2>1, <2>2, SaveFacts, DeliveryAssumption
<1>types. TypeOK'
  BY <1>call, <1>effect, <1>alone DEF TypeOK, GiveUpArm, world, kittens, call, count
<1>calls. CallInv'
  BY <1>call, <1>effect, <1>alone DEF TypeOK, CallInv, GiveUpArm, world, kittens, call, count
<1>records. RecordInv'
  BY <1>call, <1>effect, <1>alone DEF RecordInv, CallInv, MyReceipt, GiveUpArm, Recorded, Steps, call, Final
<1>counts. CountInv'
  BY <1>call, <1>effect, <1>alone DEF RecordInv, CountInv, CallInv, MyReceipt, GiveUpArm, Recorded, Steps, call, count, Final, FinalPhase
<1>wires. WireInv'
  <2>1. \A m \in Ids : receipts[m] # None => receipts'[m] # None /\ receipts'[m].digest = receipts[m].digest
    BY <1>effect, <1>alone DEF RecordInv, MyReceipt, GiveUpArm
  <2>2. \A m \in Ids, b \in Bodies : Written(m, b) => Written(m, b)'
    BY <2>1 DEF Written, GiveUpArm, world, kittens, count
  <2>3. \A m \in Ids : receipts[m] # None /\ Given(m) => Given(m)'
    BY <2>1 DEF Given, GiveUpArm, world, kittens
  <2>4. \A m \in Ids, b \in Bodies :
          /\ \A i \in DOMAIN pending' : pending'[i] = Wire(m, b) => Written(m, b)'
          /\ \A i \in DOMAIN composer' : composer'[i] = Wire(m, b) => Written(m, b)'
          /\ \A o \in late' : o[2] = Wire(m, b) => Written(m, b)' /\ o[1] = m
    BY <2>2 DEF WireInv, GiveUpArm, world, kittens
  <2>5. \A m \in shown' : receipts'[m] # None /\ pastes'[m] > 0 /\ Given(m)'
    BY <2>1, <2>3 DEF WireInv, TypeOK, GiveUpArm, world, kittens, count
  <2>6. \A q \in Callers : pc'[q] # "confirm"
    BY <1>call, <1>alone
  <2>7. SubmittedIsTrue'
    <3> SUFFICES ASSUME NEW m \in Ids, receipts'[m] # None, receipts'[m].phase \in Final
                 PROVE  Given(m)'
      BY DEF SubmittedIsTrue, Given
    <3>1. CASE m = msg[p]
      BY <3>1, <1>effect, <1>alone, <2>3 DEF GiveUpArm, Final, WireInv, RecordInv, Recorded, Steps, MyReceipt
    <3>2. CASE m # msg[p]
      <4>1. receipts[m] # None /\ receipts[m].phase \in Final
        BY <3>2, <1>effect
      <4>2. Given(m)
        BY <4>1 DEF WireInv, SubmittedIsTrue, Given
      <4> QED BY <4>1, <4>2, <2>3
    <3> QED BY <3>1, <3>2
  <2> QED BY <2>4, <2>5, <2>6, <2>7 DEF WireInv
<1>once. OnceInv'
  BY <1>call, <1>effect, <1>alone DEF OnceInv, GiveUpArm, world, kittens, call, count
<1>calm. CalmInv'
  BY <1>call, <1>alone DEF CalmInv, Calm, Single, MyWire, GiveUpArm, world, kittens, call, count
<1> QED BY <1>types, <1>calls, <1>records, <1>counts, <1>wires, <1>once, <1>calm

LEMMA KeepGiveUpPaste ==
    ASSUME IInv, NEW p \in Callers, GiveUpPaste(p)
    PROVE  IInv'
<1> USE DEF IInv
<1>call. /\ pc' \in [Callers -> Steps]
         /\ msg' \in [Callers -> Ids \cup {None}]
         /\ body' \in [Callers -> Bodies \cup {None}]
         /\ staged' \in [Callers -> BOOLEAN]
         /\ identity' \in [Callers -> Nat \cup {None}]
         /\ lock' \in Callers \cup {None}
         /\ pc'[p] = "idle"
         /\ \A q \in Callers : q # p =>
                /\ pc'[q] = pc[q] /\ msg'[q] = msg[q] /\ body'[q] = body[q]
                /\ staged'[q] = staged[q] /\ identity'[q] = identity[q]
                /\ lock = q => lock' = q
  BY AnswerFacts DEF GiveUpPaste
<1>alone. msg[p] \in Ids /\ body[p] \in Bodies /\ (\A q \in Callers : q # p => pc[q] = "idle")
  BY Alone DEF CallInv, GiveUpPaste, Recorded, Steps
<1>effect. /\ pastes' \in [Ids -> Nat]
           /\ pastes[msg[p]] = 0 /\ pastes'[msg[p]] = 1
           /\ \A m \in Ids : m # msg[p] => pastes'[m] = pastes[m]
  BY <1>alone DEF GiveUpPaste, TypeOK, CountInv
<1>input. MyWire(p) \in Fragments /\ MyWire(p) \notin {Enter, Tab}
  BY <1>alone, DeliveryAssumption DEF MyWire, Wire, Fragments
<1>pending. /\ pending' \in Seq(Fragments \cup {Enter, Tab})
            /\ Len(pending') = Len(pending) + 1 /\ Len(pending) \in Nat
            /\ DOMAIN pending = 1..Len(pending)
            /\ DOMAIN pending' = 1..(Len(pending) + 1)
            /\ pending'[Len(pending) + 1] = MyWire(p)
            /\ \A i \in DOMAIN pending : pending'[i] = pending[i]
  BY <1>input, AppendFacts DEF GiveUpPaste, TypeOK
<1>fresh. /\ \A i \in DOMAIN pending : pending[i] # MyWire(p)
          /\ \A i \in DOMAIN composer : composer[i] # MyWire(p)
          /\ \A o \in late : o[2] # MyWire(p)
  BY <1>effect, <1>alone DEF WireInv, Written, MyWire
<1>types. TypeOK'
  BY <1>call, <1>effect, <1>pending DEF TypeOK, GiveUpPaste, call, kittens
<1>calls. CallInv'
  BY <1>call, <1>alone DEF TypeOK, CallInv, GiveUpPaste, world, kittens, call, count
<1>records. RecordInv'
  BY <1>call, <1>alone DEF CallInv, RecordInv, MyReceipt, GiveUpPaste, world, kittens, call, count, Recorded, Steps
<1>counts. CountInv'
  <2>1. /\ pc[p] = "pasting" /\ UNCHANGED <<receipts, keys, resumed>>
        /\ MyReceipt(p) # None /\ MyReceipt(p).phase = "pasting"
    BY DEF GiveUpPaste, RecordInv, Recorded, Steps
  <2>2. \A q \in Callers : pc'[q] = "idle"
    BY <1>call, <1>alone
  <2> QED BY <1>effect, <1>alone, <2>1, <2>2 DEF CountInv, MyReceipt, Recorded, Steps, Final
<1>wires. WireInv'
  <2>1. \A m \in Ids, b \in Bodies : Written(m, b) => Written(m, b)'
    BY <1>effect, <1>alone DEF Written, GiveUpPaste
  <2>2. receipts'[msg[p]] # None /\ receipts'[msg[p]].digest = body[p] /\ pastes'[msg[p]] > 0
    BY <1>effect, <1>alone DEF GiveUpPaste, RecordInv, MyReceipt, Recorded, Steps
  <2>3. ASSUME NEW m \in Ids, NEW b \in Bodies, NEW i \in DOMAIN pending', pending'[i] = Wire(m, b)
        PROVE  Written(m, b)'
    <3>1. CASE i \in DOMAIN pending
      BY <3>1, <2>1, <2>3, <1>pending DEF WireInv
    <3>2. CASE i = Len(pending) + 1
      <4>1. m = msg[p] /\ b = body[p]
        BY <3>2, <2>3, <1>pending DEF MyWire, Wire
      <4> QED BY <4>1, <2>2 DEF Written
    <3> QED BY <3>1, <3>2, <1>pending
  <2>4. ASSUME NEW m \in Ids, NEW b \in Bodies, NEW i \in DOMAIN composer', composer'[i] = Wire(m, b)
        PROVE  Written(m, b)'
    BY <2>1, <2>4 DEF WireInv, GiveUpPaste
  <2>9. \A m \in Ids, b \in Bodies, o \in late' : o[2] = Wire(m, b) => Written(m, b)' /\ o[1] = m
    BY <2>1 DEF WireInv, GiveUpPaste, kittens
  <2> HIDE DEF IInv
  <2>5. \A m \in shown : receipts[m] # None /\ pastes'[m] > 0 /\ Given(m)
    <3> SUFFICES ASSUME NEW m \in shown PROVE receipts[m] # None /\ pastes'[m] > 0 /\ Given(m)
      OBVIOUS
    <3>1. m \in Ids /\ pastes[m] \in Nat
      BY DEF IInv, TypeOK
    <3>2. receipts[m] # None /\ pastes[m] > 0 /\ Given(m)
      BY DEF IInv, WireInv
    <3> QED BY <3>1, <3>2, <1>effect
  <2>6. SubmittedIsTrue'
    BY DEF IInv, WireInv, SubmittedIsTrue, GiveUpPaste
  <2>7. \A m \in shown' : receipts'[m] # None /\ pastes'[m] > 0 /\ Given(m)'
    BY <2>5 DEF Given, GiveUpPaste
  <2>8. \A q \in Callers : pc'[q] = "confirm" => Given(msg[q])'
    BY <1>call DEF IInv, WireInv, Given, GiveUpPaste, call
  <2> QED BY <2>3, <2>4, <2>6, <2>7, <2>8, <2>9 DEF WireInv, GiveUpPaste, call
<1>once. OnceInv'
  <2>1. \A i, j \in DOMAIN pending' : pending'[i] \in Wires /\ pending'[i] = pending'[j] => i = j
    BY <1>pending, <1>fresh DEF OnceInv
  <2>2. \A i \in DOMAIN pending', j \in DOMAIN composer : pending'[i] \in Wires => pending'[i] # composer[j]
    BY <1>pending, <1>fresh DEF OnceInv
  <2>3. \A o \in late, i \in DOMAIN pending' : o[2] \in Wires => pending'[i] # o[2]
    BY <1>pending, <1>fresh DEF OnceInv
  <2> QED BY <2>1, <2>2, <2>3 DEF OnceInv, GiveUpPaste, kittens
<1>calm. CalmInv'
  <2>1. \A q \in Callers : pc'[q] = "idle"
    BY <1>call, <1>alone
  <2>3. UNCHANGED <<orphans, composer, turns, human, resumed>>
    BY DEF GiveUpPaste, kittens
  <2> SUFFICES ASSUME Calm PROVE CalmInv'
    BY <2>3 DEF CalmInv, Calm
  <2>2. ASSUME NEW i \in DOMAIN pending', pending'[i] \in {Enter, Tab}
        PROVE  Single(composer) /\ \A j \in DOMAIN pending' : j < i => pending'[j] \in orphans
    BY <2>2, <1>input, <1>pending DEF CalmInv
  <2> QED BY <2>1, <2>2, <2>3 DEF CalmInv, Single
<1> QED BY <1>types, <1>calls, <1>records, <1>counts, <1>wires, <1>once, <1>calm

LEMMA KeepGiveUpPress ==
    ASSUME IInv, NEW p \in Callers, GiveUpPress(p)
    PROVE  IInv'
<1> USE DEF IInv
<1>call. /\ pc' \in [Callers -> Steps]
         /\ msg' \in [Callers -> Ids \cup {None}]
         /\ body' \in [Callers -> Bodies \cup {None}]
         /\ staged' \in [Callers -> BOOLEAN]
         /\ identity' \in [Callers -> Nat \cup {None}]
         /\ lock' \in Callers \cup {None}
         /\ pc'[p] = "idle"
         /\ \A q \in Callers : q # p =>
                /\ pc'[q] = pc[q] /\ msg'[q] = msg[q] /\ body'[q] = body[q]
                /\ staged'[q] = staged[q] /\ identity'[q] = identity[q]
                /\ lock = q => lock' = q
  BY AnswerFacts DEF GiveUpPress
<1>alone. msg[p] \in Ids /\ body[p] \in Bodies /\ (\A q \in Callers : q # p => pc[q] = "idle")
  BY Alone DEF CallInv, GiveUpPress, Recorded, Steps
<1>effect. /\ keys' \in [Ids -> Nat]
           /\ keys[msg[p]] = 0 /\ keys'[msg[p]] = 1
           /\ \A m \in Ids : m # msg[p] => keys'[m] = keys[m]
  BY <1>alone DEF GiveUpPress, TypeOK, CountInv
<1>input. Key(p) \in {Enter, Tab} /\ Key(p) \notin Wires
  BY DeliveryAssumption DEF Key, Wire, Wires, Fragments
<1>pending. /\ pending' \in Seq(Fragments \cup {Enter, Tab})
            /\ Len(pending') = Len(pending) + 1 /\ Len(pending) \in Nat
            /\ DOMAIN pending = 1..Len(pending)
            /\ DOMAIN pending' = 1..(Len(pending) + 1)
            /\ pending'[Len(pending) + 1] = Key(p)
            /\ \A i \in DOMAIN pending : pending'[i] = pending[i]
  BY <1>input, AppendFacts DEF GiveUpPress, TypeOK
<1>types. TypeOK'
  BY <1>call, <1>effect, <1>pending DEF TypeOK, GiveUpPress, call, kittens
<1>calls. CallInv'
  BY <1>call, <1>alone DEF TypeOK, CallInv, GiveUpPress, world, kittens, call, count
<1>records. RecordInv'
  BY <1>call, <1>alone DEF CallInv, RecordInv, MyReceipt, GiveUpPress, world, kittens, call, count, Recorded, Steps
<1>counts. CountInv'
  <2>1. /\ pc[p] = "keying" /\ UNCHANGED <<receipts, pastes, resumed>>
        /\ MyReceipt(p) # None /\ MyReceipt(p).phase = "submitting"
    BY DEF GiveUpPress, RecordInv, Recorded, Steps
  <2>2. \A q \in Callers : pc'[q] = "idle"
    BY <1>call, <1>alone
  <2> QED BY <1>effect, <1>alone, <2>1, <2>2 DEF CountInv, MyReceipt, Recorded, Steps, Final
<1>wires. WireInv'
  <2>1. \A m \in Ids, b \in Bodies, i \in DOMAIN pending' : pending'[i] = Wire(m, b) => Written(m, b)
    <3>1. \A m \in Ids, b \in Bodies : Wire(m, b) \in Wires
      BY DEF Wires
    <3> QED BY <3>1, <1>input, <1>pending DEF WireInv
  <2>2. \A q \in Callers : pc'[q] # "confirm"
    BY <1>call, <1>alone
  <2> QED BY <2>1, <2>2 DEF WireInv, SubmittedIsTrue, Written, Given, GiveUpPress, call, kittens
<1>once. OnceInv'
  <2>1. \A i, j \in DOMAIN pending' : pending'[i] \in Wires /\ pending'[i] = pending'[j] => i = j
    BY <1>pending, <1>input DEF OnceInv
  <2>2. \A i \in DOMAIN pending', j \in DOMAIN composer : pending'[i] \in Wires => pending'[i] # composer[j]
    BY <1>pending, <1>input DEF OnceInv
  <2>3. \A o \in late, i \in DOMAIN pending' : o[2] \in Wires => pending'[i] # o[2]
    BY <1>pending, <1>input DEF OnceInv
  <2> QED BY <2>1, <2>2, <2>3 DEF OnceInv, GiveUpPress, kittens
<1>calm. CalmInv'
  <2>1. UNCHANGED <<orphans, composer, turns, human, resumed>>
    BY DEF GiveUpPress, kittens
  <2> SUFFICES ASSUME Calm PROVE CalmInv'
    BY <2>1 DEF CalmInv, Calm
  <2>2. Single(composer) /\ \A i \in DOMAIN pending : pending[i] \in orphans
    BY DEF CalmInv, GiveUpPress
  <2>3. \A i, j \in DOMAIN pending' : j < i => j \in DOMAIN pending /\ pending'[j] = pending[j]
    BY <1>pending
  <2>4. \A q \in Callers : pc'[q] \in {"idle", "submitted"}
    BY <1>call, <1>alone
  <2> QED BY <2>1, <2>2, <2>3, <2>4 DEF CalmInv, Single
<1> QED BY <1>types, <1>calls, <1>records, <1>counts, <1>wires, <1>once, <1>calm

(* A killed sender that leaves a kitten behind: its step is recorded, and only the late
   input is new in the world. *)
LEMMA KeepKilled ==
    ASSUME IInv, NEW p \in Callers, KilledPasting(p) \/ KilledKeying(p)
    PROVE  IInv'
<1> USE DEF IInv
<1>call. /\ pc' \in [Callers -> Steps]
         /\ msg' \in [Callers -> Ids \cup {None}]
         /\ body' \in [Callers -> Bodies \cup {None}]
         /\ staged' \in [Callers -> BOOLEAN]
         /\ identity' \in [Callers -> Nat \cup {None}]
         /\ lock' \in Callers \cup {None}
         /\ pc'[p] = "idle"
         /\ \A q \in Callers : q # p =>
                /\ pc'[q] = pc[q] /\ msg'[q] = msg[q] /\ body'[q] = body[q]
                /\ staged'[q] = staged[q] /\ identity'[q] = identity[q]
                /\ lock = q => lock' = q
  BY AnswerFacts DEF KilledPasting, KilledKeying
<1>step. /\ pc[p] \in {"pasting", "keying"} /\ pc[p] \in Recorded
         /\ UNCHANGED <<receipts, pending, agent, composer, shown, activity, human, turns, resumed>>
  BY DEF KilledPasting, KilledKeying, Outlived, Recorded, Steps
<1>alone. msg[p] \in Ids /\ body[p] \in Bodies /\ (\A q \in Callers : q # p => pc[q] = "idle")
  BY <1>step, Alone DEF CallInv
<1>recorded. receipts[msg[p]] # None /\ receipts[msg[p]].digest = body[p]
  BY <1>step DEF RecordInv, MyReceipt
<1>effect. /\ pastes' \in [Ids -> Nat] /\ keys' \in [Ids -> Nat]
           /\ \A m \in Ids : m # msg[p] => pastes'[m] = pastes[m] /\ keys'[m] = keys[m]
           /\ pc[p] = "pasting" => pastes[msg[p]] = 0 /\ pastes'[msg[p]] = 1 /\ keys' = keys
           /\ pc[p] = "keying" => keys[msg[p]] = 0 /\ keys'[msg[p]] = 1 /\ pastes' = pastes
  <2>1. /\ pastes \in [Ids -> Nat] /\ keys \in [Ids -> Nat]
        /\ pc[p] = "pasting" => pastes[msg[p]] = 0
        /\ pc[p] = "keying" => keys[msg[p]] = 0
    BY DEF TypeOK, CountInv
  <2>2. CASE KilledPasting(p)
    BY <1>alone, <2>1, <2>2 DEF KilledPasting
  <2>3. CASE KilledKeying(p)
    BY <1>alone, <2>1, <2>3 DEF KilledKeying
  <2> QED BY <2>2, <2>3
<1>input. PICK x \in Fragments \cup {Enter, Tab} :
            /\ late' = late \cup {<<msg[p], x>>} /\ orphans' = orphans \cup {x}
            /\ pc[p] = "pasting" => x = MyWire(p) /\ x \notin {Enter, Tab}
            /\ pc[p] = "keying" => x \in {Enter, Tab} /\ x \notin Wires
  <2>1. CASE KilledPasting(p)
    <3>1. MyWire(p) \in Fragments /\ MyWire(p) \notin {Enter, Tab}
      BY <1>alone, DeliveryAssumption DEF MyWire, Wire, Fragments
    <3> QED BY <2>1, <3>1 DEF KilledPasting, Outlived
  <2>2. CASE KilledKeying(p)
    <3>1. Key(p) \in {Enter, Tab} /\ Key(p) \notin Wires
      BY DeliveryAssumption DEF Key, Wire, Wires, Fragments
    <3> QED BY <2>2, <3>1 DEF KilledKeying, Outlived
  <2> QED BY <2>1, <2>2
<1>fresh. x \in Wires => /\ \A i \in DOMAIN pending : pending[i] # x
                         /\ \A i \in DOMAIN composer : composer[i] # x
                         /\ \A o \in late : o[2] # x
  BY <1>effect, <1>alone, <1>input, <1>step DEF WireInv, Written, MyWire
<1>types. TypeOK'
  BY <1>call, <1>effect, <1>input, <1>step, <1>alone DEF TypeOK
<1>calls. CallInv'
  BY <1>call, <1>alone DEF TypeOK, CallInv
<1>records. RecordInv'
  BY <1>call, <1>alone, <1>step DEF CallInv, RecordInv, MyReceipt, Recorded, Steps
<1>counts. CountInv'
  BY <1>call, <1>effect, <1>step, <1>alone DEF CountInv, RecordInv, MyReceipt, Recorded, Steps
<1>wires. WireInv'
  <2>0. \A m \in Ids : pastes[m] > 0 => pastes'[m] > 0
    BY <1>effect, <1>step, <1>alone
  <2>1. \A m \in Ids, b \in Bodies : Written(m, b) => Written(m, b)'
    BY <2>0, <1>step DEF Written
  <2>2. \A m \in Ids, b \in Bodies :
          /\ \A i \in DOMAIN pending' : pending'[i] = Wire(m, b) => Written(m, b)'
          /\ \A i \in DOMAIN composer' : composer'[i] = Wire(m, b) => Written(m, b)'
    BY <2>1, <1>step DEF WireInv
  <2>3. ASSUME NEW m \in Ids, NEW b \in Bodies, NEW o \in late', o[2] = Wire(m, b)
        PROVE  Written(m, b)' /\ o[1] = m
    <3>1. CASE o \in late
      BY <3>1, <2>1, <2>3 DEF WireInv
    <3>2. CASE o = <<msg[p], x>>
      <4>1. pc[p] = "pasting"
        BY <3>2, <2>3, <1>input, <1>step DEF Wires
      <4>2. m = msg[p] /\ b = body[p]
        BY <4>1, <3>2, <2>3, <1>input DEF MyWire, Wire
      <4> QED BY <4>1, <4>2, <3>2, <1>effect, <1>recorded, <1>step DEF Written
    <3> QED BY <3>1, <3>2, <1>input
  <2>4. \A m \in shown' : receipts'[m] # None /\ pastes'[m] > 0 /\ Given(m)'
    BY <2>0, <1>step DEF WireInv, Given, TypeOK
  <2>5. \A q \in Callers : pc'[q] # "confirm"
    BY <1>call, <1>alone
  <2>6. SubmittedIsTrue'
    BY <1>step DEF WireInv, SubmittedIsTrue
  <2> QED BY <2>2, <2>3, <2>4, <2>5, <2>6 DEF WireInv
<1>once. OnceInv'
  BY <1>input, <1>fresh, <1>step DEF OnceInv
<1>calm. CalmInv'
  <2>1. \A q \in Callers : pc'[q] = "idle"
    BY <1>call, <1>alone
  <2> SUFFICES ASSUME Calm PROVE CalmInv'
    BY <1>input, <1>step DEF CalmInv, Calm
  <2> QED BY <2>1, <1>input, <1>step DEF CalmInv, Single
<1> QED BY <1>types, <1>calls, <1>records, <1>counts, <1>wires, <1>once, <1>calm

LEMMA KeepDeliver ==
    ASSUME IInv, NEW p \in Callers, NEW m \in Ids, NEW b \in Bodies, NEW finish \in BOOLEAN,
           Deliver(p, m, b, finish)
    PROVE  IInv'
<1> USE DEF IInv
<1>1. /\ pc' \in [Callers -> Steps]
      /\ pc[p] = "idle" /\ pc'[p] = "look"
      /\ msg' \in [Callers -> Ids \cup {None}] /\ msg'[p] = m
      /\ body' \in [Callers -> Bodies \cup {None}] /\ body'[p] = b
      /\ staged' \in [Callers -> BOOLEAN]
      /\ \A q \in Callers : q # p =>
             pc'[q] = pc[q] /\ msg'[q] = msg[q] /\ body'[q] = body[q] /\ staged'[q] = staged[q]
  BY DEF Deliver, Goto, TypeOK, Steps
<1>free. lock' = p /\ \A q \in Callers : pc[q] = "idle"
  BY DeliveryAssumption DEF Deliver, CallInv
<1>2. TypeOK'
  BY <1>1, <1>free DEF TypeOK, Deliver, world, kittens, count
<1>3. CallInv'
  BY <1>1, <1>free DEF TypeOK, CallInv, Deliver, world, kittens
<1>4. RecordInv'
  BY <1>1 DEF RecordInv, MyReceipt, Deliver, Recorded, Steps
<1>5. CountInv'
  BY <1>1 DEF CountInv, Deliver, count, Recorded, Steps
<1>6. WireInv'
  BY <1>1 DEF WireInv, SubmittedIsTrue, Written, Given, Deliver, world, kittens, count
<1>7. OnceInv'
  BY DEF OnceInv, Deliver, world, kittens
<1>8. CalmInv'
  BY <1>1 DEF CalmInv, Calm, Single, MyWire, Deliver, world, kittens, count
<1> QED BY <1>2, <1>3, <1>4, <1>5, <1>6, <1>7, <1>8

-----------------------------------------------------------------------------
(* What the world does leaves the calls and the ledger alone. *)
Outside == UNCHANGED <<receipts, lock, pc, call, identity, count>>

LEMMA KeepCalls ==
    ASSUME IInv, Outside
    PROVE  CallInv' /\ RecordInv' /\ CountInv'
<1> USE DEF IInv, Outside, call, count
<1>1. CallInv'
  BY DEF CallInv
<1>2. RecordInv'
  BY DEF RecordInv, MyReceipt
<1>3. CountInv'
  BY DEF CountInv
<1> QED BY <1>1, <1>2, <1>3

(* WireInv only has to be shown of the world: nothing is lost of what was given. *)
LEMMA KeepWires ==
    ASSUME IInv, Outside, turns \subseteq turns', late' \subseteq late,
           \A m \in Ids, b \in Bodies :
               /\ \A i \in DOMAIN pending' : pending'[i] = Wire(m, b) => Written(m, b)
               /\ \A i \in DOMAIN composer' : composer'[i] = Wire(m, b) => Written(m, b),
           \A m \in shown' : m \in shown
               \/ /\ receipts[m] # None /\ pastes[m] > 0
                  /\ \E t \in turns' : \E i \in DOMAIN t : t[i] = Wire(m, receipts[m].digest)
    PROVE  WireInv'
<1> USE DEF IInv, Outside, call, count
<1>1. \A m \in Ids : Given(m) => Given(m)'
  BY DEF Given
<1>2. \A m \in Ids, b \in Bodies : Written(m, b)' <=> Written(m, b)
  BY DEF Written
<1>3. \A m \in shown' : receipts'[m] # None /\ pastes'[m] > 0 /\ Given(m)'
  <2> SUFFICES ASSUME NEW m \in shown' PROVE receipts'[m] # None /\ pastes'[m] > 0 /\ Given(m)'
    OBVIOUS
  <2>1. CASE m \in shown
    BY <2>1, <1>1 DEF WireInv, TypeOK
  <2>2. CASE m \notin shown
    BY <2>2 DEF Given
  <2> QED BY <2>1, <2>2
<1>5. SubmittedIsTrue'
  BY DEF WireInv, SubmittedIsTrue
<1>6. \A q \in Callers : (pc[q] = "confirm" => Given(msg[q]))'
  <2> SUFFICES ASSUME NEW q \in Callers, pc'[q] = "confirm"
               PROVE  \E t \in turns' : \E i \in DOMAIN t : t[i] = Wire(msg[q], receipts[msg[q]].digest)
    BY DEF Given
  <2> QED BY DEF WireInv, Given
<1> QED BY <1>2, <1>3, <1>5, <1>6 DEF WireInv

(* An input of the world, which is no wire. *)
LEMMA KeepHumanTypes ==
    ASSUME IInv, HumanTypes
    PROVE  IInv'
<1> USE DEF IInv
<1>0. Outside
  BY DEF HumanTypes, Outside, call, count
<1>1. PICK x \in {Typed, Enter, Tab} : pending' = Append(pending, x)
  BY DEF HumanTypes
<1>2. x \in Fragments \cup {Enter, Tab} /\ x \notin Wires /\ \A m \in Ids, b \in Bodies : x # Wire(m, b)
  BY DeliveryAssumption DEF Wires, Wire, Fragments
<1>3. /\ pending' \in Seq(Fragments \cup {Enter, Tab})
      /\ Len(pending) \in Nat
      /\ DOMAIN pending = 1..Len(pending)
      /\ DOMAIN pending' = 1..(Len(pending) + 1)
      /\ pending'[Len(pending) + 1] = x
      /\ \A i \in DOMAIN pending : pending'[i] = pending[i]
  BY <1>1, <1>2, AppendFacts DEF TypeOK
<1>4. TypeOK'
  BY <1>3 DEF TypeOK, HumanTypes, kittens, call, count
<1>5. WireInv'
  <2>1. \A m \in Ids, b \in Bodies, i \in DOMAIN pending' : pending'[i] = Wire(m, b) => Written(m, b)
    BY <1>2, <1>3 DEF WireInv
  <2>2. \A m \in Ids, b \in Bodies, i \in DOMAIN composer' : composer'[i] = Wire(m, b) => Written(m, b)
    BY DEF WireInv, HumanTypes
  <2>3. shown' = shown /\ turns' = turns /\ late' = late
    BY DEF HumanTypes, kittens
  <2> HIDE DEF IInv
  <2> QED BY <2>1, <2>2, <2>3, <1>0, KeepWires
<1>6. OnceInv'
  <2>1. \A i, j \in DOMAIN pending' : pending'[i] \in Wires /\ pending'[i] = pending'[j] => i = j
    BY <1>2, <1>3 DEF OnceInv
  <2>2. \A i \in DOMAIN pending', j \in DOMAIN composer : pending'[i] \in Wires => pending'[i] # composer[j]
    BY <1>2, <1>3 DEF OnceInv
  <2>3. \A o \in late, i \in DOMAIN pending' : o[2] \in Wires => pending'[i] # o[2]
    BY <1>2, <1>3 DEF OnceInv
  <2> QED BY <2>1, <2>2, <2>3 DEF OnceInv, HumanTypes, kittens
<1>7. CalmInv'
  BY DEF CalmInv, Calm, HumanTypes, TypeOK
<1> QED BY <1>0, <1>4, <1>5, <1>6, <1>7, KeepCalls

(* A late input: a wire that is recorded, and nowhere else, or a key. *)
LEMMA KeepLateInput ==
    ASSUME IInv, LateInput
    PROVE  IInv'
<1> USE DEF IInv
<1>0. Outside
  BY DEF LateInput, Outside, call, count
<1>1. PICK o \in late : late' = late \ {o} /\ pending' = Append(pending, o[2])
  BY DEF LateInput
<1>2. /\ o = <<o[1], o[2]>> /\ o[1] \in Ids
      /\ o[2] \in Fragments \cup {Enter, Tab} /\ o[2] \in orphans
  BY DEF TypeOK, OnceInv
<1>3. /\ pending' \in Seq(Fragments \cup {Enter, Tab})
      /\ Len(pending) \in Nat
      /\ DOMAIN pending = 1..Len(pending)
      /\ DOMAIN pending' = 1..(Len(pending) + 1)
      /\ pending'[Len(pending) + 1] = o[2]
      /\ \A i \in DOMAIN pending : pending'[i] = pending[i]
  BY <1>1, <1>2, AppendFacts DEF TypeOK
<1>4. TypeOK'
  BY <1>1, <1>3 DEF TypeOK, LateInput, call, count
<1>5. WireInv'
  <2>1. \A m \in Ids, b \in Bodies, i \in DOMAIN pending' : pending'[i] = Wire(m, b) => Written(m, b)
    BY <1>3 DEF WireInv
  <2>2. \A m \in Ids, b \in Bodies, i \in DOMAIN composer' : composer'[i] = Wire(m, b) => Written(m, b)
    BY DEF WireInv, LateInput
  <2>3. shown' = shown /\ turns' = turns /\ late' \subseteq late
    BY <1>1 DEF LateInput
  <2> HIDE DEF IInv
  <2> QED BY <2>1, <2>2, <2>3, <1>0, KeepWires
<1>6. OnceInv'
  <2>1. \A i, j \in DOMAIN pending' : pending'[i] \in Wires /\ pending'[i] = pending'[j] => i = j
    BY <1>3 DEF OnceInv
  <2>2. \A i \in DOMAIN pending', j \in DOMAIN composer : pending'[i] \in Wires => pending'[i] # composer[j]
    BY <1>3 DEF OnceInv
  <2>3. ASSUME NEW q \in late', q[2] \in Wires PROVE q[2] # o[2]
    <3>1. PICK m \in Ids, b \in Bodies : q[2] = Wire(m, b)
      BY <2>3 DEF Wires
    <3>2. q \in late /\ q # o /\ q = <<q[1], q[2]>>
      BY <1>1 DEF TypeOK
    <3>3. q[2] = o[2] => q[1] = m /\ o[1] = m
      <4>1. \A r \in late : r[2] = Wire(m, b) => r[1] = m
        BY DEF WireInv
      <4> QED BY <3>1, <3>2, <4>1
    <3> QED BY <3>2, <3>3, <1>2
  <2>4. ASSUME NEW q \in late', q[2] \in Wires, NEW i \in DOMAIN pending'
        PROVE  pending'[i] # q[2]
    <3>1. q \in late
      BY <1>1
    <3> QED BY <2>3, <2>4, <3>1, <1>3 DEF OnceInv
  <2>5. UNCHANGED <<orphans, composer>> /\ late' \subseteq late
    BY <1>1 DEF LateInput
  <2> QED BY <2>1, <2>2, <2>4, <2>5 DEF OnceInv
<1>7. CalmInv'
  <2>1. UNCHANGED <<orphans, composer, turns, human, resumed, pc, msg, body>>
    BY DEF LateInput, call, count
  <2> SUFFICES ASSUME Calm PROVE CalmInv'
    BY <2>1 DEF CalmInv, Calm
  <2>2. o[2] \notin {Enter, Tab}
    BY <1>2 DEF Calm
  <2>3. ASSUME NEW i \in DOMAIN pending', pending'[i] \in {Enter, Tab}
        PROVE  Single(composer) /\ \A j \in DOMAIN pending' : j < i => pending'[j] \in orphans
    BY <2>2, <2>3, <1>3 DEF CalmInv
  <2>4. ASSUME NEW p \in Callers, pc[p] = "drafted", NEW i \in DOMAIN pending'
        PROVE  pending'[i] \in orphans \/ \E j \in DOMAIN pending' : j >= i /\ pending'[j] = MyWire(p)
    <3>1. CASE i \in DOMAIN pending
      BY <3>1, <2>4, <1>3 DEF CalmInv
    <3>2. CASE i = Len(pending) + 1
      BY <3>2, <1>2, <1>3
    <3> QED BY <3>1, <3>2, <1>3
  <2>5. ASSUME NEW p \in Callers, pc[p] \in {"recheck", "arm", "key", "keying"}
        PROVE  Single(composer) /\ \A i \in DOMAIN pending' : pending'[i] \in orphans
    BY <2>5, <1>2, <1>3 DEF CalmInv
  <2>6. /\ \A p \in Callers : pc[p] \notin {"armStaged", "recheckStaged"}
        /\ \A t \in turns : Single(t)
    BY DEF CalmInv
  <2> QED BY <2>1, <2>3, <2>4, <2>5, <2>6 DEF CalmInv, Single, MyWire
<1> HIDE DEF IInv
<1> QED BY <1>0, <1>4, <1>5, <1>6, <1>7, KeepCalls DEF IInv

(* What the agent shows of itself, and what is cleared away, disturbs nothing. *)
LEMMA KeepLosses ==
    ASSUME IInv, Outside, composer' \in {composer, <<>>}, shown' \subseteq shown,
           UNCHANGED <<pending, kittens, human, turns>>,
           agent' \in Nat, activity' \in {"idle", "working", "queued"}
    PROVE  IInv'
<1> USE DEF IInv
<1>1. TypeOK'
  <2>1. composer' \in Seq(Fragments)
    <3>1. CASE composer' = composer
      BY <3>1 DEF TypeOK
    <3>2. CASE composer' = <<>>
      BY <3>2
    <3> QED BY <3>1, <3>2
  <2> QED BY <2>1 DEF TypeOK, Outside, kittens, call, count
<1>2. WireInv'
  <2>1. \A m \in Ids, b \in Bodies, i \in DOMAIN pending' : pending'[i] = Wire(m, b) => Written(m, b)
    BY DEF WireInv
  <2>2. \A m \in Ids, b \in Bodies, i \in DOMAIN composer' : composer'[i] = Wire(m, b) => Written(m, b)
    BY DEF WireInv
  <2>3. late' = late
    BY DEF kittens
  <2> HIDE DEF IInv
  <2> QED BY <2>1, <2>2, <2>3, KeepWires
<1>3. OnceInv'
  BY DEF OnceInv, kittens
<1>4. CalmInv'
  <2>1. UNCHANGED <<orphans, human, resumed, pending, turns, pc, msg, body>>
    BY DEF Outside, kittens, call, count
  <2> SUFFICES ASSUME Calm PROVE CalmInv'
    BY <2>1 DEF CalmInv, Calm
  <2>2. Single(composer) => Single(composer')
    BY DEF Single
  <2> QED BY <2>1, <2>2 DEF CalmInv, Single, MyWire
<1> QED BY <1>1, <1>2, <1>3, <1>4, KeepCalls

LEMMA KeepWorld ==
    ASSUME IInv, AgentWorks \/ HumanClears \/ Scroll \/ AgentRestarts
    PROVE  IInv'
<1>1. CASE AgentWorks
  BY <1>1, KeepLosses DEF AgentWorks, Outside, kittens, call, count, IInv, TypeOK
<1>2. CASE HumanClears
  BY <1>2, KeepLosses DEF HumanClears, Outside, kittens, call, count, IInv, TypeOK
<1>3. CASE Scroll
  BY <1>3, KeepLosses DEF Scroll, Outside, kittens, call, count, IInv, TypeOK
<1>4. CASE AgentRestarts
  BY <1>4, KeepLosses DEF AgentRestarts, Outside, kittens, call, count, IInv, TypeOK
<1> QED BY <1>1, <1>2, <1>3, <1>4

LEMMA TailFacts ==
    ASSUME TypeOK, pending # <<>>, pending' = Tail(pending)
    PROVE  /\ pending' \in Seq(Fragments \cup {Enter, Tab})
           /\ Head(pending) = pending[1] /\ 1 \in DOMAIN pending
           /\ Head(pending) \in Fragments \cup {Enter, Tab}
           /\ Len(pending) \in Nat /\ Len(pending') = Len(pending) - 1
           /\ DOMAIN pending = 1..Len(pending)
           /\ DOMAIN pending' = 1..(Len(pending) - 1)
           /\ \A i \in DOMAIN pending' : i + 1 \in DOMAIN pending /\ i + 1 # 1 /\ pending'[i] = pending[i + 1]
BY DEF TypeOK

LEMMA KeepAgentReads ==
    ASSUME IInv, AgentReads
    PROVE  IInv'
<1> USE DEF IInv
<1>0. Outside
  BY DEF AgentReads, Outside, call, count
<1>1. /\ pending' \in Seq(Fragments \cup {Enter, Tab})
      /\ Head(pending) = pending[1] /\ 1 \in DOMAIN pending
      /\ Head(pending) \in Fragments \cup {Enter, Tab}
      /\ Len(pending) \in Nat /\ Len(pending') = Len(pending) - 1
      /\ DOMAIN pending = 1..Len(pending)
      /\ DOMAIN pending' = 1..(Len(pending) - 1)
      /\ \A i \in DOMAIN pending' : i + 1 \in DOMAIN pending /\ i + 1 # 1 /\ pending'[i] = pending[i + 1]
  BY TailFacts DEF AgentReads
<1>2. UNCHANGED <<receipts, lock, agent, late, orphans, human, pc, call, identity, count>>
  BY DEF AgentReads, kittens
<1>3. \A m \in Ids, b \in Bodies, i \in DOMAIN pending' : pending'[i] = Wire(m, b) => Written(m, b)
  BY <1>1 DEF WireInv
<1>4. \A i, j \in DOMAIN pending' : pending'[i] \in Wires /\ pending'[i] = pending'[j] => i = j
  BY <1>1 DEF OnceInv
<1>5. \A o \in late : /\ o[2] \in orphans
                     /\ \A i \in DOMAIN pending' : o[2] \in Wires => pending'[i] # o[2]
  BY <1>1 DEF OnceInv
<1>6. ASSUME Calm, NEW p \in Callers, pc[p] = "drafted", NEW i \in DOMAIN pending'
      PROVE  pending'[i] \in orphans \/ \E j \in DOMAIN pending' : j >= i /\ pending'[j] = MyWire(p)
  <2> SUFFICES ASSUME pending'[i] \notin orphans
               PROVE  \E j \in DOMAIN pending' : j >= i /\ pending'[j] = MyWire(p)
    OBVIOUS
  <2>1. i + 1 \in DOMAIN pending /\ pending[i + 1] \notin orphans
    BY <1>1
  <2>2. PICK k \in DOMAIN pending : k >= i + 1 /\ pending[k] = MyWire(p)
    BY <1>6, <2>1 DEF CalmInv
  <2>3. k - 1 \in DOMAIN pending' /\ k - 1 >= i /\ (k - 1) + 1 = k
    BY <1>1, <2>2
  <2>4. pending'[k - 1] = MyWire(p)
    BY <1>1, <2>2, <2>3
  <2> QED BY <2>3, <2>4
<1>orphans. ASSUME Calm, NEW p \in Callers, pc[p] \in {"recheck", "arm", "key", "keying"}
            PROVE  /\ pending[1] \in orphans /\ Single(composer)
                   /\ \A i \in DOMAIN pending' : pending'[i] \in orphans
  BY <1>1, <1>orphans DEF CalmInv
<1>key. ASSUME Calm, NEW i \in DOMAIN pending', pending'[i] \in {Enter, Tab}
        PROVE  /\ pending[1] \in orphans /\ Single(composer)
               /\ \A j \in DOMAIN pending' : j < i => pending'[j] \in orphans
  <2>1. i + 1 \in DOMAIN pending /\ pending[i + 1] \in {Enter, Tab} /\ 1 < i + 1
    BY <1>1, <1>key
  <2>2. Single(composer) /\ \A j \in DOMAIN pending : j < i + 1 => pending[j] \in orphans
    BY <2>1, <1>key DEF CalmInv
  <2>3. \A j \in DOMAIN pending' : j < i => j + 1 \in DOMAIN pending /\ j + 1 < i + 1 /\ pending'[j] = pending[j + 1]
    BY <1>1
  <2> QED BY <2>1, <2>2, <2>3, <1>1
<1>7. CASE Head(pending) \in {Enter, Tab} /\ HandOver /\ activity' \in {"idle", "working", "queued"}
  <2>1. TypeOK'
    BY <1>1, <1>2, <1>7 DEF TypeOK, HandOver, call, count
  <2>2. turns \subseteq turns' /\ (composer # <<>> => composer \in turns')
    BY <1>7 DEF HandOver
  <2>3. ASSUME NEW m \in shown', m \notin shown
        PROVE  /\ receipts[m] # None /\ pastes[m] > 0
               /\ \E t \in turns' : \E i \in DOMAIN t : t[i] = Wire(m, receipts[m].digest)
    <3>1. PICK i \in DOMAIN composer, b \in Bodies : m \in Ids /\ composer[i] = Wire(m, b)
      BY <1>7, <2>3 DEF HandOver
    <3>2. receipts[m] # None /\ pastes[m] > 0 /\ receipts[m].digest = b
      BY <3>1 DEF WireInv, Written
    <3>3. composer # <<>>
      BY <3>1
    <3> QED BY <3>1, <3>2, <3>3, <2>2
  <2>4. \A m \in Ids, b \in Bodies, i \in DOMAIN composer' : composer'[i] = Wire(m, b) => Written(m, b)
    BY <1>7 DEF HandOver
  <2>5. WireInv'
    <3> HIDE DEF IInv
    <3> QED BY <1>0, <1>2, <1>3, <2>2, <2>3, <2>4, KeepWires
  <2>6. OnceInv'
    BY <1>2, <1>4, <1>5, <1>7 DEF OnceInv, HandOver
  <2>7. CalmInv'
    <3>1. UNCHANGED <<orphans, human, resumed, pc, msg, body>> /\ composer' = <<>>
      BY <1>2, <1>7 DEF HandOver, call, count
    <3> SUFFICES ASSUME Calm PROVE CalmInv'
      BY <3>1 DEF CalmInv, Calm
    <3>2. pending[1] \notin orphans
      BY <1>1, <1>7 DEF Calm
    <3>3. Single(composer)
      BY <1>1, <1>7 DEF CalmInv
    <3>4. \A t \in turns' : Single(t)
      BY <1>7, <3>3 DEF CalmInv, HandOver
    <3>5. \A p \in Callers : pc[p] \notin {"armStaged", "recheckStaged"}
      BY DEF CalmInv
    <3> QED BY <1>6, <1>orphans, <1>key, <3>1, <3>2, <3>4, <3>5 DEF CalmInv, Single, MyWire
  <2> HIDE DEF IInv
  <2> QED BY <1>0, <2>1, <2>5, <2>6, <2>7, KeepCalls DEF IInv
<1>8. CASE UNCHANGED <<composer, shown, turns, activity>>
  <2>1. TypeOK'
    BY <1>1, <1>2, <1>8 DEF TypeOK, call, count
  <2>2. WireInv'
    <3>1. \A m \in Ids, b \in Bodies, i \in DOMAIN composer' : composer'[i] = Wire(m, b) => Written(m, b)
      BY <1>8 DEF WireInv
    <3> HIDE DEF IInv
    <3> QED BY <1>0, <1>2, <1>3, <1>8, <3>1, KeepWires
  <2>3. OnceInv'
    BY <1>1, <1>2, <1>4, <1>5, <1>8 DEF OnceInv
  <2>4. CalmInv'
    <3>1. UNCHANGED <<orphans, human, resumed, composer, turns, pc, msg, body>>
      BY <1>2, <1>8 DEF call, count
    <3> SUFFICES ASSUME Calm PROVE CalmInv'
      BY <3>1 DEF CalmInv, Calm
    <3>2. /\ \A p \in Callers : pc[p] \notin {"armStaged", "recheckStaged"}
          /\ \A t \in turns : Single(t)
      BY DEF CalmInv
    <3> QED BY <1>6, <1>orphans, <1>key, <3>1, <3>2 DEF CalmInv, Single, MyWire
  <2> HIDE DEF IInv
  <2> QED BY <1>0, <2>1, <2>2, <2>3, <2>4, KeepCalls DEF IInv
<1>9. CASE /\ Head(pending) \notin {Enter, Tab}
           /\ composer' = Append(composer, Head(pending))
           /\ UNCHANGED <<shown, turns, activity>>
  <2>1. /\ composer' \in Seq(Fragments)
        /\ Len(composer) \in Nat
        /\ DOMAIN composer = 1..Len(composer)
        /\ DOMAIN composer' = 1..(Len(composer) + 1)
        /\ composer'[Len(composer) + 1] = pending[1]
        /\ \A i \in DOMAIN composer : composer'[i] = composer[i]
    BY <1>1, <1>9 DEF TypeOK
  <2>2. TypeOK'
    BY <1>1, <1>2, <1>9, <2>1 DEF TypeOK, call, count
  <2>3. WireInv'
    <3>1. \A m \in Ids, b \in Bodies, i \in DOMAIN composer' : composer'[i] = Wire(m, b) => Written(m, b)
      BY <1>1, <2>1 DEF WireInv
    <3> HIDE DEF IInv
    <3> QED BY <1>0, <1>2, <1>3, <1>9, <3>1, KeepWires
  <2>4. OnceInv'
    <3>1. \A i \in DOMAIN pending', j \in DOMAIN composer' : pending'[i] \in Wires => pending'[i] # composer'[j]
      <4> SUFFICES ASSUME NEW i \in DOMAIN pending', NEW j \in DOMAIN composer',
                          pending'[i] \in Wires, pending'[i] = composer'[j]
                   PROVE  FALSE
        OBVIOUS
      <4>1. i + 1 \in DOMAIN pending /\ i + 1 # 1 /\ pending'[i] = pending[i + 1]
        BY <1>1
      <4>2. CASE j \in DOMAIN composer
        <5>1. pending[i + 1] \in Wires /\ pending[i + 1] = composer[j]
          BY <4>1, <4>2, <2>1
        <5> QED BY <4>1, <4>2, <5>1 DEF OnceInv
      <4>3. CASE j = Len(composer) + 1
        BY <4>1, <4>3, <2>1, <1>1 DEF OnceInv
      <4> QED BY <4>2, <4>3, <2>1
    <3>2. \A o \in late, j \in DOMAIN composer' : o[2] \in Wires => composer'[j] # o[2]
      BY <1>1, <2>1 DEF OnceInv
    <3> QED BY <1>2, <1>4, <1>5, <3>1, <3>2 DEF OnceInv
  <2>5. CalmInv'
    <3>1. UNCHANGED <<orphans, human, resumed, turns, pc, msg, body>>
      BY <1>2, <1>9 DEF call, count
    <3> SUFFICES ASSUME Calm PROVE CalmInv'
      BY <3>1 DEF CalmInv, Calm
    <3>2. /\ \A p \in Callers : pc[p] \notin {"armStaged", "recheckStaged"}
          /\ \A t \in turns : Single(t)
      BY DEF CalmInv
    <3>3. pending[1] \in orphans /\ Single(composer) => Single(composer')
      BY <2>1 DEF Single
    <3> QED BY <1>6, <1>orphans, <1>key, <3>1, <3>2, <3>3 DEF CalmInv, Single, MyWire
  <2> HIDE DEF IInv
  <2> QED BY <1>0, <2>2, <2>3, <2>4, <2>5, KeepCalls DEF IInv
<1>10. \/ Head(pending) \in {Enter, Tab} /\ HandOver /\ activity' \in {"idle", "working", "queued"}
       \/ UNCHANGED <<composer, shown, turns, activity>>
       \/ /\ Head(pending) \notin {Enter, Tab}
          /\ composer' = Append(composer, Head(pending))
          /\ UNCHANGED <<shown, turns, activity>>
  <2>1. CASE Head(pending) = Enter
    BY <2>1 DEF AgentReads, TypeOK
  <2>2. CASE Head(pending) # Enter /\ Head(pending) = Tab
    BY <2>2 DEF AgentReads, TypeOK
  <2>3. CASE Head(pending) # Enter /\ Head(pending) # Tab
    BY <2>3 DEF AgentReads
  <2> QED BY <2>1, <2>2, <2>3
<1> QED BY <1>7, <1>8, <1>9, <1>10

-----------------------------------------------------------------------------
LEMMA InitInv == Init => IInv
<1> SUFFICES ASSUME Init PROVE IInv
  OBVIOUS
<1>1. TypeOK
  <2> USE DEF Init
  <2>1. pending \in Seq(Fragments \cup {Enter, Tab}) /\ composer \in Seq(Fragments)
    OBVIOUS
  <2>2. pc \in [Callers -> Steps]
    BY DEF Steps
  <2>3. /\ receipts \in [Ids -> Receipt \cup {None}]
        /\ pastes \in [Ids -> Nat] /\ keys \in [Ids -> Nat]
    OBVIOUS
  <2>4. /\ msg \in [Callers -> Ids \cup {None}] /\ body \in [Callers -> Bodies \cup {None}]
        /\ staged \in [Callers -> BOOLEAN] /\ identity \in [Callers -> Nat \cup {None}]
    OBVIOUS
  <2> QED BY <2>1, <2>2, <2>3, <2>4 DEF TypeOK
<1>2. CallInv /\ RecordInv
  BY DEF Init, CallInv, RecordInv, Recorded, Steps
<1>3. CountInv
  BY DEF Init, CountInv, Recorded, Steps
<1>4. WireInv
  BY DEF Init, WireInv, SubmittedIsTrue
<1>5. OnceInv /\ CalmInv
  BY DEF Init, OnceInv, CalmInv, Single
<1> QED BY <1>1, <1>2, <1>3, <1>4, <1>5 DEF IInv

LEMMA NextInv == IInv /\ [Next]_deliveryVars => IInv'
<1> SUFFICES ASSUME IInv, [Next]_deliveryVars PROVE IInv'
  OBVIOUS
<1>1. CASE UNCHANGED deliveryVars
  <2>1. Outside /\ UNCHANGED <<pending, kittens, composer, shown, human, turns, agent, activity>>
    BY <1>1 DEF deliveryVars, Outside, world, kittens
  <2> QED BY <2>1, KeepLosses DEF IInv, TypeOK
<1>2. CASE Environment
  BY <1>2, KeepAgentReads, KeepLateInput, KeepHumanTypes, KeepWorld DEF Environment
<1>3. ASSUME NEW p \in Callers, NEW m \in Ids, NEW b \in Bodies, NEW finish \in BOOLEAN, Deliver(p, m, b, finish)
      PROVE  IInv'
  BY <1>3, KeepDeliver
<1>4. ASSUME NEW p \in Callers, Crash(p)
      PROVE  IInv'
  BY <1>4, WaysToBeKilled, KeepGiveUpQuiet, KeepGiveUpPaste, KeepGiveUpPress, KeepKilled
<1>5. ASSUME NEW p \in Callers, DeliverySteps(p)
      PROVE  IInv'
  <2>1. CASE AnswerFromReceipt(p) \/ Refuse(p)
    BY <2>1, KeepAnswerFromReceipt, KeepRefuse
  <2>2. CASE RecoverStaged(p) \/ RecoverSubmitted(p) \/ RecoverFails(p)
    BY <2>2, KeepRecoverStaged, KeepRecoverSubmitted, KeepRecoverFails
  <2>3. CASE FindComposerEmpty(p) \/ Intend(p) \/ CheckTarget(p) \/ Paste(p) \/ Press(p)
    BY <2>3, KeepFindComposerEmpty, KeepIntend, KeepCheckTarget, KeepPaste, KeepPress
  <2>4. CASE SeeDraft(p) \/ Arm(p) \/ SeeSubmitted(p) \/ Confirm(p)
    BY <2>4, KeepSeeDraft, KeepArm, KeepSeeSubmitted, KeepConfirm
  <2>5. CASE GiveUp(p)
    BY <2>5, WaysToGiveUp, KeepGiveUpQuiet, KeepGiveUpIntend, KeepGiveUpArm, KeepConfirm,
       KeepGiveUpPaste, KeepGiveUpPress
  <2> QED BY <1>5, <2>1, <2>2, <2>3, <2>4, <2>5 DEF DeliverySteps
<1> QED BY <1>1, <1>2, <1>3, <1>4, <1>5 DEF Next

(* In every reachable state the ledger, the calls in flight and the screen agree as
   IInv says: the lock holder alone writes (CallInv), a step knows its receipt
   (RecordInv) and what was sent under it (CountInv), every wire in the terminal is a
   recorded paste (WireInv) that is there once (OnceInv), and while no human interferes
   a key only ever follows its own draft and orphaned pastes (CalmInv). *)
THEOREM DeliveryInvariance == Spec => []IInv
<1>1. Init => IInv
  BY InitInv
<1>2. IInv /\ [Next]_deliveryVars => IInv'
  BY NextInv
<1> QED BY <1>1, <1>2, PTL DEF Spec

(* agent_delivery.py: a message is pasted, and its key sent, at most once, whatever
   number of callers deliver, retry, finish staged drafts, time out or are killed. *)
THEOREM DeliveredAtMostOnce == Spec => []AtMostOnceInput
<1>1. IInv => AtMostOnceInput
  BY DEF IInv, CountInv, AtMostOnceInput
<1> QED BY <1>1, DeliveryInvariance, PTL

(* agent_delivery.py, ledger: input was sent only under a readable receipt that says
   so, and a key only after a paste. *)
THEOREM InputRecorded == Spec => []InputIsRecorded
<1>1. IInv => InputIsRecorded
  BY DEF IInv, CountInv, TypeOK, InputIsRecorded
<1> QED BY <1>1, DeliveryInvariance, PTL

(* agent_delivery.py, confirm: a receipt that says submitted or deferred is about a
   message that an agent was given. *)
THEOREM SubmissionIsTrue == Spec => []SubmittedIsTrue
<1>1. IInv => SubmittedIsTrue
  BY DEF IInv, WireInv
<1> QED BY <1>1, DeliveryInvariance, PTL

(* agent_delivery.py, deliver: without a human at the keyboard, and unless a staged
   draft was taken up or a key outlived its sender, no turn holds more than one message
   besides pastes that outlived their own sender. *)
THEOREM DeliveriesNeverMix == Spec => []NothingMixed
<1>1. IInv => NothingMixed
  BY DEF IInv, CalmInv, Calm, Single, NothingMixed
<1> QED BY <1>1, DeliveryInvariance, PTL

-----------------------------------------------------------------------------
lives == [m \in Ids |-> Life(m)]

LEMMA LifeMoves ==
    ASSUME NEW m \in Ids, NEW from, NEW to, Life(m) \in from, Life(m)' = to,
           \A q \in Ids : q # m => Life(q)' = Life(q)
    PROVE  Promise!Becomes(m, from, to) /\ lives'[m] = to /\ lives[m] = Life(m)
BY DEF Promise!Becomes, lives

(* Only the message of the call moves. *)
LEMMA OtherLives ==
    ASSUME TypeOK, NEW m \in Ids, NEW q \in Ids, q # m,
           \/ \E r : receipts' = [receipts EXCEPT ![m] = r] /\ UNCHANGED <<pastes, keys>>
           \/ UNCHANGED <<receipts, keys>> /\ pastes' = [pastes EXCEPT ![m] = @ + 1]
           \/ UNCHANGED <<receipts, pastes>> /\ keys' = [keys EXCEPT ![m] = @ + 1]
    PROVE  Life(q)' = Life(q)
<1>1. receipts'[q] = receipts[q] /\ pastes'[q] = pastes[q] /\ keys'[q] = keys[q]
  BY DEF TypeOK
<1> QED BY <1>1 DEF Life

LEMMA WriteLives ==
    ASSUME IInv, NEW p \in Callers, msg[p] \in Ids, NEW r \in Receipt, Save(p, r), UNCHANGED <<pastes, keys>>,
           \/ MyReceipt(p) = None /\ r.phase = "pasting"
           \/ MyReceipt(p) # None /\ MyReceipt(p).phase = "pasting" /\ pastes[msg[p]] > 0 /\ r.phase = "submitting"
           \/ /\ MyReceipt(p) # None /\ MyReceipt(p).phase \notin Final
              /\ pastes[msg[p]] > 0 /\ r.phase \in Final
    PROVE  [Promise!Next]_lives
<1>0. PICK m \in Ids : m = msg[p]
  OBVIOUS
<1>1. /\ receipts'[m] = r /\ r # None /\ receipts[m] = MyReceipt(p)
      /\ receipts' = [receipts EXCEPT ![m] = r]
  BY <1>0, SaveFacts, DeliveryAssumption DEF IInv, MyReceipt, Save
<1>2. \A q \in Ids : q # m => Life(q)' = Life(q)
  BY <1>1, OtherLives DEF IInv
<1>3. /\ receipts[m] = None => pastes[m] = 0
      /\ receipts[m] # None /\ receipts[m].phase = "pasting" => keys[m] = 0
      /\ pastes'[m] = pastes[m] /\ keys'[m] = keys[m] /\ pastes[m] \in Nat /\ keys[m] \in Nat
  BY DEF IInv, CountInv, TypeOK
<1>5. CASE receipts[m] = None /\ r.phase = "pasting"
  <2>1. Life(m) = "new" /\ Life(m)' = "intended"
    BY <1>1, <1>3, <1>5 DEF Life, Final
  <2> QED BY <1>2, <2>1, LifeMoves DEF Promise!Next, Promise!Intend
<1>6. CASE receipts[m] # None /\ receipts[m].phase = "pasting" /\ pastes[m] > 0 /\ r.phase = "submitting"
  <2>1. Life(m) = "pasted" /\ Life(m)' = "armed"
    BY <1>1, <1>3, <1>6 DEF Life, Final
  <2> QED BY <1>2, <2>1, LifeMoves DEF Promise!Next, Promise!Arm
<1>7. CASE receipts[m] # None /\ receipts[m].phase \notin Final /\ pastes[m] > 0 /\ r.phase \in Final
  <2>1. Life(m) \in {"pasted", "armed", "keyed"} /\ Life(m)' = "closed"
    BY <1>1, <1>3, <1>7 DEF Life
  <2> QED BY <1>2, <2>1, LifeMoves DEF Promise!Next, Promise!Close
<1> QED BY <1>0, <1>1, <1>5, <1>6, <1>7

LEMMA PasteLives ==
    ASSUME IInv, NEW p \in Callers, pc[p] = "pasting",
           pastes' = [pastes EXCEPT ![msg[p]] = @ + 1], UNCHANGED <<receipts, keys>>
    PROVE  [Promise!Next]_lives
<1>0. PICK m \in Ids : m = msg[p]
  BY DEF IInv, CallInv
<1>1. receipts[m] # None /\ receipts[m].phase = "pasting" /\ pastes[m] = 0
  BY <1>0 DEF IInv, RecordInv, CountInv, MyReceipt, Recorded, Steps
<1>2. \A q \in Ids : q # m => Life(q)' = Life(q)
  BY <1>0, OtherLives DEF IInv
<1>3. receipts'[m] = receipts[m] /\ pastes'[m] = 1
  BY <1>0, <1>1 DEF IInv, TypeOK
<1>4. Life(m) = "intended" /\ Life(m)' = "pasted"
  BY <1>1, <1>3 DEF Life, Final
<1> QED BY <1>1, <1>2, <1>4, LifeMoves DEF Promise!Next, Promise!Paste

LEMMA PressLives ==
    ASSUME IInv, NEW p \in Callers, pc[p] = "keying",
           keys' = [keys EXCEPT ![msg[p]] = @ + 1], UNCHANGED <<receipts, pastes>>
    PROVE  [Promise!Next]_lives
<1>0. PICK m \in Ids : m = msg[p]
  BY DEF IInv, CallInv
<1>1. receipts[m] # None /\ receipts[m].phase = "submitting" /\ keys[m] = 0
  BY <1>0 DEF IInv, RecordInv, CountInv, MyReceipt, Recorded, Steps
<1>2. \A q \in Ids : q # m => Life(q)' = Life(q)
  BY <1>0, OtherLives DEF IInv
<1>3. receipts'[m] = receipts[m] /\ keys'[m] = 1
  BY <1>0, <1>1 DEF IInv, TypeOK
<1>4. Life(m) = "armed" /\ Life(m)' = "keyed"
  BY <1>1, <1>3 DEF Life, Final
<1> QED BY <1>1, <1>2, <1>4, LifeMoves DEF Promise!Next, Promise!Press

LEMMA SameLives ==
    ASSUME UNCHANGED <<receipts, pastes, keys>>
    PROVE  UNCHANGED lives
BY DEF lives, Life

(* The phase a call writes next is the one the message is ready for. *)
LEMMA PhasesLive ==
    ASSUME IInv, NEW p \in Callers, UNCHANGED <<pastes, keys>>,
           \/ pc[p] = "intend" /\ Save(p, [digest |-> body[p], phase |-> "pasting", process |-> identity[p]])
           \/ pc[p] \in {"arm", "armStaged"} /\ SavePhase(p, "submitting")
           \/ pc[p] = "confirm" /\ Close(p)
    PROVE  [Promise!Next]_lives
<1>1. msg[p] \in Ids /\ body[p] \in Bodies
  BY DEF IInv, CallInv
<1>2. CASE pc[p] = "intend" /\ Save(p, [digest |-> body[p], phase |-> "pasting", process |-> identity[p]])
  <2> DEFINE r == [digest |-> body[p], phase |-> "pasting", process |-> identity[p]]
  <2>1. r \in Receipt /\ r.phase = "pasting" /\ MyReceipt(p) = None
    BY <1>1, <1>2 DEF IInv, CallInv, RecordInv, Receipt, Phases
  <2>2. Save(p, r)
    BY <1>2
  <2> HIDE DEF r
  <2> QED BY <1>1, <2>1, <2>2, WriteLives
<1>3. CASE pc[p] \in {"arm", "armStaged"} /\ SavePhase(p, "submitting")
  <2> DEFINE r == [MyReceipt(p) EXCEPT !.phase = "submitting"]
  <2>1. pc[p] \in Recorded \ {"paste", "pasting"}
    BY <1>3 DEF Recorded, Steps
  <2>2. MyReceipt(p) # None /\ MyReceipt(p).phase = "pasting" /\ pastes[msg[p]] > 0
    BY <1>3, <2>1 DEF IInv, RecordInv, CountInv
  <2>3. MyReceipt(p) \in Receipt
    BY <1>1, <2>2 DEF IInv, TypeOK, MyReceipt
  <2>4. r \in Receipt /\ r.phase = "submitting"
    BY <2>3 DEF Receipt, Phases
  <2>5. Save(p, r)
    BY <1>3 DEF SavePhase
  <2> HIDE DEF r
  <2> QED BY <1>1, <2>2, <2>4, <2>5, WriteLives
<1>4. CASE pc[p] = "confirm" /\ Close(p)
  <2> DEFINE r == [MyReceipt(p) EXCEPT !.phase = FinalPhase(p)]
  <2>1. pc[p] \in Recorded \ {"paste", "pasting"}
    BY <1>4 DEF Recorded, Steps
  <2>2. MyReceipt(p) # None /\ MyReceipt(p).phase \notin Final /\ pastes[msg[p]] > 0
    BY <1>4, <2>1 DEF IInv, RecordInv, CountInv
  <2>3. MyReceipt(p) \in Receipt
    BY <1>1, <2>2 DEF IInv, TypeOK, MyReceipt
  <2>4. r \in Receipt /\ r.phase \in Final
    BY <2>3 DEF Receipt, Phases, FinalPhase, Final
  <2>5. Save(p, r)
    BY <1>4 DEF Close, SavePhase
  <2> HIDE DEF r
  <2> QED BY <1>1, <2>2, <2>4, <2>5, WriteLives
<1> QED BY <1>2, <1>3, <1>4

LEMMA RefineStep == ASSUME IInv, [Next]_deliveryVars PROVE [Promise!Next]_lives
<1> USE DEF world, kittens, call, count
<1>1. CASE UNCHANGED deliveryVars \/ Environment
  <2>1. UNCHANGED <<receipts, pastes, keys>>
    BY <1>1 DEF deliveryVars, Environment, AgentReads, AgentWorks, LateInput, HumanTypes, HumanClears, Scroll, AgentRestarts
  <2> QED BY <2>1, SameLives
<1>2. ASSUME NEW p \in Callers, NEW m \in Ids, NEW b \in Bodies, NEW finish \in BOOLEAN,
             Deliver(p, m, b, finish)
      PROVE  [Promise!Next]_lives
  BY <1>2, SameLives DEF Deliver
<1>3. ASSUME NEW p \in Callers, Crash(p) PROVE [Promise!Next]_lives
  <2>1. CASE GiveUpQuiet(p)
    BY <2>1, SameLives DEF GiveUpQuiet
  <2>2. CASE GiveUpPaste(p) \/ KilledPasting(p)
    BY <2>2, PasteLives DEF GiveUpPaste, KilledPasting, Outlived
  <2>3. CASE GiveUpPress(p) \/ KilledKeying(p)
    BY <2>3, PressLives DEF GiveUpPress, KilledKeying, Outlived
  <2> QED BY <1>3, <2>1, <2>2, <2>3, WaysToBeKilled
<1>4. ASSUME NEW p \in Callers, DeliverySteps(p) PROVE [Promise!Next]_lives
  <2>1. CASE AnswerFromReceipt(p) \/ Refuse(p)
             \/ RecoverSubmitted(p) \/ RecoverFails(p) \/ FindComposerEmpty(p) \/ CheckTarget(p)
    BY <2>1, SameLives DEF AnswerFromReceipt, Refuse, RecoverSubmitted, RecoverFails,
                           FindComposerEmpty, CheckTarget
  <2>2. CASE RecoverStaged(p) \/ SeeDraft(p) \/ SeeSubmitted(p)
    BY <2>2, SameLives DEF RecoverStaged, SeeDraft, SeeSubmitted
  <2>3. CASE Intend(p) \/ Arm(p) \/ Confirm(p)
    BY <2>3, PhasesLive DEF Intend, Arm, Confirm
  <2>4. CASE Paste(p)
    BY <2>4, PasteLives DEF Paste
  <2>5. CASE Press(p)
    BY <2>5, PressLives DEF Press
  <2>6. CASE GiveUp(p)
    <3>1. CASE GiveUpQuiet(p)
      BY <3>1, SameLives DEF GiveUpQuiet
    <3>2. CASE GiveUpIntend(p) \/ GiveUpArm(p) \/ Confirm(p)
      BY <3>2, PhasesLive DEF GiveUpIntend, GiveUpArm, Confirm
    <3>3. CASE GiveUpPaste(p)
      BY <3>3, PasteLives DEF GiveUpPaste
    <3>4. CASE GiveUpPress(p)
      BY <3>4, PressLives DEF GiveUpPress
    <3> QED BY <2>6, <3>1, <3>2, <3>3, <3>4, WaysToGiveUp
  <2> QED BY <1>4, <2>1, <2>2, <2>3, <2>4, <2>5, <2>6 DEF DeliverySteps
<1> QED BY <1>1, <1>2, <1>3, <1>4 DEF Next

(* agent_delivery.py: the phases of the ledger, with the retries and recoveries of any
   number of callers, implement what DeliverOnce promises of a message. *)
THEOREM LedgerDeliversOnce == Spec => ImplementsDeliverOnce
<1>1. Init => Promise!Init
  BY DEF Init, Promise!Init, Life, lives
<1>2. IInv /\ [Next]_deliveryVars => [Promise!Next]_lives
  BY RefineStep
<1> QED
  BY <1>1, <1>2, DeliveryInvariance, PTL DEF Spec, ImplementsDeliverOnce, Promise!Spec, lives

=============================================================================
