---------------------------- MODULE DeliverOnce ----------------------------
(***************************************************************************)
(* What the delivery ledger promises about one message id: an intent is    *)
(* recorded, then the text is pasted, then the submission is recorded,     *)
(* then the key is sent, and a message that was pasted may be closed once  *)
(* it is seen submitted.  Nothing goes back and nothing happens twice; a   *)
(* message that was not pasted is never submitted.                         *)
(***************************************************************************)
CONSTANT Ids

VARIABLE life

Becomes(m, from, to) == life[m] \in from /\ life' = [life EXCEPT ![m] = to]

Init == life = [m \in Ids |-> "new"]

Intend(m) == Becomes(m, {"new"}, "intended")
Paste(m) == Becomes(m, {"intended"}, "pasted")
Arm(m) == Becomes(m, {"pasted"}, "armed")
Press(m) == Becomes(m, {"armed"}, "keyed")
Close(m) == Becomes(m, {"pasted", "armed", "keyed"}, "closed")

Next == \E m \in Ids : life'[m] # life[m] /\ (Intend(m) \/ Paste(m) \/ Arm(m) \/ Press(m) \/ Close(m))

Spec == Init /\ [][Next]_life
=============================================================================
