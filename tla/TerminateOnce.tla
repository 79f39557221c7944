--------------------------- MODULE TerminateOnce ---------------------------
(***************************************************************************)
(* What an operation store of `kilix pty request` promises about one       *)
(* operation id: it is free, then claimed by one live process, then its    *)
(* terminate request is out, then it is closed by a receipt.  Only a       *)
(* claimed operation can be sent; a request that is out is only ever       *)
(* closed; a claim whose process is gone is abandoned, which nobody sends; *)
(* a receipt of an operation that sent nothing settles it; receipts may    *)
(* expire.  After the machine stopped an entry that was not flushed may be *)
(* an earlier one, but no operation is claimed then, and one whose request *)
(* went out is still out or closed.                                        *)
(***************************************************************************)
CONSTANT Ops

VARIABLE life

Lives == {"free", "claimed", "abandoned", "settled", "out", "closed"}

Becomes(o, from, to) == life[o] \in from /\ life' = [life EXCEPT ![o] = to]

Init == life = [o \in Ops |-> "free"]

Claim(o) == Becomes(o, {"free"}, "claimed")
Release(o) == Becomes(o, {"claimed"}, "free")
Abandon(o) == Becomes(o, {"free", "claimed"}, "abandoned")
Settle(o) == Becomes(o, {"claimed", "abandoned"}, "settled")
Send(o) == Becomes(o, {"claimed"}, "out")
Close(o) == Becomes(o, {"out"}, "closed")
Expire(o) == Becomes(o, {"settled", "closed"}, "free")

(* The machine stopped: what an operation may be taken for afterwards. *)
Regressions == [free |-> {"free", "abandoned", "settled"},
                claimed |-> {"abandoned"},
                abandoned |-> {"free", "abandoned", "settled"},
                settled |-> {"free", "abandoned", "settled"},
                out |-> {"out"},
                closed |-> {"out", "closed"}]

Restart == life' \in [Ops -> Lives] /\ \A o \in Ops : life'[o] \in Regressions[life[o]]

Next == \/ Restart
        \/ \E o \in Ops : \/ Claim(o) \/ Release(o) \/ Abandon(o) \/ Settle(o)
                          \/ Send(o) \/ Close(o) \/ Expire(o)

Spec == Init /\ [][Next]_life
=============================================================================
