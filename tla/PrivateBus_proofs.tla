------------------------- MODULE PrivateBus_proofs -------------------------
(***************************************************************************)
(* Proofs about the family of a private bus, for any set of kids, any      *)
(* bound on the retries, and whether or not controller and ancestor may be *)
(* killed.                                                                 *)
(* Kin says that every process of the family that is not yet reaped hangs  *)
(* below the ancestor through living parents and, once it runs, sits in a  *)
(* boundary; Control ties the steps of ancestor and SDK to the gates of    *)
(* the births; Delivery follows the certificate to the SDK and Cause the   *)
(* reason the family ends for.                                             *)
(***************************************************************************)
EXTENDS PrivateBus, TLAPS

KinTypes ==
    /\ life \in [Procs -> {"none", "gated", "opening", "alive", "zombie", "gone"}]
    /\ parent \in [Procs -> Procs \cup {"init"}]
    /\ group \in [Procs -> {"none", "outer", "inner"}]
    /\ below \subseteq Kids

(* Whoever runs is in a boundary; all but owner and guardian in the inner. *)
Placed ==
    \A p \in Family : life[p] \in {"opening", "alive"} =>
        /\ group[p] # "none"
        /\ p \notin {"owner", "guardian"} => group[p] = "inner"

(* A living process outside the boundaries is the ancestor's own child. *)
Gated ==
    life["ancestor"] = "alive" =>
        \A p \in Family : Living(p) /\ group[p] = "none" => parent[p] = "ancestor"

(* Nobody is lost while the ancestor lives. *)
Rooted ==
    life["ancestor"] = "alive" =>
        \A p \in Family : (Living(p) \/ life[p] = "zombie") =>
            \/ parent[p] = "ancestor"
            \/ parent[p] \in Family /\ Living(parent[p])

Kin == KinTypes /\ Placed /\ Gated /\ Rooted

Control ==
    /\ apc \in {"fork", "placing", "gate", "serve", "born", "commit", "owner-seen"} \cup Ending
    /\ cert # "none" => apc \in {"sent", "done"}
    /\ cert # "none" => \A p \in Family : life[p] \in {"none", "gone"}
    /\ apc = "gate" /\ Living("owner") => group["owner"] # "none"
    /\ Living("program") => \/ group["program"] = "inner"
                            \/ (apc = "born" \/ apc \in Ending) /\ life["program"] = "gated"
    /\ toA \in Seq({"launch", "commit", "close"})
    /\ (\E i \in DOMAIN toA : toA[i] = "commit") => hand = "acked"
    /\ life["program"] \in {"opening", "alive"} => hand = "acked"
    /\ hand # "no" => spc \notin {"boot", "held", "open", "launching", "gated"}

IInv == Kin /\ Control

(* The names of the fixed processes are no kids'. *)
LEMMA Names ==
    /\ {"owner", "guardian", "daemon", "program"} \cap Kids = {}
    /\ "ancestor" \notin Family /\ "controller" \notin Family /\ "sdk" \notin Family /\ "init" \notin Procs
    /\ Family \subseteq Procs /\ "ancestor" \in Procs /\ "controller" \in Procs /\ "sdk" \in Procs
  BY FamilyAssumption DEF Family, Procs

(* A death leaves nobody without a living parent. *)
LEMMA DieKin == ASSUME Kin, NEW p \in Procs, Die(p) PROVE Kin'
<1> USE Names DEF Kin, Living
<1> DEFINE orphans == {q \in Procs : parent[q] = p}
           heir == Heir(p)
<1>1. heir \in {"owner", "ancestor", "controller", "init"} /\ heir # p
  BY DEF Heir, KinTypes, Procs, Family
<1>2. /\ \A q \in Procs : parent'[q] = IF q \in orphans THEN heir ELSE parent[q]
      /\ \A q \in Procs : q # p => life'[q] \in {life[q], "gone"} /\ (Living(q) => life'[q] = life[q])
      /\ life'[p] \in {"gone", "zombie"}
      /\ \A q \in Procs : q # p => group'[q] = group[q]
      /\ \A q \in Procs : life'[q] = "zombie" => q = p \/ life[q] = "zombie"
  BY DEF Die, KinTypes
<1>3. KinTypes'
  BY <1>1 DEF Die, KinTypes, Procs, Family
<1>4. Placed'
  BY <1>2 DEF Placed
<1>5. ASSUME life'["ancestor"] = "alive"
      PROVE  /\ p # "ancestor" /\ life["ancestor"] = "alive"
             /\ \/ p = "controller"
                \/ heir = "ancestor"
                \/ heir = "owner" /\ p # "owner" /\ life["owner"] = "alive"
  BY <1>1, <1>2, <1>5 DEF Heir, KinTypes, Family, Procs
<1>6. Gated'
  BY <1>2, <1>5 DEF Gated
<1>7. Rooted'
  <2> SUFFICES ASSUME life'["ancestor"] = "alive", NEW q \in Family, Living(q)' \/ life'[q] = "zombie"
               PROVE  parent'[q] = "ancestor" \/ (parent'[q] \in Family /\ life'[parent'[q]] \in {"gated", "opening", "alive"})
    BY DEF Rooted
  <2>1. Living(q) \/ life[q] = "zombie"
    BY <1>2 DEF Die
  <2>2. CASE q \in orphans
    <3>1. p # "controller"
      BY <2>1, <2>2, <1>5 DEF Rooted
    <3> QED BY <2>2, <3>1, <1>2, <1>5, <1>1 DEF Family
  <2>3. CASE q \notin orphans
    <3>1. parent[q] # p /\ parent'[q] = parent[q]
      BY <2>3, <1>2
    <3> QED BY <2>1, <3>1, <1>2, <1>5 DEF Rooted
  <2> QED BY <2>2, <2>3
<1> QED BY <1>3, <1>4, <1>6, <1>7

(* A birth by the ancestor, or by somebody of the family who runs. *)
LEMMA BornKin ==
    ASSUME Kin, NEW p \in Family, NEW by \in Family \cup {"ancestor"},
           NEW how \in {"gated", "alive"}, NEW where \in {"none", "outer", "inner"},
           Born(p, by, how, where),
           how = "gated" => by = "ancestor",
           how = "alive" => where # "none" /\ (p \notin {"owner", "guardian"} => where = "inner"),
           by # "ancestor" => life[by] = "alive"
    PROVE  Kin'
<1> USE Names DEF Kin, Living
<1>1. /\ \A q \in Procs : q # p => life'[q] = life[q] /\ parent'[q] = parent[q] /\ group'[q] = group[q]
      /\ life[p] = "none" /\ life'[p] = how /\ parent'[p] = by /\ group'[p] = where
  BY DEF Born, KinTypes
<1>2. KinTypes'
  BY DEF Born, KinTypes
<1>3. Placed'
  BY <1>1 DEF Placed
<1>4. Gated'
  BY <1>1 DEF Gated, Placed
<1>5. Rooted'
  BY <1>1 DEF Rooted
<1> QED BY <1>2, <1>3, <1>4, <1>5

(* Collecting a zombie takes no living parent away. *)
LEMMA ReapKin == ASSUME Kin, NEW q, NEW p \in Family, Reap(q, p) PROVE Kin'
<1> USE Names DEF Kin, Living
<1>1. /\ \A r \in Procs : r # p => life'[r] = life[r] /\ parent'[r] = parent[r]
      /\ life[p] = "zombie" /\ life'[p] = "gone" /\ UNCHANGED <<group, below>>
  BY DEF Reap, KinTypes
<1>2. KinTypes'
  BY DEF Reap, KinTypes
<1> QED BY <1>1, <1>2 DEF Placed, Gated, Rooted

(* Steps that touch no process. *)
Quiet ==
    \/ BootFault \/ SupervisorStop \/ ProgramExit \/ ControlEnds \/ OwnerSeen \/ OwnerLoss
    \/ TakeClose \/ TakeLaunchAgain \/ Committed \/ ProtocolFault \/ Certify \/ Pending
    \/ GuardianPasses \/ OwnerTakes \/ OwnerLeaves \/ Bootstrap \/ Opens \/ Launch \/ LaunchAnswer \/ LaunchTimeout
    \/ Bind \/ Commit \/ CommitAnswer \/ RequestClose \/ CloseControl
    \/ ReadCertificate \/ Finish

Deadly(p) ==
    \/ Exits(p)
    \/ p = "sdk" /\ SDKExits
    \/ p = "ancestor" /\ (AncestorExits \/ AncestorLost)
    \/ p = "controller" /\ ControllerExits
    \/ p = "owner" /\ OwnerExits
    \/ p = "guardian" /\ GuardianExits
    \/ /\ p \in Family
       /\ ParentDeath(p) \/ AncestorKills(p) \/ GuardianStops(p) \/ OwnerKills(p) \/ Cull(p)

Births ==
    \/ ForkOwner \/ TakeLaunch \/ OwnerStarts \/ DaemonStarts
    \/ \E p \in Family : \E c \in Kids : Starts(p, c)

Reaps == \E p \in Family : AncestorReaps(p) \/ OwnerReaps(p)

Moves == PlaceOwner \/ OpenOwnerGate \/ PlaceProgram \/ TakeCommit \/ GuardianJoins \/ Executes

(* Every step is of one of these kinds. *)
LEMMA Kinds == Next => Quiet \/ (\E p \in Procs : Deadly(p)) \/ Births \/ Reaps \/ Moves
  BY Names DEF Next, AncestorStep, OwnerStep, GuardianStep, SDKStep, CloseStep,
     Quiet, Deadly, Births, Reaps, Moves, Family

LEMMA QuietKin == ASSUME Kin, Quiet PROVE UNCHANGED procVars
  BY DEF Quiet, BootFault, SupervisorStop, ProgramExit, ControlEnds, OwnerSeen, OwnerLoss,
     TakeClose, TakeLaunchAgain, Committed, ProtocolFault, Certify, Pending, GuardianPasses, OwnerTakes,
     OwnerLeaves, Bootstrap, Opens, Launch, LaunchAnswer, LaunchTimeout, Bind, Commit,
     CommitAnswer, RequestClose, CloseControl, ReadCertificate, Finish

LEMMA DeadlyDies == ASSUME NEW p \in Procs, Deadly(p) PROVE Die(p)
  BY DEF Deadly, Exits, SDKExits, AncestorExits, AncestorLost, ControllerExits, OwnerExits, GuardianExits, ParentDeath,
     AncestorKills, GuardianStops, OwnerKills, Cull

(* Every step keeps the family below the ancestor and inside its boundary. *)
LEMMA KinStep == ASSUME IInv, [Next]_vars PROVE Kin'
<1> USE Names DEF IInv
<1>1. CASE UNCHANGED procVars
  BY <1>1 DEF procVars, Kin, KinTypes, Placed, Gated, Rooted, Living
<1>2. ASSUME NEW p \in Procs, Deadly(p) PROVE Kin'
  BY <1>2, DeadlyDies, DieKin
<1>3. CASE Reaps
  BY <1>3, ReapKin DEF Reaps, AncestorReaps, OwnerReaps
<1>4. CASE Births
  <2>1. CASE ForkOwner
    BY <2>1, BornKin DEF ForkOwner, Family
  <2>2. CASE TakeLaunch
    BY <2>2, BornKin DEF TakeLaunch, Family
  <2>3. CASE OwnerStarts
    BY <2>3, BornKin DEF OwnerStarts, OwnerRuns, Family
  <2>4. CASE DaemonStarts
    BY <2>4, BornKin DEF DaemonStarts, GuardianRuns, Family
  <2>5. ASSUME NEW p \in Family, NEW c \in Kids, Starts(p, c) PROVE Kin'
    <3>1. life[p] = "alive" /\ p \notin {"owner", "guardian"} /\ Born(c, p, "alive", group[p])
      BY <2>5 DEF Starts
    <3>2. group[p] = "inner" /\ c \in Family
      BY <3>1 DEF Kin, Placed, Family
    <3> QED BY <3>1, <3>2, BornKin
  <2> QED BY <1>4, <2>1, <2>2, <2>3, <2>4, <2>5 DEF Births
<1>5. CASE Moves
  <2> USE DEF Kin, KinTypes, Placed, Gated, Rooted, Living, Control, AncestorRuns, Goes
  <2>0. "owner" \in Family /\ "program" \in Family /\ "guardian" \in Family
    BY DEF Family
  <2>1. CASE PlaceOwner
    BY <2>0, <2>1 DEF PlaceOwner
  <2>2. CASE OpenOwnerGate
    BY <2>0, <2>2 DEF OpenOwnerGate
  <2>3. CASE PlaceProgram
    BY <2>0, <2>3 DEF PlaceProgram
  <2>4. CASE TakeCommit
    BY <2>0, <2>4 DEF TakeCommit, Packet, Ending
  <2>5. CASE GuardianJoins
    BY <2>0, <2>5 DEF GuardianJoins, GuardianRuns
  <2>6. CASE Executes
    BY <2>0, <2>6 DEF Executes
  <2> QED BY <1>5, <2>1, <2>2, <2>3, <2>4, <2>5, <2>6 DEF Moves
<1> QED BY <1>1, <1>2, <1>3, <1>4, <1>5, Kinds, QuietKin DEF vars, procVars

(* The heart of the certificate: with no child left and nobody in the       *)
(* boundary, the whole family has been reaped.                              *)
LEMMA EmptyMeansGone ==
    ASSUME Kin, life["ancestor"] = "alive", ChildrenOf("ancestor") = {}, Members("outer") = {},
           NEW p \in Family
    PROVE  life[p] \in {"none", "gone"}
<1> USE Names DEF Kin, Living
<1>1. \A q \in Family : ~Living(q)
  <2> SUFFICES ASSUME NEW q \in Family, Living(q) PROVE FALSE
    OBVIOUS
  <2>1. CASE group[q] = "none"
    BY <2>1 DEF Gated, ChildrenOf
  <2>2. CASE group[q] # "none"
    BY <2>2 DEF KinTypes, Members
  <2> QED BY <2>1, <2>2
<1>2. life[p] # "zombie"
  BY <1>1 DEF Rooted, ChildrenOf
<1> QED BY <1>1, <1>2 DEF KinTypes

(* Adding or taking a packet keeps the promise about queued commits. *)
LEMMA Queue ==
    ASSUME Control
    PROVE  /\ toA # <<>> => /\ Tail(toA) \in Seq({"launch", "commit", "close"})
                            /\ \A i \in DOMAIN Tail(toA) : \E j \in DOMAIN toA : toA[j] = Tail(toA)[i]
           /\ \A m \in {"launch", "commit", "close"} :
                /\ Append(toA, m) \in Seq({"launch", "commit", "close"})
                /\ \A i \in DOMAIN Append(toA, m) :
                      Append(toA, m)[i] = m \/ \E j \in DOMAIN toA : toA[j] = Append(toA, m)[i]
           /\ <<>> \in Seq({"launch", "commit", "close"}) /\ DOMAIN <<>> = {}
<1> USE DEF Control
<1>1. ASSUME toA # <<>>
      PROVE  /\ Tail(toA) \in Seq({"launch", "commit", "close"})
             /\ \A i \in DOMAIN Tail(toA) : \E j \in DOMAIN toA : toA[j] = Tail(toA)[i]
  <2>1. \A i \in DOMAIN Tail(toA) : i + 1 \in DOMAIN toA /\ toA[i + 1] = Tail(toA)[i]
    BY <1>1
  <2> QED BY <1>1, <2>1
<1> QED BY <1>1

LEMMA QuietControl == ASSUME IInv, Quiet PROVE Control'
<1> USE Names DEF IInv, Living, Ending
<1>0. UNCHANGED procVars
  BY QuietKin
<1>1. CASE BootFault \/ SupervisorStop \/ ProgramExit \/ ControlEnds \/ OwnerLoss \/ TakeClose \/ ProtocolFault
  <2>1. apc' = "finish" /\ toA' = <<>> /\ UNCHANGED <<cert, spc, hand>> /\ apc \notin Ending
    BY <1>1 DEF BootFault, SupervisorStop, ProgramExit, ControlEnds, OwnerLoss, TakeClose, ProtocolFault,
       End, AncestorRuns, sdkVars, ownVars, Packet
  <2>2. toA' \in Seq({"launch", "commit", "close"}) /\ ~\E i \in DOMAIN toA' : toA'[i] = "commit"
    BY <2>1, Queue DEF Control
  <2> QED BY <1>0, <2>1, <2>2 DEF Control, procVars
<1>2. CASE OwnerSeen \/ Committed \/ Pending \/ TakeLaunchAgain
  <2>1. /\ UNCHANGED <<cert, spc, hand>>
        /\ toA' = toA \/ (toA # <<>> /\ toA' = Tail(toA))
        /\ \/ apc' = apc
           \/ apc \in {"serve", "commit"} /\ apc' \in {"owner-seen", "serve"}
    BY <1>2 DEF OwnerSeen, Committed, Pending, TakeLaunchAgain, Packet, Taken, AncestorRuns, Goes, ancVars,
       sdkVars, ownVars
  <2>2. /\ toA' \in Seq({"launch", "commit", "close"})
        /\ (\E i \in DOMAIN toA' : toA'[i] = "commit") => hand = "acked"
    <3>1. Control
      OBVIOUS
    <3>2. CASE toA' = toA
      BY <3>1, <3>2 DEF Control
    <3>3. CASE toA # <<>> /\ toA' = Tail(toA)
      <4>1. /\ Tail(toA) \in Seq({"launch", "commit", "close"})
            /\ \A i \in DOMAIN Tail(toA) : \E j \in DOMAIN toA : toA[j] = Tail(toA)[i]
        BY <3>1, <3>3, Queue
      <4>2. (\E i \in DOMAIN toA : toA[i] = "commit") => hand = "acked"
        BY <3>1 DEF Control
      <4> HIDE DEF IInv
      <4> QED BY <3>3, <4>1, <4>2
    <3> QED BY <2>1, <3>2, <3>3
  <2> QED BY <1>0, <2>1, <2>2 DEF Control, procVars
<1>3. CASE Certify
  <2>1. \A p \in Family : life[p] \in {"none", "gone"}
    BY <1>3, EmptyMeansGone DEF Certify, Drained, GroupEmpty, AncestorRuns
  <2> QED BY <1>0, <1>3, <2>1 DEF Control, procVars, Certify, AncestorRuns, sdkVars, ownVars
<1>4. CASE GuardianPasses \/ OwnerTakes \/ OwnerLeaves \/ Bind
  BY <1>0, <1>4 DEF Control, procVars, GuardianPasses, OwnerTakes, OwnerLeaves, Bind, SDKRuns, ancVars, sdkVars
<1>5. CASE Launch \/ Commit \/ RequestClose
  <2>1. /\ UNCHANGED <<procVars, ancVars, hand>>
        /\ hand # "no" => spc' \notin {"boot", "held", "open", "launching", "gated"}
    BY <1>5 DEF Control, Launch, Commit, RequestClose, SDKRuns, ownVars
  <2>2. \/ toA' = toA
        \/ toA' = Append(toA, "launch")
        \/ toA' = Append(toA, "close")
        \/ toA' = Append(toA, "commit") /\ hand = "acked"
    BY <1>5 DEF Launch, Commit, TakenOver, RequestClose, Sends
  <2>3. toA' \in Seq({"launch", "commit", "close"})
    BY <2>2, Queue DEF Control
  <2>4. (\E i \in DOMAIN toA' : toA'[i] = "commit") => hand = "acked"
    <3>1. CASE toA' = toA
      BY <3>1 DEF Control
    <3>2. ASSUME NEW m \in {"launch", "close"}, toA' = Append(toA, m) 
          PROVE  (\E i \in DOMAIN toA' : toA'[i] = "commit") => hand = "acked"
      BY <3>2, Queue DEF Control
    <3> QED BY <3>1, <3>2, <2>2
  <2> QED BY <2>1, <2>3, <2>4 DEF Control, procVars, ancVars
<1>6. CASE Bootstrap \/ Opens \/ LaunchAnswer \/ LaunchTimeout \/ CommitAnswer \/ CloseControl
           \/ ReadCertificate \/ Finish
  BY <1>0, <1>6 DEF Control, procVars, Bootstrap, Opens, LaunchAnswer, LaunchTimeout, CommitAnswer,
     CloseControl, ReadCertificate, Finish, Proven, SDKRuns, ancVars, ownVars
<1> QED BY <1>1, <1>2, <1>3, <1>4, <1>5, <1>6 DEF Quiet

(* After the certificate nobody of the family is there to die, to be        *)
(* collected, to be let through a gate or to give birth.                    *)
LEMMA DeadlyControl == ASSUME IInv, NEW p \in Procs, Deadly(p) PROVE Control'
<1> USE Names DEF IInv, Living, Ending
<1>1. /\ Living(p)
      /\ \A q \in Procs : q # p => life'[q] \in {life[q], "gone"} /\ (Living(q) => life'[q] = life[q])
                                    /\ (life'[q] \in {"gated", "opening", "alive"} => life'[q] = life[q]) /\ group'[q] = group[q]
      /\ life'[p] \in {"gone", "zombie"}
  BY DeadlyDies DEF Die, Kin, KinTypes
<1>2. /\ UNCHANGED <<cert, hand>>
      /\ toA' = toA \/ toA' = <<>>
      /\ apc' # apc => (apc = "sent" /\ apc' = "done") \/ (cert = "none" /\ apc' = "lost")
      /\ spc' = spc \/ spc' = "dead"
  BY DEF Deadly, Exits, SDKExits, AncestorExits, AncestorLost, ControllerExits, OwnerExits, GuardianExits, ParentDeath, AncestorKills,
     GuardianStops, OwnerKills, Cull, AncestorRuns, Goes, ancVars, sdkVars
<1>3. "owner" \in Family /\ "program" \in Family
  BY DEF Family
<1>4. cert # "none" => \A q \in Family : life'[q] \in {"none", "gone"}
  BY <1>1 DEF Control
<1>5. /\ toA' \in Seq({"launch", "commit", "close"})
      /\ (\E i \in DOMAIN toA' : toA'[i] = "commit") => hand = "acked"
  BY <1>2, Queue DEF Control
<1> QED BY <1>1, <1>2, <1>3, <1>4, <1>5 DEF Control

LEMMA ReapsControl == ASSUME IInv, Reaps PROVE Control'
<1> USE Names DEF IInv, Living, Ending
<1>1. PICK p \in Family : AncestorReaps(p) \/ OwnerReaps(p)
  BY DEF Reaps
<1>2. /\ \A q \in Procs : q # p => life'[q] = life[q]
      /\ life[p] = "zombie" /\ life'[p] = "gone" /\ UNCHANGED group
      /\ UNCHANGED <<apc, cert, toA, hand, spc>>
  BY <1>1 DEF AncestorReaps, OwnerReaps, Reap, Kin, KinTypes, ancVars, sdkVars, ownVars
<1>3. "owner" \in Family /\ "program" \in Family
  BY DEF Family
<1> QED BY <1>2, <1>3 DEF Control

LEMMA BirthsControl == ASSUME IInv, Births PROVE Control'
<1> USE Names DEF IInv, Living, Ending, Born, Kin, KinTypes, Control
<1>1. "owner" \in Family /\ "program" \in Family /\ "guardian" \in Family /\ "daemon" \in Family
  BY DEF Family
<1>2. CASE ForkOwner
  BY <1>1, <1>2 DEF ForkOwner, AncestorRuns, Goes, sdkVars, ownVars
<1>3. CASE TakeLaunch
  <2>1. toA # <<>> /\ toA' = Tail(toA) /\ apc = "serve" /\ apc' = "born"
    BY <1>3 DEF TakeLaunch, Packet, Taken, AncestorRuns, Goes
  <2> QED BY <1>1, <1>3, <2>1, Queue DEF TakeLaunch, Goes, sdkVars, ownVars
<1>4. CASE OwnerStarts
  BY <1>1, <1>4 DEF OwnerStarts, OwnerRuns, ancVars, sdkVars
<1>5. CASE DaemonStarts
  BY <1>1, <1>5 DEF DaemonStarts, GuardianRuns, ancVars, sdkVars, ownVars
<1>6. ASSUME NEW p \in Family, NEW c \in Kids, Starts(p, c) PROVE Control'
  BY <1>1, <1>6 DEF Starts, ancVars, sdkVars, ownVars, Family
<1> QED BY <1>2, <1>3, <1>4, <1>5, <1>6 DEF Births

LEMMA MovesControl == ASSUME IInv, Moves PROVE Control'
<1> USE Names DEF IInv, Living, Ending, Kin, KinTypes, Control
<1>1. "owner" \in Family /\ "program" \in Family /\ "guardian" \in Family
  BY DEF Family
<1>2. CASE PlaceOwner
  BY <1>1, <1>2 DEF PlaceOwner, AncestorRuns, Goes, sdkVars, ownVars
<1>3. CASE OpenOwnerGate
  BY <1>1, <1>3 DEF OpenOwnerGate, AncestorRuns, Goes, sdkVars, ownVars
<1>4. CASE PlaceProgram
  BY <1>1, <1>4 DEF PlaceProgram, AncestorRuns, Goes, sdkVars, ownVars
<1>5. CASE TakeCommit
  <2>1. toA # <<>> /\ toA' = Tail(toA) /\ hand = "acked"
    BY <1>5 DEF TakeCommit, Packet, Taken
  <2>2. apc = "serve" /\ apc' = "commit" /\ UNCHANGED <<cert, hand, spc, group>>
    BY <1>5 DEF TakeCommit, Packet, Goes, AncestorRuns, sdkVars, ownVars
  <2>3. /\ \A p \in Family : p # "program" => life'[p] = life[p]
        /\ life'["program"] # life["program"] => life["program"] = "gated" /\ life'["program"] = "opening"
    BY <1>5 DEF TakeCommit
  <2> QED BY <1>1, <2>1, <2>2, <2>3, Queue
<1>6. CASE GuardianJoins
  BY <1>1, <1>6 DEF GuardianJoins, GuardianRuns, ancVars, sdkVars, ownVars
<1>7. CASE Executes
  BY <1>1, <1>7 DEF Executes, ancVars, sdkVars, ownVars
<1> QED BY <1>2, <1>3, <1>4, <1>5, <1>6, <1>7 DEF Moves

LEMMA Inductive == IInv /\ [Next]_vars => IInv'
<1> SUFFICES ASSUME IInv, [Next]_vars PROVE IInv'
  OBVIOUS
<1>1. Control'
  <2>1. CASE UNCHANGED vars
    BY <2>1 DEF vars, IInv, Control, Living, Ending
  <2> QED BY <2>1, Kinds, QuietControl, DeadlyControl, BirthsControl, ReapsControl, MovesControl
<1> QED BY <1>1, KinStep DEF IInv

LEMMA Initial == Init => IInv
<1> SUFFICES ASSUME Init PROVE IInv
  OBVIOUS
<1> USE Names DEF Init, Living
<1>1. \A p \in Family : life[p] = "none"
  OBVIOUS
<1>2. KinTypes
  BY DEF KinTypes
<1>3. Placed /\ Gated /\ Rooted
  BY <1>1 DEF Placed, Gated, Rooted
<1>4. toA \in Seq({"launch", "commit", "close"}) /\ ~\E i \in DOMAIN toA : toA[i] = "commit"
  OBVIOUS
<1>5. life["program"] = "none" /\ life["owner"] = "none"
  BY <1>1 DEF Family
<1>6. apc = "fork" /\ cert = "none" /\ hand = "no"
  OBVIOUS
<1>7. Control
  BY <1>4, <1>5, <1>6 DEF Control
<1> QED BY <1>2, <1>3, <1>7 DEF IInv, Kin

(* The certificate of the ancestor is true, and stays so, for any number of *)
(* kids and whatever was killed when.                                       *)
THEOREM Certificates == Spec => []CertificateIsTrue
<1>1. IInv => CertificateIsTrue
  BY DEF IInv, Control, CertificateIsTrue
<1> QED BY <1>1, Initial, Inductive, PTL DEF Spec

(* No program runs outside its boundary or before both keepers have it.     *)
THEOREM Containment == Spec => []Contained
<1>1. IInv => Contained
  BY DEF IInv, Kin, Placed, Control, Contained
<1> QED BY <1>1, Initial, Inductive, PTL DEF Spec

(* What the SDK can have read was sent, and only a certificate is a receipt. *)
Messages == {"boundary", "primary", "committed", "pending", "certificate"}
Delivery ==
    /\ toSDK \in Seq(Messages)
    /\ apc = "finish" /\ life["ancestor"] = "alive" => trigger # "none"
    /\ cert # "none" => trigger = cert
    /\ (\E i \in DOMAIN toSDK : toSDK[i] = "certificate") => cert # "none"
    /\ receipt # "none" => receipt = cert
    /\ spc = "closed" => receipt # "none" /\ (receipt \in Faults => reported)

(* Reading the socket, and writing anything but a certificate to it. *)
LEMMA Reading ==
    ASSUME Delivery, toSDK # <<>>
    PROVE  /\ Tail(toSDK) \in Seq(Messages)
           /\ (\E i \in DOMAIN Tail(toSDK) : Tail(toSDK)[i] = "certificate") => cert # "none"
           /\ Head(toSDK) = "certificate" => cert # "none"
<1> USE DEF Delivery
<1>1. \A i \in DOMAIN Tail(toSDK) : i + 1 \in DOMAIN toSDK /\ toSDK[i + 1] = Tail(toSDK)[i]
  OBVIOUS
<1>2. 1 \in DOMAIN toSDK /\ toSDK[1] = Head(toSDK)
  OBVIOUS
<1> QED BY <1>1, <1>2

LEMMA Writing ==
    ASSUME Delivery, NEW m \in Messages
    PROVE  /\ Append(toSDK, m) \in Seq(Messages)
           /\ m # "certificate" /\ (\E i \in DOMAIN Append(toSDK, m) : Append(toSDK, m)[i] = "certificate")
                => cert # "none"
<1> USE DEF Delivery
<1>1. \A i \in DOMAIN Append(toSDK, m) : Append(toSDK, m)[i] = m \/ \E j \in DOMAIN toSDK : toSDK[j] = Append(toSDK, m)[i]
  OBVIOUS
<1> QED BY <1>1

(* A lost ancestor does not come back. *)
LEMMA AncestorOnce == ASSUME IInv, [Next]_vars PROVE life'["ancestor"] = "alive" => life["ancestor"] = "alive"
<1> USE Names DEF IInv, Kin, KinTypes
<1>1. CASE UNCHANGED procVars
  BY <1>1 DEF procVars
<1>2. ASSUME NEW p \in Procs, Deadly(p) PROVE life'["ancestor"] = "alive" => life["ancestor"] = "alive"
  BY <1>2, DeadlyDies DEF Die
<1>3. CASE Reaps
  BY <1>3 DEF Reaps, AncestorReaps, OwnerReaps, Reap
<1>4. CASE Births
  BY <1>4 DEF Births, ForkOwner, TakeLaunch, OwnerStarts, DaemonStarts, Starts, Born, Family
<1>5. CASE Moves
  BY <1>5 DEF Moves, PlaceOwner, OpenOwnerGate, PlaceProgram, TakeCommit, GuardianJoins, Executes
<1> QED BY <1>1, <1>2, <1>3, <1>4, <1>5, Kinds, QuietKin DEF vars, procVars

LEMMA DeliveryStep == ASSUME IInv, Delivery, [Next]_vars PROVE Delivery'
<1> USE DEF Ending
<1>0. life'["ancestor"] = "alive" => life["ancestor"] = "alive"
  BY AncestorOnce
<1>1. CASE UNCHANGED <<toSDK, apc, trigger, cert, receipt, spc, reported>>
  BY <1>0, <1>1 DEF Delivery
<1>2. ASSUME NEW p \in Procs, Deadly(p) PROVE Delivery'
  <2>1. CASE Deadly(p) /\ UNCHANGED <<toSDK, trigger, cert, receipt, spc, reported>>
               /\ (apc' # apc => apc = "sent" /\ apc' = "done")
    BY <1>0, <2>1 DEF Delivery
  <2>2. CASE SDKExits
    BY <1>0, <2>2 DEF SDKExits, Delivery, ancVars
  <2>3. CASE p = "ancestor" /\ AncestorLost
    <3>1. life'["ancestor"] # "alive"
      BY <2>3, Names DEF AncestorLost, Die, IInv, Kin, KinTypes
    <3> QED BY <2>3, <3>1 DEF AncestorLost, Delivery, sdkVars
  <2> QED BY <1>2, <2>1, <2>2, <2>3 DEF Deadly, Exits, AncestorExits, AncestorLost, ControllerExits, OwnerExits, GuardianExits, ParentDeath,
       AncestorKills, GuardianStops, OwnerKills, Cull, AncestorRuns, Goes, ancVars, sdkVars
<1>3. CASE Births \/ Reaps \/ PlaceOwner \/ TakeCommit \/ GuardianJoins \/ Executes
  BY <1>0, <1>3 DEF Births, Reaps, ForkOwner, TakeLaunch, OwnerStarts, DaemonStarts, Starts, AncestorReaps,
     OwnerReaps, PlaceOwner, TakeCommit, GuardianJoins, Executes, Delivery, Goes, ancVars, sdkVars
<1>4. CASE OpenOwnerGate \/ PlaceProgram \/ TakeLaunchAgain \/ Committed \/ Pending
  <2>1. PICK m \in Messages : m # "certificate" /\ toSDK' = Append(toSDK, m)
    BY <1>4 DEF OpenOwnerGate, PlaceProgram, TakeLaunchAgain, Committed, Pending, Messages
  <2>2. UNCHANGED <<trigger, cert, receipt, spc, reported>> /\ (apc' = "finish" => apc = "finish")
    BY <1>4 DEF OpenOwnerGate, PlaceProgram, TakeLaunchAgain, Committed, Pending, Goes, ancVars, sdkVars
  <2> QED BY <1>0, <2>1, <2>2, Writing DEF Delivery
<1>5. CASE BootFault \/ SupervisorStop \/ ProgramExit \/ ControlEnds \/ OwnerSeen \/ OwnerLoss
           \/ TakeClose \/ ProtocolFault
  <2>1. OwnerSeen \/ (UNCHANGED <<toSDK, cert, receipt, spc, reported>> /\ cert = "none" /\ trigger' # "none")
    BY <1>5 DEF BootFault, SupervisorStop, ProgramExit, ControlEnds, OwnerLoss,
       TakeClose, ProtocolFault, End, Delivery, sdkVars, IInv, Control, AncestorRuns, Packet
  <2>2. CASE OwnerSeen
    BY <2>2 DEF OwnerSeen, Goes, Delivery, sdkVars
  <2> QED BY <2>1, <2>2 DEF Delivery
<1>6. CASE Certify
  <2>1. apc = "finish" /\ apc' = "sent" /\ trigger' = trigger /\ cert' = trigger /\ cert' # "none" /\ cert = "none"
    BY <1>6 DEF Certify, Drained, GroupEmpty, AncestorRuns, Delivery, IInv, Control
  <2>2. toSDK' \in Seq(Messages) /\ receipt = "none" /\ UNCHANGED <<receipt, spc, reported>>
    BY <1>6, <2>1, Writing DEF Certify, Delivery, sdkVars, Messages
  <2> QED BY <2>1, <2>2 DEF Delivery
<1>7. CASE GuardianPasses \/ OwnerTakes \/ OwnerLeaves \/ Opens \/ Launch \/ LaunchTimeout \/ Bind \/ Commit
           \/ RequestClose \/ CloseControl \/ Finish
  BY <1>0, <1>7 DEF GuardianPasses, OwnerTakes, OwnerLeaves, Opens, Launch, LaunchTimeout, Bind, Commit, RequestClose,
     CloseControl, Finish, Closes, Proven, SDKRuns, Delivery, ancVars, sdkVars
<1>8. CASE Bootstrap \/ LaunchAnswer \/ CommitAnswer \/ ReadCertificate
  <2>1. toSDK # <<>> /\ toSDK' = Tail(toSDK) /\ UNCHANGED <<apc, trigger, cert, reported>>
    BY <1>8 DEF Bootstrap, LaunchAnswer, CommitAnswer, ReadCertificate, ancVars
  <2>2. receipt' # receipt => Head(toSDK) = "certificate" /\ receipt' = cert
    BY <1>8 DEF Bootstrap, LaunchAnswer, CommitAnswer, ReadCertificate
  <2>3. spc' # "closed" /\ (receipt' # "none" => receipt' = cert)
    BY <1>8, <2>2 DEF Bootstrap, LaunchAnswer, CommitAnswer, ReadCertificate, Finishing, SDKRuns, Delivery
  <2> QED BY <1>0, <2>1, <2>3, Reading DEF Delivery
<1> QED BY <1>1, <1>2, <1>3, <1>4, <1>5, <1>6, <1>7, <1>8, Kinds DEF vars, Quiet, Moves

(* A close that succeeds leaves nothing behind and reported every fault.    *)
THEOREM CompleteClose == Spec => []ClosedMeansGone
<1>1. Init => Delivery
  BY DEF Init, Delivery, Ending
<1>2. IInv /\ Delivery /\ [Next]_vars => Delivery'
  BY DeliveryStep
<1>3. IInv /\ Delivery => ClosedMeansGone
  BY DEF IInv, Control, Delivery, ClosedMeansGone
<1> QED BY <1>1, <1>2, <1>3, Initial, Inductive, PTL DEF Spec

(* Why the family ends.  HasClose and FirstIsBoundary read the two queues of *)
(* the control socket; Blamed says why the first of the keepers left,        *)
(* Requested where a close is on its way, and Answered what the SDK, until   *)
(* it holds the boundary, can find in the socket.                            *)
HasClose == \E i \in DOMAIN toA : toA[i] = "close"
HasPending == \E i \in DOMAIN toSDK : toSDK[i] = "pending"

Blamed ==
    /\ blame \in {"none", "lost", "asked"}
    /\ Dead("owner") /\ apc \notin Ending => blame # "none"
    /\ blame = "asked" => HungUp \/ Dead("program") \/ apc \in Ending
    /\ apc = "owner-seen" => blame = "lost"
    /\ trigger = "owner-loss" => blame = "lost"

Requested ==
    /\ spc = "dead" => Dead("sdk")
    /\ spc \in {"requested", "closing", "closed"} /\ life["ancestor"] = "alive" /\ apc \notin Ending => HasClose
    /\ HasClose => spc \in {"requested", "closing", "closed", "stuck", "dead"}
    /\ trigger = "requested" => spc \in {"requested", "closing", "closed", "dead"}

Answered ==
    /\ HasPending \/ spc = "stuck" => apc \in Ending
    /\ spc \in {"held", "open", "launching", "gated", "binding", "committing", "running"} => held
    /\ apc \in {"fork", "placing", "gate"} => toSDK = <<>> /\ ~held /\ trigger = "none"
    /\ apc \in {"serve", "born", "commit", "owner-seen"} \/ trigger = "requested" =>
           held \/ spc = "dead" \/ (toSDK # <<>> /\ Head(toSDK) = "boundary")

Rest ==
    /\ trigger \in Triggers /\ cert \in Triggers /\ receipt \in Triggers
    /\ spc \in {"boot", "held", "open", "launching", "gated", "binding", "committing",
                "running", "close", "requested", "closing", "closed", "stuck", "dead"}
    /\ notified \in BOOLEAN /\ held \in BOOLEAN /\ reported \in BOOLEAN
    /\ opc \in {"begin", "loop", "drain"}
    /\ hand \in {"no", "sent", "guardian", "owner", "acked"}

Cause == Blamed /\ Requested /\ Answered /\ Rest

(* A packet that is no close leaves the closes in the queue alone, and one  *)
(* that is appended leaves the first in its place.                          *)
LEMMA KeepsClose ==
    ASSUME Control
    PROVE  /\ toA # <<>> /\ Head(toA) # "close" =>
                ((\E i \in DOMAIN Tail(toA) : Tail(toA)[i] = "close") <=> HasClose)
           /\ \A m \in {"launch", "commit", "close"} :
                (\E i \in DOMAIN Append(toA, m) : Append(toA, m)[i] = "close") <=> HasClose \/ m = "close"
<1> USE DEF Control, HasClose
<1>1. ASSUME toA # <<>>, Head(toA) # "close"
      PROVE  (\E i \in DOMAIN Tail(toA) : Tail(toA)[i] = "close") <=> HasClose
  <2>1. \A i \in DOMAIN Tail(toA) : i + 1 \in DOMAIN toA /\ toA[i + 1] = Tail(toA)[i]
    BY <1>1
  <2>2. \A i \in DOMAIN toA : i = 1 \/ (i - 1 \in DOMAIN Tail(toA) /\ Tail(toA)[i - 1] = toA[i])
    BY <1>1
  <2>3. toA[1] = Head(toA)
    BY <1>1
  <2> QED BY <1>1, <2>1, <2>2, <2>3
<1>2. ASSUME NEW m \in {"launch", "commit", "close"}
      PROVE  (\E i \in DOMAIN Append(toA, m) : Append(toA, m)[i] = "close") <=> HasClose \/ m = "close"
  <2>1. \A i \in DOMAIN toA : i \in DOMAIN Append(toA, m) /\ Append(toA, m)[i] = toA[i]
    OBVIOUS
  <2>2. Len(toA) + 1 \in DOMAIN Append(toA, m) /\ Append(toA, m)[Len(toA) + 1] = m
    OBVIOUS
  <2>3. \A i \in DOMAIN Append(toA, m) : i \in DOMAIN toA \/ i = Len(toA) + 1
    OBVIOUS
  <2> QED BY <2>1, <2>2, <2>3
<1> QED BY <1>1, <1>2

LEMMA KeepsHead ==
    ASSUME Delivery
    PROVE  /\ \A m \in Messages :
                /\ Append(toSDK, m) # <<>>
                /\ toSDK # <<>> => Head(Append(toSDK, m)) = Head(toSDK)
                /\ (\E i \in DOMAIN Append(toSDK, m) : Append(toSDK, m)[i] = "pending") => HasPending \/ m = "pending"
           /\ toSDK # <<>> /\ (\E i \in DOMAIN Tail(toSDK) : Tail(toSDK)[i] = "pending") => HasPending
<1> USE DEF Delivery, HasPending
<1>1. ASSUME NEW m \in Messages
      PROVE  /\ Append(toSDK, m) # <<>>
             /\ toSDK # <<>> => Head(Append(toSDK, m)) = Head(toSDK)
             /\ (\E i \in DOMAIN Append(toSDK, m) : Append(toSDK, m)[i] = "pending") => HasPending \/ m = "pending"
  <2>1. \A i \in DOMAIN Append(toSDK, m) : Append(toSDK, m)[i] = m \/ \E j \in DOMAIN toSDK : toSDK[j] = Append(toSDK, m)[i]
    OBVIOUS
  <2>2. Append(toSDK, m) # <<>> /\ (toSDK # <<>> => Head(Append(toSDK, m)) = Head(toSDK))
    <3>1. toSDK \in Seq(Messages) /\ Len(Append(toSDK, m)) = Len(toSDK) + 1 /\ Len(toSDK) \in Nat
      OBVIOUS
    <3>2. Append(toSDK, m) # <<>>
      BY <3>1
    <3>3. ASSUME toSDK # <<>> PROVE Head(Append(toSDK, m)) = Head(toSDK)
      <4>1. 1 \in DOMAIN toSDK /\ Append(toSDK, m)[1] = toSDK[1]
        BY <3>1, <3>3
      <4> QED BY <3>1, <3>2, <3>3, <4>1
    <3> QED BY <3>2, <3>3
  <2>3. (\E i \in DOMAIN Append(toSDK, m) : Append(toSDK, m)[i] = "pending") => HasPending \/ m = "pending"
    <3> SUFFICES ASSUME NEW i \in DOMAIN Append(toSDK, m), Append(toSDK, m)[i] = "pending", m # "pending" PROVE HasPending
      OBVIOUS
    <3> QED BY <2>1
  <2> QED BY <2>2, <2>3
<1>2. ASSUME toSDK # <<>>
      PROVE  (\E i \in DOMAIN Tail(toSDK) : Tail(toSDK)[i] = "pending") => HasPending
  <2>1. \A i \in DOMAIN Tail(toSDK) : i + 1 \in DOMAIN toSDK /\ toSDK[i + 1] = Tail(toSDK)[i]
    BY <1>2
  <2> QED BY <2>1
<1> QED BY <1>1, <1>2

(* What a death changes besides the kin: it may be the first of a keeper. *)
LEMMA DeadlyCause ==
    ASSUME IInv, Delivery, Cause, NEW p \in Procs, Deadly(p)
    PROVE  Cause'
<1> USE Names
<1>1. /\ \A q \in Procs : Dead(q) => Dead(q)'
      /\ \A q \in Procs : q # p /\ Dead(q)' => Dead(q)
      /\ Dead(p)'
      /\ life'["ancestor"] = "alive" => life["ancestor"] = "alive"
      /\ blame' = IF p \in {"owner", "guardian"} /\ blame = "none" /\ apc \notin Ending
                  THEN (IF Asked THEN "asked" ELSE "lost") ELSE blame
      /\ opc' \in {opc, "begin"}
  BY DeadlyDies DEF Die, Dead, Living, IInv, Kin, KinTypes
<1>2. /\ UNCHANGED <<cert, held, receipt, reported, hand>>
      /\ notified' \in {notified, FALSE}
      /\ \/ UNCHANGED <<trigger, toA>> /\ (apc' = apc \/ (apc = "sent" /\ apc' = "done"))
         \/ /\ p = "ancestor" /\ trigger' = cert /\ toA' = <<>>
            /\ apc' = IF cert = "none" THEN "lost" ELSE apc
      /\ \/ UNCHANGED <<spc, toSDK>>
         \/ p = "sdk" /\ spc' = "dead" /\ toSDK' = <<>>
  BY DEF Deadly, Exits, SDKExits, AncestorExits, AncestorLost, ControllerExits, OwnerExits, GuardianExits, ParentDeath, AncestorKills,
     GuardianStops, OwnerKills, Cull, AncestorRuns, Goes, Ending, ancVars, sdkVars
<1>3. /\ trigger' \in {trigger, "none"}
      /\ apc' \in {apc, "done", "lost"} /\ (apc \in Ending => apc' \in Ending)
      /\ (apc' \in Ending => apc \in Ending \/ p = "ancestor")
      /\ HungUp => HungUp'
  <2>1. trigger' \in {trigger, "none"}
    BY <1>2 DEF Delivery
  <2>2. /\ apc' \in {apc, "done", "lost"} /\ (apc \in Ending => apc' \in Ending)
        /\ apc' \in Ending => apc \in Ending \/ p = "ancestor"
    BY <1>2 DEF Ending
  <2>3. HungUp => HungUp'
    BY <1>2 DEF HungUp
  <2> QED BY <2>1, <2>2, <2>3
<1>4. /\ HasClose' => HasClose
      /\ ~HasClose' /\ HasClose => life'["ancestor"] # "alive"
  <2>1. CASE toA' = toA
    BY <2>1 DEF HasClose
  <2>2. CASE p = "ancestor" /\ toA' = <<>>
    <3>1. ~HasClose'
      BY <2>2 DEF HasClose
    <3> QED BY <1>1, <2>2, <3>1 DEF Dead
  <2> QED BY <1>2, <2>1, <2>2
<1>5. Blamed'
  <2>1. apc' = "owner-seen" => apc = "owner-seen"
    BY <1>3
  <2>2. Asked /\ p # "program" => HungUp' \/ Dead("program")'
    BY <1>1, <1>3 DEF Asked, Family
  <2>3. blame = "asked" => HungUp' \/ Dead("program")' \/ apc' \in Ending
    BY <1>1, <1>3 DEF Cause, Blamed, Family
  <2>4. Dead("owner")' => Dead("owner") \/ p = "owner"
    BY <1>1 DEF Family
  <2>5. blame' \in {"none", "lost", "asked"} /\ (blame = "lost" => blame' = "lost")
    BY <1>1 DEF Cause, Blamed
  <2>6. Dead("owner")' /\ apc' \notin Ending => blame' # "none"
    BY <1>1, <1>3, <2>4 DEF Cause, Blamed
  <2>7. blame' = "asked" => HungUp' \/ Dead("program")' \/ apc' \in Ending
    BY <1>1, <2>2, <2>3
  <2>8. trigger' = "owner-loss" => trigger = "owner-loss"
    BY <1>3
  <2> QED BY <2>1, <2>5, <2>6, <2>7, <2>8 DEF Cause, Blamed
<1>6. Requested'
  <2>1. spc' = "dead" => Dead("sdk")'
    BY <1>1, <1>2 DEF Cause, Requested
  <2>2. /\ spc' = spc \/ spc' = "dead"
        /\ trigger' = "requested" => trigger = "requested"
    BY <1>2, <1>3
  <2> QED BY <1>1, <1>3, <1>4, <2>1, <2>2 DEF Cause, Requested
<1>7. Answered'
  <2>1. HasPending' => HasPending
    BY <1>2 DEF HasPending
  <2>2. HasPending' \/ spc' = "stuck" => apc' \in Ending
    BY <1>2, <1>3, <2>1 DEF Cause, Answered
  <2>3. spc' \in {"held", "open", "launching", "gated", "binding", "committing", "running"} => held'
    BY <1>2 DEF Cause, Answered
  <2>4. apc' \in {"fork", "placing", "gate"} => toSDK' = <<>> /\ ~held' /\ trigger' = "none"
    BY <1>2, <1>3 DEF Cause, Answered
  <2>5. apc' \in {"serve", "born", "commit", "owner-seen"} \/ trigger' = "requested" =>
          held' \/ spc' = "dead" \/ (toSDK' # <<>> /\ Head(toSDK') = "boundary")
    BY <1>2, <1>3 DEF Cause, Answered
  <2> QED BY <2>2, <2>3, <2>4, <2>5 DEF Answered
<1>8. Rest'
  <2>1. trigger' \in Triggers /\ opc' \in {"begin", "loop", "drain"}
    BY <1>1, <1>3 DEF Cause, Rest, Triggers
  <2>2. notified' \in BOOLEAN
    BY <1>2 DEF Cause, Rest
  <2>3. spc' \in {"boot", "held", "open", "launching", "gated", "binding", "committing",
                  "running", "close", "requested", "closing", "closed", "stuck", "dead"}
    BY <1>2 DEF Cause, Rest
  <2> QED BY <1>2, <2>1, <2>2, <2>3 DEF Cause, Rest
<1> QED BY <1>5, <1>6, <1>7, <1>8 DEF Cause

(* Births, collections and moves leave what ended the family alone; the     *)
(* ancestor's packets among them are no close.                              *)
LEMMA FamilyCause ==
    ASSUME IInv, Delivery, Cause, Births \/ Reaps \/ Moves
    PROVE  Cause'
<1> USE Names
<1>1. /\ \A q \in Procs : Dead(q)' <=> Dead(q)
      /\ life'["ancestor"] = life["ancestor"]
  BY DEF Births, Reaps, Moves, ForkOwner, TakeLaunch, OwnerStarts, DaemonStarts, Starts, AncestorReaps, OwnerReaps,
     PlaceOwner, OpenOwnerGate, PlaceProgram, TakeCommit, GuardianJoins, Executes, Born, Reap, Dead, Living,
     IInv, Kin, KinTypes, Family
<1>2. UNCHANGED <<trigger, cert, notified, spc, held, receipt, reported, hand, blame>> /\ opc' \in {opc, "loop"}
  BY DEF Births, Reaps, Moves, ForkOwner, TakeLaunch, OwnerStarts, DaemonStarts, Starts, AncestorReaps, OwnerReaps,
     PlaceOwner, OpenOwnerGate, PlaceProgram, TakeCommit, GuardianJoins, Executes, Goes, ancVars, sdkVars, ownVars
<1>3. \/ UNCHANGED <<apc, toA, toSDK>>
      \/ apc \in {"fork", "placing"} /\ apc' \in {"placing", "gate"} /\ UNCHANGED <<toA, toSDK>>
      \/ apc = "gate" /\ apc' = "serve" /\ toSDK' = Append(toSDK, "boundary") /\ UNCHANGED toA
      \/ apc = "born" /\ apc' = "serve" /\ toSDK' = Append(toSDK, "primary") /\ UNCHANGED toA
      \/ /\ apc = "serve" /\ apc' \in {"born", "commit"} /\ UNCHANGED toSDK
         /\ toA # <<>> /\ Head(toA) # "close" /\ toA' = Tail(toA)
  BY DEF Births, Reaps, Moves, ForkOwner, TakeLaunch, OwnerStarts, DaemonStarts, Starts, AncestorReaps, OwnerReaps,
     PlaceOwner, OpenOwnerGate, PlaceProgram, TakeCommit, GuardianJoins, Executes, Goes, Packet, Taken, AncestorRuns,
     ancVars, sdkVars, ownVars
<1>4. HasClose' <=> HasClose
  BY <1>3, KeepsClose DEF IInv, HasClose
<1>5. /\ HasPending' => HasPending
      /\ apc' # "gate" /\ toSDK # <<>> => toSDK' # <<>> /\ Head(toSDK') = Head(toSDK)
  BY <1>3, KeepsHead DEF HasPending
<1>6. apc' \in Ending <=> apc \in Ending
  BY <1>3 DEF Ending
<1>7. Blamed'
  BY <1>1, <1>2, <1>3, <1>6 DEF Cause, Blamed, HungUp, Procs, Family
<1>8. Requested'
  BY <1>1, <1>2, <1>4, <1>6 DEF Cause, Requested, Procs
<1>9. Answered'
  <2>1. HasPending' \/ spc' = "stuck" => apc' \in Ending
    BY <1>2, <1>5, <1>6 DEF Cause, Answered
  <2>2. apc' \in {"fork", "placing", "gate"} => apc \in {"fork", "placing", "gate"} /\ toSDK' = toSDK
    BY <1>3
  <2>3. apc = "gate" /\ apc' = "serve" => toSDK' = <<"boundary">>
    BY <1>3 DEF Cause, Answered
  <2>4. apc' \in {"serve", "born", "commit", "owner-seen"} =>
          apc \in {"serve", "born", "commit", "owner-seen"} \/ (apc = "gate" /\ apc' = "serve")
    BY <1>3
  <2>5. apc' \in {"serve", "born", "commit", "owner-seen"} \/ trigger' = "requested" =>
          held' \/ spc' = "dead" \/ (toSDK' # <<>> /\ Head(toSDK') = "boundary")
    <3>1. apc = "gate" => trigger = "none"
      BY DEF Cause, Answered
    <3>2. CASE apc = "gate" /\ apc' = "serve"
      BY <2>3, <3>2
    <3>3. CASE apc # "gate" /\ apc' # "gate"
      <4>1. apc' \in {"serve", "born", "commit", "owner-seen"} \/ trigger' = "requested" =>
              apc \in {"serve", "born", "commit", "owner-seen"} \/ trigger = "requested"
        BY <1>2, <2>4, <3>3
      <4> QED BY <1>2, <1>5, <3>3, <4>1 DEF Cause, Answered
    <3>4. apc' = "gate" => trigger' # "requested"
      BY <1>2, <2>2 DEF Cause, Answered
    <3>5. apc = "gate" => apc' \in {"gate", "serve"}
      BY <1>3
    <3> QED BY <3>1, <3>2, <3>3, <3>4, <3>5
  <2> QED BY <1>2, <2>1, <2>2, <2>5 DEF Cause, Answered
<1>10. Rest'
  BY <1>2 DEF Cause, Rest
<1> QED BY <1>7, <1>8, <1>9, <1>10 DEF Cause

(* The ends of the service, the hand-off and the steps of the SDK. *)
LEMMA QuietCause ==
    ASSUME IInv, Delivery, Cause, Quiet
    PROVE  Cause'
<1> USE Names
<1>0. UNCHANGED procVars /\ \A q \in Procs : Dead(q)' <=> Dead(q)
  BY QuietKin DEF IInv, procVars, Dead
<1>1. CASE BootFault \/ SupervisorStop \/ ProgramExit \/ ControlEnds \/ OwnerLoss \/ TakeClose \/ ProtocolFault
  <2>1. /\ apc' = "finish" /\ toA' = <<>> /\ trigger' \in Triggers
        /\ UNCHANGED <<cert, notified, toSDK, spc, held, receipt, reported, opc, hand>>
        /\ blame' = IF trigger' = "owner-loss" THEN blame ELSE "none"
        /\ apc \notin Ending /\ life["ancestor"] = "alive"
        /\ trigger' = "owner-loss" => apc = "owner-seen"
        /\ trigger' = "requested" => apc = "serve" /\ toA # <<>> /\ Head(toA) = "close"
    BY <1>1 DEF BootFault, SupervisorStop, ProgramExit, ControlEnds, OwnerLoss, TakeClose, ProtocolFault, End,
       AncestorRuns, Packet, Ending, Triggers, Faults, sdkVars, ownVars
  <2>2. trigger' = "requested" => HasClose
    BY <2>1 DEF IInv, Control, HasClose
  <2>3. ~HasClose'
    BY <2>1 DEF HasClose
  <2>4. HasPending' => HasPending
    BY <2>1 DEF HasPending
  <2>5. Blamed'
    BY <1>0, <2>1 DEF Cause, Blamed, HungUp, Ending, Procs, Family
  <2>6. Requested'
    BY <1>0, <2>1, <2>2, <2>3 DEF Cause, Requested, Answered, Procs, Ending
  <2>7. Answered'
    BY <2>1, <2>4 DEF Cause, Answered, Ending
  <2> QED BY <2>1, <2>5, <2>6, <2>7 DEF Cause, Rest
<1>2. CASE OwnerSeen
  <2>1. /\ apc = "serve" /\ apc' = "owner-seen" /\ life["ancestor"] = "alive" /\ toA = <<>>
        /\ ~Dead("sdk") /\ ~Dead("program") /\ Dead("owner")
        /\ UNCHANGED <<trigger, cert, notified, toA, toSDK, spc, held, receipt, reported, opc, hand, blame>>
    BY <1>2 DEF OwnerSeen, AncestorRuns, Goes, sdkVars, ownVars
  <2>2. ~HasClose
    BY <2>1 DEF HasClose
  <2>3. ~HungUp
    BY <2>1, <2>2 DEF Cause, Requested, Answered, HungUp, Ending
  <2>4. blame = "lost"
    BY <2>1, <2>3 DEF Cause, Blamed, Ending
  <2> QED BY <1>0, <2>1, <2>4 DEF Cause, Blamed, Requested, Answered, Rest, HasClose, HasPending, HungUp, Ending, Procs, Family
<1>3. CASE TakeLaunchAgain \/ Committed \/ Pending
  <2>1. PICK m \in {"primary", "committed", "pending"} : toSDK' = Append(toSDK, m) /\ (m = "pending" => apc \in Ending)
    BY <1>3 DEF TakeLaunchAgain, Committed, Pending, AncestorRuns, Ending
  <2>2. /\ UNCHANGED <<trigger, cert, spc, held, receipt, reported, opc, hand, blame>> /\ notified' \in {notified, TRUE}
        /\ apc' = apc \/ (apc = "commit" /\ apc' = "serve")
        /\ apc \notin {"fork", "placing", "gate"}
        /\ toA' = toA \/ (toA # <<>> /\ Head(toA) # "close" /\ toA' = Tail(toA))
    BY <1>3 DEF TakeLaunchAgain, Committed, Pending, AncestorRuns, Packet, Taken, Goes, ancVars, sdkVars, ownVars
  <2>0. /\ UNCHANGED life /\ (apc' \in Ending <=> apc \in Ending) /\ (apc' = "owner-seen" => apc = "owner-seen")
        /\ HungUp' <=> HungUp
    BY <1>0, <2>2 DEF Ending, HungUp, procVars
  <2>3. HasClose' <=> HasClose
    BY <2>2, KeepsClose DEF IInv, HasClose
  <2>4. /\ HasPending' => HasPending \/ m = "pending"
        /\ toSDK # <<>> => toSDK' # <<>> /\ Head(toSDK') = Head(toSDK)
    BY <2>1, KeepsHead DEF HasPending
  <2>5. Blamed'
    BY <1>0, <2>0, <2>2 DEF Cause, Blamed, Procs, Family
  <2>6. Requested'
    BY <1>0, <2>0, <2>2, <2>3 DEF Cause, Requested, Procs
  <2>7. Answered'
    BY <2>1, <2>2, <2>4 DEF Cause, Answered, Ending
  <2>8. Rest'
    <3>1. Rest /\ notified' \in BOOLEAN
      BY <2>2 DEF Cause, Rest
    <3> QED BY <2>2, <3>1 DEF Rest
  <2> QED BY <2>5, <2>6, <2>7, <2>8 DEF Cause
<1>4. CASE Certify
  <2>1. /\ apc = "finish" /\ apc' = "sent" /\ cert' = trigger
        /\ UNCHANGED <<trigger, notified, toA, spc, held, receipt, reported, opc, hand, blame>>
        /\ toSDK' = toSDK \/ toSDK' = Append(toSDK, "certificate")
    BY <1>4 DEF Certify, AncestorRuns, sdkVars, ownVars
  <2>2. toSDK # <<>> => toSDK' # <<>> /\ Head(toSDK') = Head(toSDK)
    BY <2>1, KeepsHead
  <2> QED BY <1>0, <2>1, <2>2 DEF Cause, Blamed, Requested, Answered, Rest, HasClose, HungUp, Ending, Procs, Family
<1>5. CASE GuardianPasses \/ OwnerTakes \/ OwnerLeaves \/ Opens \/ LaunchTimeout \/ Bind \/ CloseControl \/ Finish
  <2>1. /\ UNCHANGED <<apc, trigger, cert, notified, toA, toSDK, held, receipt, blame>>
        /\ reported' \in {reported, TRUE} /\ opc' \in {opc, "drain"} /\ hand' \in {hand, "sent", "guardian", "owner", "acked"}
    BY <1>5 DEF GuardianPasses, OwnerTakes, OwnerLeaves, Opens, LaunchTimeout, Bind, CloseControl, Finish, ancVars, sdkVars, ownVars
  <2>2. \/ spc' = spc
        \/ spc \in {"held", "open", "launching", "gated"} /\ spc' \in {"open", "gated", "binding"}
        \/ spc' = "close" /\ spc \notin {"requested", "closing", "closed", "stuck", "dead"}
        \/ spc = "requested" /\ spc' = "closing"
        \/ spc = "closing" /\ spc' = "closed"
    BY <1>5 DEF GuardianPasses, OwnerTakes, OwnerLeaves, Opens, LaunchTimeout, Bind, CloseControl, Finish, SDKRuns, ancVars, sdkVars, ownVars
  <2>3. (HasClose' <=> HasClose) /\ (HasPending' <=> HasPending) /\ (HungUp => HungUp') /\ UNCHANGED life
    BY <1>0, <2>1, <2>2 DEF HasClose, HasPending, HungUp, procVars
  <2>4. Blamed'
    BY <1>0, <2>1, <2>3 DEF Cause, Blamed, Procs, Family, Ending
  <2>5. Requested'
    <3>1. ~HasClose \/ spc \notin {"held", "open", "launching", "gated", "close"}
      BY DEF Cause, Requested
    <3>2. trigger # "requested" \/ spc \in {"requested", "closing", "closed", "dead"}
      BY DEF Cause, Requested
    <3> QED BY <1>0, <2>1, <2>2, <2>3 DEF Cause, Requested, Procs, Ending
  <2>6. Answered'
    BY <2>1, <2>2, <2>3 DEF Cause, Answered, Ending
  <2>7. Rest'
    <3>1. reported' \in BOOLEAN /\ opc' \in {"begin", "loop", "drain"}
      BY <2>1 DEF Cause, Rest
    <3>2. hand' \in {"no", "sent", "guardian", "owner", "acked"}
      BY <2>1 DEF Cause, Rest
    <3>3. spc' \in {"boot", "held", "open", "launching", "gated", "binding", "committing",
                    "running", "close", "requested", "closing", "closed", "stuck", "dead"}
      BY <2>2 DEF Cause, Rest
    <3> QED BY <2>1, <3>1, <3>2, <3>3 DEF Cause, Rest
  <2> QED BY <2>4, <2>5, <2>6, <2>7 DEF Cause
<1>6. CASE Launch \/ Commit \/ RequestClose
  <2>1. /\ UNCHANGED <<apc, trigger, cert, notified, toSDK, held, receipt, reported, opc, hand, blame>>
        /\ \/ spc \in {"open", "binding"} /\ spc' \in {"launching", "committing"}
              /\ (toA' = toA \/ \E m \in {"launch", "commit"} : toA' = Append(toA, m))
           \/ /\ spc \in {"boot", "held", "open", "gated", "binding", "committing", "running", "close"}
              /\ spc' = "requested" /\ toA' \in {toA, Append(toA, "close")}
              /\ receipt = "none" /\ life["ancestor"] = "alive" /\ apc \notin Ending => toA' = Append(toA, "close")
    BY <1>6 DEF Launch, Commit, RequestClose, Closes, Sends, SDKRuns, ancVars, ownVars
  <2>2. receipt # "none" => apc \in Ending
    BY DEF Delivery, IInv, Control, Ending
  <2>3. /\ HasClose => HasClose'
        /\ HasClose' => HasClose \/ spc' = "requested"
        /\ spc' = "requested" /\ life["ancestor"] = "alive" /\ apc \notin Ending => HasClose'
    BY <2>1, <2>2, KeepsClose DEF IInv, HasClose
  <2> QED BY <1>0, <2>1, <2>3 DEF Cause, Blamed, Requested, Answered, Rest, HasPending, HungUp, Ending, Procs, Family, procVars
<1>7. CASE Bootstrap \/ LaunchAnswer \/ CommitAnswer \/ ReadCertificate
  <2>1. /\ toSDK # <<>> /\ toSDK' = Tail(toSDK)
        /\ UNCHANGED <<apc, trigger, cert, notified, toA, reported, opc, hand, blame>>
        /\ life["sdk"] = "alive" \/ held
    BY <1>7 DEF Bootstrap, LaunchAnswer, CommitAnswer, ReadCertificate, SDKRuns, ancVars, ownVars
  <2>2. HasPending' => HasPending
    BY <2>1, KeepsHead DEF HasPending
  <2>3. Head(toSDK) = "pending" => HasPending
    BY <2>1 DEF Delivery, HasPending
  <2>4. /\ held => held' /\ (spc' = "stuck" => spc = "stuck")
        /\ ~held => Bootstrap
    BY <1>7 DEF Bootstrap, LaunchAnswer, CommitAnswer, ReadCertificate, SDKRuns, Cause, Answered
  <2>5. ~held => /\ \/ Head(toSDK) = "boundary" /\ held' /\ receipt' = receipt /\ (spc' = spc \/ (spc = "boot" /\ spc' = "held"))
                    \/ Head(toSDK) = "certificate" /\ ~held' /\ receipt' = cert /\ (spc' = spc \/ (spc = "boot" /\ spc' = "close"))
                    \/ Head(toSDK) = "pending" /\ ~held' /\ receipt' = receipt /\ spc' = "stuck"
                 /\ spc \in {"boot", "closing"}
    BY <2>4 DEF Bootstrap, SDKRuns, Cause, Rest
  <2>6. held => /\ \/ spc' = spc
                   \/ spc = "launching" /\ spc' \in {"gated", "open"}
                   \/ spc = "committing" /\ spc' \in {"running", "close"}
                /\ receipt' \in {receipt, cert} /\ held' = held
    BY <1>7 DEF Bootstrap, LaunchAnswer, CommitAnswer, ReadCertificate, SDKRuns
  <2>7. Blamed'
    BY <1>0, <2>1, <2>5, <2>6 DEF Cause, Blamed, HungUp, Ending, Procs, Family
  <2>8. Requested'
    BY <1>0, <2>1, <2>3, <2>5, <2>6 DEF Cause, Requested, Answered, HasClose, Ending, Procs, procVars
  <2>9. Answered'
    BY <2>1, <2>2, <2>3, <2>5, <2>6 DEF Cause, Answered, Ending
  <2>10. Rest'
    <3>1. held' \in BOOLEAN
      <4>1. held' = held \/ held' = TRUE
        BY <1>7 DEF Bootstrap, LaunchAnswer, CommitAnswer, ReadCertificate
      <4> QED BY <4>1 DEF Cause, Rest
    <3>2. receipt' \in Triggers
      <4>1. receipt' = receipt \/ receipt' = cert
        BY <2>5, <2>6
      <4> QED BY <4>1 DEF Cause, Rest
    <3> QED BY <2>1, <2>5, <2>6, <3>1, <3>2 DEF Cause, Rest
  <2> QED BY <2>7, <2>8, <2>9, <2>10 DEF Cause
<1> QED BY <1>1, <1>2, <1>3, <1>4, <1>5, <1>6, <1>7 DEF Quiet

LEMMA CauseStep == IInv /\ Delivery /\ Cause /\ [Next]_vars => Cause'
<1> SUFFICES ASSUME IInv, Delivery, Cause, [Next]_vars PROVE Cause'
  OBVIOUS
<1>1. CASE UNCHANGED vars
  BY <1>1 DEF vars, Cause, Blamed, Requested, Answered, Rest, HasClose, HasPending, HungUp, Dead
<1> QED BY <1>1, Kinds, QuietCause, DeadlyCause, FamilyCause

(* The trigger of a certificate is true: an orderly end is no loss of the   *)
(* owner, and a requested end was requested.                                *)
THEOREM Triggered == Spec => []TriggerIsTrue
<1>1. Init => Delivery /\ Cause
  <2> SUFFICES ASSUME Init PROVE Delivery /\ Cause
    OBVIOUS
  <2>1. Delivery
    BY DEF Init, Delivery, Ending
  <2>2. life["owner"] = "none" /\ life["sdk"] = "alive"
    BY Names DEF Init, Family
  <2>3. ~HasClose /\ ~HasPending
    BY DEF Init, HasClose, HasPending
  <2>4. Blamed /\ Requested
    BY <2>2, <2>3 DEF Init, Blamed, Requested, Dead
  <2>5. Answered /\ Rest
    BY <2>3 DEF Init, Answered, Rest, Triggers
  <2> QED BY <2>1, <2>4, <2>5 DEF Cause
<1>2. IInv /\ Delivery /\ Cause => TriggerIsTrue
  BY DEF IInv, Kin, KinTypes, Control, Delivery, Messages, Cause, Blamed, Requested, Rest, TriggerIsTrue, TypeOK
<1> QED BY <1>1, <1>2, DeliveryStep, CauseStep, Initial, Inductive, PTL DEF Spec

-----------------------------------------------------------------------------
(* Where a certificate can be lost. *)
HasCertificate == \E i \in DOMAIN toSDK : toSDK[i] = "certificate"

(* What CertificateKept leaves: the certificate of a living SDK is only ever *)
(* lost as the answer of a launch or a commit, which takes any packet that   *)
(* is not the one it waits for as a failure and drops it (bus_supervision.py,*)
(* launch_primary and commit_primary); no close and no bootstrap loses it.   *)
LostOnlyInAnswers ==
    [][CertificateKept /\ ~CertificateKept' => spc \in {"launching", "committing"}]_vars

(* The certificate stays in the queue when a packet follows it, and a reader *)
(* that takes another packet leaves it there.                                *)
LEMMA KeepsCertificate ==
    ASSUME Delivery
    PROVE  /\ \A m \in Messages :
                /\ HasCertificate => \E i \in DOMAIN Append(toSDK, m) : Append(toSDK, m)[i] = "certificate"
                /\ m = "certificate" => \E i \in DOMAIN Append(toSDK, m) : Append(toSDK, m)[i] = "certificate"
           /\ HasCertificate /\ toSDK # <<>> /\ Head(toSDK) # "certificate"
                => \E i \in DOMAIN Tail(toSDK) : Tail(toSDK)[i] = "certificate"
<1> USE DEF Delivery, HasCertificate
<1>1. ASSUME NEW m \in Messages
      PROVE  /\ HasCertificate => \E i \in DOMAIN Append(toSDK, m) : Append(toSDK, m)[i] = "certificate"
             /\ m = "certificate" => \E i \in DOMAIN Append(toSDK, m) : Append(toSDK, m)[i] = "certificate"
  <2>1. \A i \in DOMAIN toSDK : i \in DOMAIN Append(toSDK, m) /\ Append(toSDK, m)[i] = toSDK[i]
    OBVIOUS
  <2>2. Len(toSDK) + 1 \in DOMAIN Append(toSDK, m) /\ Append(toSDK, m)[Len(toSDK) + 1] = m
    OBVIOUS
  <2> QED BY <2>1, <2>2
<1>2. ASSUME HasCertificate, toSDK # <<>>, Head(toSDK) # "certificate"
      PROVE  \E i \in DOMAIN Tail(toSDK) : Tail(toSDK)[i] = "certificate"
  <2>1. \A i \in DOMAIN toSDK : i = 1 \/ (i - 1 \in DOMAIN Tail(toSDK) /\ Tail(toSDK)[i - 1] = toSDK[i])
    BY <1>2
  <2>2. toSDK[1] = Head(toSDK)
    BY <1>2
  <2> QED BY <1>2, <2>1, <2>2
<1> QED BY <1>1, <1>2

LEMMA CertificateStep ==
    ASSUME IInv, Delivery, CertificateKept, [Next]_vars, spc \notin {"launching", "committing"}
    PROVE  CertificateKept'
<1>kept. cert # "none" /\ life["sdk"] = "alive" => receipt = cert \/ HasCertificate
  BY DEF CertificateKept, HasCertificate
<1>goal. CertificateKept' <=> (cert' # "none" /\ life'["sdk"] = "alive" => receipt' = cert' \/ HasCertificate')
  BY DEF CertificateKept, HasCertificate
<1>same. ASSUME UNCHANGED <<cert, toSDK>>, receipt' = receipt, life'["sdk"] = "alive" => life["sdk"] = "alive"
         PROVE  CertificateKept'
  BY <1>same, <1>kept, <1>goal DEF HasCertificate
<1>1. CASE UNCHANGED vars
  BY <1>1, <1>same DEF vars
<1>2. ASSUME NEW p \in Procs, Deadly(p) PROVE CertificateKept'
  <2>1. Die(p)
    BY <1>2, DeadlyDies
  <2>2. life'["sdk"] = "alive" => life["sdk"] = "alive"
    <3>1. life' = [q \in Procs |->
             CASE q = p -> (IF parent[p] = "init" THEN "gone" ELSE "zombie")
               [] q \in {r \in Procs : parent[r] = p} /\ life[q] = "zombie" /\ Heir(p) = "init" -> "gone"
               [] OTHER -> life[q]]
      BY <2>1 DEF Die
    <3>2. "sdk" \in Procs
      BY DEF Procs
    <3> QED BY <3>1, <3>2
  <2>3. CASE p = "sdk" /\ SDKExits
    <3>1. life["sdk"] = "alive" /\ life'["sdk"] # "alive"
      <4>1. life'["sdk"] \in {"gone", "zombie"}
        BY <2>1, <2>3 DEF Die, Procs
      <4> QED BY <2>3, <4>1 DEF SDKExits
    <3> QED BY <3>1, <1>goal
  <2>4. CASE ~(p = "sdk" /\ SDKExits)
    <3>1. UNCHANGED <<cert, toSDK, receipt>>
      BY <1>2, <2>4 DEF Deadly, Exits, AncestorExits, AncestorLost, ControllerExits, OwnerExits, GuardianExits, ParentDeath,
         AncestorKills, GuardianStops, OwnerKills, Cull, Goes, ancVars, sdkVars
    <3> QED BY <3>1, <2>2, <1>same
  <2> QED BY <2>3, <2>4
<1>3. CASE Births \/ Reaps \/ PlaceOwner \/ TakeCommit \/ GuardianJoins \/ Executes
  <2>1. UNCHANGED <<cert, toSDK, receipt>>
    BY <1>3 DEF Births, Reaps, ForkOwner, TakeLaunch, OwnerStarts, DaemonStarts, Starts, AncestorReaps,
       OwnerReaps, PlaceOwner, TakeCommit, GuardianJoins, Executes, Goes, ancVars, sdkVars
  <2>2. life'["sdk"] = life["sdk"]
    <3>1. "sdk" \in Procs /\ "sdk" \notin Family /\ life \in [Procs -> {"none", "gated", "opening", "alive", "zombie", "gone"}]
      BY Names DEF IInv, Kin, KinTypes, Procs, Family
    <3>2. CASE Births
      <4>1. PICK q \in Family, how \in {"gated", "alive"} : life' = [life EXCEPT ![q] = how]
        BY <3>2 DEF Births, ForkOwner, TakeLaunch, OwnerStarts, DaemonStarts, Starts, Family, Born
      <4> QED BY <3>1, <4>1
    <3>3. CASE Reaps
      BY <3>1, <3>3 DEF Reaps, AncestorReaps, OwnerReaps, Reap
    <3>4. CASE PlaceOwner \/ TakeCommit \/ GuardianJoins \/ Executes
      BY <3>1, <3>4 DEF PlaceOwner, TakeCommit, GuardianJoins, Executes
    <3> QED BY <1>3, <3>2, <3>3, <3>4
  <2> QED BY <2>1, <2>2, <1>same
<1>4. CASE OpenOwnerGate \/ PlaceProgram \/ TakeLaunchAgain \/ Committed \/ Pending
  <2>1. PICK m \in Messages : toSDK' = Append(toSDK, m)
    BY <1>4 DEF OpenOwnerGate, PlaceProgram, TakeLaunchAgain, Committed, Pending, Messages
  <2>2. UNCHANGED <<cert, receipt>>
    BY <1>4 DEF OpenOwnerGate, PlaceProgram, TakeLaunchAgain, Committed, Pending, Goes, ancVars, sdkVars
  <2>3. life'["sdk"] = life["sdk"]
    BY <1>4, Names DEF OpenOwnerGate, PlaceProgram, TakeLaunchAgain, Committed, Pending, procVars, IInv, Kin, KinTypes, Procs
  <2>4. HasCertificate => HasCertificate'
    BY <2>1, KeepsCertificate DEF HasCertificate
  <2> QED BY <2>2, <2>3, <2>4, <1>kept, <1>goal
<1>5. CASE BootFault \/ SupervisorStop \/ ProgramExit \/ ControlEnds \/ OwnerSeen \/ OwnerLoss
           \/ TakeClose \/ ProtocolFault
  BY <1>5, <1>same DEF BootFault, SupervisorStop, ProgramExit, ControlEnds, OwnerSeen, OwnerLoss,
     TakeClose, ProtocolFault, End, Goes, sdkVars, procVars
<1>6. CASE Certify
  <2>1. life' = life
    BY <1>6 DEF Certify, procVars
  <2>2. life["sdk"] = "alive" => toSDK' = Append(toSDK, "certificate")
    BY <1>6 DEF Certify, Dead
  <2>3. life["sdk"] = "alive" => HasCertificate'
    BY <2>2, KeepsCertificate DEF HasCertificate, Messages
  <2> QED BY <2>1, <2>3, <1>goal
<1>7. CASE GuardianPasses \/ OwnerTakes \/ OwnerLeaves \/ Opens \/ Launch \/ LaunchTimeout \/ Bind \/ Commit
           \/ RequestClose \/ CloseControl \/ Finish
  BY <1>7, <1>same DEF GuardianPasses, OwnerTakes, OwnerLeaves, Opens, Launch, LaunchTimeout, Bind, Commit, RequestClose,
     CloseControl, Finish, ancVars, sdkVars, procVars
<1>8. CASE Bootstrap \/ ReadCertificate
  <2>1. /\ toSDK # <<>> /\ toSDK' = Tail(toSDK) /\ receipt = "none"
        /\ UNCHANGED cert /\ UNCHANGED life
        /\ IF Head(toSDK) = "certificate" THEN receipt' = cert ELSE receipt' = receipt
    BY <1>8 DEF Bootstrap, ReadCertificate, ancVars, procVars
  <2>2. HasCertificate /\ Head(toSDK) # "certificate" => HasCertificate'
    BY <2>1, KeepsCertificate DEF HasCertificate
  <2> QED BY <2>1, <2>2, <1>kept, <1>goal
<1>9. CASE LaunchAnswer \/ CommitAnswer
  BY <1>9 DEF LaunchAnswer, CommitAnswer, SDKRuns
<1> QED BY <1>1, <1>2, <1>3, <1>4, <1>5, <1>6, <1>7, <1>8, <1>9, Kinds DEF vars, Quiet, Moves

(* No step but the answer to a launch or to a commit loses a certificate.   *)
THEOREM CertificateLoss == Spec => LostOnlyInAnswers
<1>1. Init => Delivery
  BY DEF Init, Delivery, Ending
<1>2. IInv /\ Delivery /\ [Next]_vars => Delivery'
  BY DeliveryStep
<1>3. IInv /\ Delivery /\ [Next]_vars
         => [CertificateKept /\ ~CertificateKept' => spc \in {"launching", "committing"}]_vars
  BY CertificateStep
<1> QED BY <1>1, <1>2, <1>3, Initial, Inductive, PTL DEF Spec, LostOnlyInAnswers
=============================================================================
