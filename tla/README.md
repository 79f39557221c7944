# A verification project for Kilix

Kilix is a terminal desktop: a `kitty` engine with a PTY broker, and a set of
programs that let people and coding agents act on each other's terminals. Most
of its code is presentation. The parts that can destroy somebody's work are
small and hard to test: they end sessions, type into another agent's prompt,
start and stop coding clients, and clean up after programs with windows, and
they do so from several processes that share only files, locks, sockets and a
terminal. This directory models those parts in TLA+, checks the models with TLC
and proves theorems about every one of them with TLAPS.

Paths below are relative to the repository root. `PROJECT.json` maps every
definition to the lines it models and lists runs, mutants, hazards, findings
and theorems.

## 1. Inventory

### The parts that are modelled

| Part | State it keeps | Operations | Who acts on it |
|---|---|---|---|
| **PTY operation store** `config/kilix_pty_request.py` | a directory with one JSON record and one lock file per `operation_id`; the directory's own flock | `execute` (verb kill): `reserve`, dispatch, save or forget; `make_room`, sweep | any number of `kilix pty request` processes, the broker |
| **PTY selector** `config/kilix_pty_selector.py`, `_validation.py` | the same store, with records that go through reserved, resolved, dispatch, done | `execute` (verb end): `reserve`, `perform`, `save_phase` | supervisors and agents; the broker's census |
| **PTY controller** `config/kilix_pty_controller.py` | in memory: one grant per process, consumed or not, and its result | `select`, `dispatch`, `revoke` | trusted terminal, constrained actor |
| **PTY supervisor** `config/kilix_pty_supervisor.py` | in memory: what the user confirmed, the actor's process and socket, limits, the receipts so far | preview, confirmation and issue; the loop that serves the actor; revocation and deadlines; the report | the user at the terminal, the actor in its sandbox, clocks |
| **Agent delivery** `config/agent_delivery.py` | a private ledger per target pane: one receipt per message id, one lock | `deliver` in modes steer and defer, recovery, finish-staged | several senders, a human at the same prompt, the client that reads the terminal |
| **Agent actions** `config/agent_actions.py` | one record and one lock per operation id | `dispatch` | agents; calls `deliver` and `launch` |
| **Managed sessions** `config/kilix_session/` | per run: `run.json`, `launch.json`, `stop.json`, `worker.claim`; a process group | `launch`, the worker's `run`, `inspect_run`, `wait`, `stop` | launcher, worker, terminal engine, provider and its descendants, observers |
| **Private GUI bus** `config/kilix_sdk/bus_supervisor.py`, `bus_supervision.py`, `private_bus.py`, `process_pin.py` | a family of processes in two nested control groups; a control socket; pidfds handed from one to the other | launch and commit behind birth gates, the owner's and guardian's loops, both drains, certificate, close | root service (its controller and the wait owner it forks), cleanup owner, guardian, bus daemon, program, SDK, kernel |

How they interact: the supervisor shows the user what the controller resolves
and issues its grant; the controller hands the selector a callback which the
selector calls between two of its durable phases; the selector derives its
store from the one of `kilix_pty_request`; `agent_actions.dispatch` calls
`deliver` with a client whose inputs first make the action's intent durable;
`KilixSession` saves its files with `agent_delivery.Ledger.write` and asks the
engine for panes through the session grid. Between those processes there are no
messages: everything goes through files, flocks, process groups and the tty.
The GUI bus stands by itself and is the opposite: it keeps nothing on disk, and
everything depends on sockets, parent-death signals and who waits for whom.

What is hard, and what makes each part correct:

- *Store*: an operation may be retried by anybody at any time, its owner may be
  dead, waiting or slow, its lock file may be unlinked while others have it
  open, its record may be pruned, the directory may not reach the disk. Correct
  means: one terminate request per operation, evidence of a request survives
  everything, a receipt that was given out as durable is what is replayed,
  every call ends.
- *Selector and controller*: between the moment a user selects a session and
  the request, the session may end and another take its name; the grant may
  expire; exceptions and cancellations happen anywhere. Correct means: what is
  ended is what was selected, once per grant and once per id, and nobody is told
  "nothing was sent" when something was.
- *Supervisor*: the session may be replaced while the user reads its name, and
  a deadline may cut off a request that is in the store, in the broker or on its
  way back. Correct means: what is ended is what the user read, and the report
  never claims less than happened.
- *Delivery*: text and submit key are two inputs that arrive asynchronously in
  a prompt which a human and other senders use too, and the only feedback is
  the screen. Correct means: no input twice, no input without a durable
  receipt, `submitted` only for what the agent was given, no mixture.
- *Actions*: two ledgers written at different times. Correct means: executed
  once, `blocked` is harmless, the ledgers agree.
- *Sessions*: the launcher may give up before the pane opens, a worker may be
  invoked twice, the provider may fork and ignore signals, somebody else may
  reap the child. Correct means: one provider, a cleared process group, no
  signal to a stranger (one at most, when somebody else reaps the child), a stop that ends the run, truthful records.
- *GUI bus*: every process of the family may die at any moment, orphans change
  hands between three subreapers, and the drain runs while others still start
  things. Correct means: nothing of the family ever runs outside its control
  group, a certificate is only sent when everything has exited and has been
  waited for, it says truly why the family ended, and the family ends whenever
  the SDK is gone or closing or the root's controller is lost, unless its wait
  owner is lost alone.

### The parts that are not modelled

Section 6 says which parts these are and why; `PROJECT.json` lists each one. The
broker, the engine and `kilix-state` are submodules and not part of the
repository; the models take from them only what the code here relies on.

## 2. Modules

| Module | Models | Uses |
|---|---|---|
| `TerminateOnce` | abstract: the life of one operation id | |
| `PtyOperations` | the operation store | implements `TerminateOnce` |
| `PtySelector` | ending a session by selector | |
| `PtyController` | grants, on top of the selector | extends `PtySelector`, implements `TerminateOnce` |
| `PtySupervisor` | the terminal supervisor, next to other users of the controller | extends `PtyController` |
| `DeliverOnce` | abstract: the life of one message id | |
| `AgentDelivery` | `deliver` and its ledger | implements `DeliverOnce` |
| `AgentActions` | structured actions, on top of delivery | extends `AgentDelivery` |
| `KilixSession` | one managed run | |
| `PrivateBus` | the family of processes of one private bus | |
| `*_proofs` | the theorems about a module | the module, `TLAPS` |
| `MC*` | symmetry sets for TLC | |

Conventions. A process is a `pc` value; an action is what happens between two
points at which another process, a crash or a power loss can be seen. A
parameter `p`, `c` or `w` is the process. `Goto` moves its `pc`, `Answer` or
`Return` ends its call. A comment `Mutant of X` marks a plausible bug of `X`;
mutants are not part of any specification, they show that the property which
names them can fail.

### PtyOperations

`record[o]` is what a reader of the directory sees, `disk[o]` what the next
boot finds: `Write` replaces the first and, unless the directory fsync fails,
equates the second. `lockFile[o]` is the inode the lock path names and
`holder[i]` who holds its flock, so that a lock file can be unlinked under a
waiter and the path can name a newer file. `fd[c]` is the lock file a call has
open: as owner, as waiter, or won and not looked at yet.

| Actions | Code |
|---|---|
| `Ask`, `EnterStore`, `StoreUnavailable` | `execute`, `Store.locked` |
| `AnswerEvicted`, `AnswerFromRecord`, `SeeIntent` | the reads of `reserve` |
| `Probe`, `SettleOrphan` | recovery of an intent nobody owns |
| `OpenWaiting`, `WinOwner`, `GiveUpWaiting` | the wait for the owner and the re-read |
| `StartAdmission`, `SkipRecord`, `PruneRecord`, `UnlinkLock`, `SweepLocks` | `make_room` |
| `ClaimLock`, `ClaimRefused`, `WriteIntent`, `IntentNotDurable` | the claim |
| `Send`, `ReturnDocument`, `DispatchFails`, `EnterSave`, `SaveReceipt`, `SaveFails`, `Forget`, `CloseOwner` | dispatch and receipt |
| `Crash`, `PowerLoss`, `Tick` | the environment |

Abstractions: answers are left out except `promised`; the store-lock timeout,
unreadable records and failed opens are the one action `StoreUnavailable`; the
scratch file of `Store.write` is invisible; an unlink that fails in `make_room`
is not modelled; lock files outlive a power loss (they hold no information
then, since nobody holds them).

### PtySelector, PtyController and PtySupervisor

Each `with store.locked()` section is one action and `owner[o]` is the owner's
flock: the inode-level protocol is the code `PtyOperations` models in detail.
`current` is the incarnation a selector resolves to; it changes at any moment.
`Bind`, `Pass`, `Arm`, `Send`, `EndAnswer`, `Finish` are the phases of
`perform`; `Check` is the controller's callback between the phases resolved and
dispatch; `Unsaved`, `AnswerFailed`, `Cancel` and `Die` are its failures.
`said[p]` is `request_sent` of the answer the process keeps under its grant.
The expiry of a grant is the flag `fresh`, which may fall at any time. The
broker's answers are taken as true.

A supervision goes through the stages off, shown (the user reads `confirmed`),
actor, call (an end request of the actor is in flight) and report; it is off
again once the report is out or the process is gone. `heard` is the outcome as
the receipts stand, and `unheard` remembers a request that went out without a
receipt. `Show` and `Issue` are the preview and the confirmation; `CallEnd`,
`CallStep`, `Answered` and `CallRefused` serve the actor; `WorkDeadline` is the
alarm that raises out of the call wherever it is, `StopActor` every other end of
the loop, and both revoke, as `RawMismatch` does. The processes outside
`Supervised` use a controller of their own in any way at all, under the same
ids.

Left out: the sandbox arguments, the checks of the endpoint, resource limits,
the census of the cleanup, and supervisions that hold no grant to end anything.
Reads and malformed requests change nothing and appear only as the moments at
which a deadline may fall.

### AgentDelivery and AgentActions

One target. A composer is the sequence of fragments in it: the wire of a
message, or what a human typed. `pending` is input the client has not read;
`AgentReads` moves one item into the composer or, for Enter, the composer into
`turns`. The ids in `Deferred` are sent in mode defer: submitted with Tab, only
to an agent whose screen says it works (`MayKey`), and recorded as deferred
once the follow-up is shown as queued. `activity` is what the screen says. A
screen read is one action, and the steps `drafted`, `recheck`, `arm`, `key` are
the gap between a read, the durable phase that follows and the input after
that. `HumanTypes`, `HumanSubmits`, `HumanClears`, `Scroll` and `AgentRestarts`
happen at any time. Input is written by a child of the sender, `kitten`
(`config/agent_control.py:305`), which has no share in the lock: when a sender
is killed while it waits for that child (`Crash` in `pasting` or `keying`), the
input has been written, is lost with the child, or stays in its hands: then it
is in `late`, and `LateInput` writes it at any later time, whoever holds the
lock by then. `orphans` is the history of such inputs.
`AgentActions` lets a delivery run inside an operation:
`BeforeMutation` is the intent that precedes every input, and `Killed` drops
both locks.

Left out: the replacement of a completed suggestion, envelopes, how a screen is
recognised, power loss.

### KilixSession

`run` and `launch` are the files; of `run.json` the status, the runner and the
cleanup error. `lpc`, `wpc` and `opc` are the launcher, the workers and the
observers. `leader` is the provider's process: running, exited (unreaped),
reaped, taken by another waiter, or collected (taken, and `proc.wait`
answered 0). `child` says whether a descendant lives in the group. A save that
raises has replaced the file or not. `_group_signal` is two steps: `Check` is
its `waitid` (`config/kilix_session/runner.py:63`) and raises when another
waiter has the child, `Send` its `killpg` (`:65`); each place that signals is a
pair of them: `CheckContinue` and `Continue` (SIGCONT to an interactive
provider), `Poll` and `Forward`, `Escalate` and `Enforce`, `CheckTerm` and
`TermGroup`, `CheckKill` and `KillGroup`, and the two pairs of the handler,
`CheckBury` and `BuryTerm`, `CheckBurying` and `BuryKill`. Between the two
anything may happen, and `strays` counts the signals that were sent to a number
no process of the run holds any more. The receipt of a launched worker names it
only while it is there (`process_identity`). What TERM does is the provider's
choice; KILL ends the group. Atomic here: the section under `stop.lock`. The
terminal's hand-over is the branch of `Start` that raises.

### PrivateBus

A process is none, gated (born, waiting for its gate), opening (the gate is
open, the command not executed yet), alive, a zombie or gone. `parent` is who
would wait for it, `group` the control group it is in (the inner one lies in the
outer one), `below` the processes that descend from the owner. `Die` is any
end: it hands the orphans to the nearest living subreaper (`Heir`).

The root service is two processes. The `controller` is its main process: it
forks the wait owner, waits for it and keeps what that one leaves behind, but
signals and collects nobody else; it leaves only when it has no child any more
(`ControllerExits`). The wait owner is the `ancestor` of the model: it gives
birth, serves the control socket, drains and certifies. Before each birth and
commit it looks whether its controller lives (`MayBear`); when it does not, the
service ends as after a refused packet. `AncestorLost` is the death of the wait
owner alone, after which its orphans are the controller's. What the SDK watches
is the controller: its own kill of the group (`Cull`) waits for the end of that
process (`config/kilix_sdk/bus_supervision.py:1261`, `:1270`).

`apc` is the wait owner: birth of the owner (`fork`, `placing`, `gate`),
`serve`, the two-step launch (`born`) and commit, the moment at which it has
seen the owner gone and not yet looked at the program (`owner-seen`), `finish`
(the drain), `sent`, `done`, or `lost` when it was killed before it had begun to
end. `trigger` is why it ends and `cert` what it certified. `toA` and
`toSDK` are the two directions of the control socket, `spc` the SDK, `hand` how
far the program's pidfd went from the SDK over the guardian to the owner and
back. `blame` is a history: whether whoever of owner and guardian left first
had been asked to.

| Actions | Code |
|---|---|
| `ForkOwner`, `PlaceOwner`, `OpenOwnerGate`, `BootFault` | the start of the ancestor |
| `TakeLaunch`, `TakeLaunchAgain`, `PlaceProgram`, `TakeCommit`, `Committed` | `spawn_primary`, `commit_primary` |
| `SupervisorStop`, `ProgramExit`, `ControlEnds`, `OwnerSeen`, `OwnerLoss`, `TakeClose`, `ProtocolFault` | every way the service ends |
| `AncestorKills`, `AncestorReaps`, `Pending`, `Certify`, `AncestorExits` | `DescendantDrain` and the certificate |
| `OwnerStarts`, `GuardianJoins`, `DaemonStarts`, `GuardianPasses`, `OwnerTakes`, `OwnerLeaves`, `Owner*`, `Guardian*` | `bus_owner`, `guardian` |
| `Bootstrap`, `Opens`, `Launch`, `LaunchAnswer`, `LaunchTimeout`, `Bind`, `Commit`, `CommitAnswer`, `RequestClose` (guard `Closes`), `HangUpOnly`, `CloseControl`, `ReadCertificate`, `Cull`, `Finish` | `PrivateBus` and `SupervisedPlatform` |
| `ControllerExits` | `NativeController.run` and `finish` |
| `Exits`, `SDKExits`, `AncestorLost`, `ParentDeath`, `Starts`, `Executes` | the environment and the kernel |

Left out: the hello and the allocation of the boundaries before the first fork,
credentials, the exec-status pipe beyond its result, descriptor leases, the
systemd scope of the wait owner beyond the condition that nobody is left in it
(a living child of the controller is). The trigger `sdk-loss` is left out: an
SDK that dies closes its end of the control socket before its pidfd is ready,
so the service reads the end of that socket first, unless another process holds
a copy of it.

## 3. Runs

All bounds are constants of the cfg files; histories are not bounded but stay
finite in a correct model.

| Run | Question | Bounds |
|---|---|---|
| `pty_store` | Is the dispatcher guarded, a request sent once, evidence and receipts kept, the limit respected? Is the invariant of the proofs invariant, and does the store implement `TerminateOnce`? | 2 callers, 2 operations, room for 1 record, 4 inodes, receipts kept 1 or 2 ticks, power loss |
| `pty_answers` | Is every call answered? (fairness) | 2 callers, 1 operation, 2 fingerprints, room for 1 record, 3 inodes |
| `pty_claim` | Can the lock of an operation without a record be held? It can (finding 1) | as above, 1 fingerprint |
| `pty_supervisor` | Is what is ended what was selected and confirmed, once, and truthfully reported? | 1 supervisor and 1 other controller, 1 id, 2 fingerprints, 2 incarnations, power loss |
| `agent_delivery` | Is input sent once, recorded, unmixed, and `submitted` true? Does it implement `DeliverOnce`? | 2 senders, 2 messages of which 1 is deferred, 1 input of a human, 2 that are a human's or outlive their sender, 1 restart of the agent |
| `agent_actions` | Are operations executed once and the two ledgers consistent? | 2 processes, 2 ids of which 1 is deferred, 2 bodies, 1 input that outlives its sender, no human |
| `session_run` | One provider, cleared group, at most one signal after the leader was taken away, no completed run that was stopped, final records? | 2 workers, 1 process that stops, 1 raising save, 1 kill, a foreign waiter |
| `session_stop` | Does a stop end the run, also when another waiter takes the child? (fairness) | 1 worker, 1 raising save, a foreign waiter |
| `session_wait` | Does `wait` mean exit? Not always (finding 2) | 1 worker, 1 raising save |
| `session_orphan` | Has an orphaned run no outcome? Not always (finding 3) | 1 worker |
| `bus_family` | Is the family contained, its end certified truly and for the right reason, and does it end? (fairness) | 1 process of the daemon or the program, repeats while at most 1 packet waits, anybody may be killed, the controller and the wait owner too |
| `bus_certificate` | Does the certificate reach the close that needs it? Not always (finding 4) | as above, but neither of these two is killed |

Why these bounds are enough for what the runs ask. *Store*: every hazard of the
inode protocol needs an owner, somebody who takes it for dead and a lock file of
an earlier generation: that is two callers and three inodes, and a fourth inode
lets a third generation begin while two are open. A limit of one record makes
every admission a fight for room; the second operation is there to be pruned. A
queue of more than one waiter is what the proofs add. *Supervisor*: operation
ids do not interact except through the store limit, which `pty_store` covers;
the second controller is the one that takes the id, the lock or the session
away. *Delivery*: messages interact through one composer, so two messages and
two senders (each of which can be killed and come back) give every pair, and one
deferred message next to one steered gives every pair of keys. `Strays` counts
the inputs no sender waits for, of a human and of a `kitten` without a sender:
one is enough to come between any two steps of a delivery, the second lets paste
and key of one sender both come late, or one of them after a human's; the proofs
have no such bound. *Sessions*: a run has
one record; the second worker is the duplicate, and one fault or kill at each
point is what the code claims to survive. *Bus*: one kid can be born of the daemon, of the program
or of nobody at each point of every drain; a second one would be born of the
first, which changes the order of reaping but, as the proofs show, nothing else.
Symmetric callers, operations, keys and inodes are reduced by symmetry in safety
runs only; no liveness run uses it. The bus runs do not check for deadlock: a
family that has ended and was closed stands still, as it should.

### Fairness

`pty_answers`: weak fairness of `Progress(c)` for every process and of `Tick`.
A live process keeps executing: nothing in `reserve` or `execute` blocks
without a timeout (the flocks are polled against a deadline, the broker call
has one), and clocks advance. `Ask`, `Crash` and `PowerLoss` are not fair. A
crashed process is idle and fairness asks nothing of it.

`session_stop`: weak fairness of each living worker and of `KillDeadline`, the
three seconds `time.monotonic` has to run. The provider has no fairness: it may
ignore TERM for ever.

`bus_family`: weak fairness of `Progress`: some step of the wait owner's loop
and drain, of the controller's loop, of the SDK that closes, or a parent-death
signal is taken when one stays possible. Wait owner, controller and SDK keep
executing (each wait has a timeout, and the controller looks again every 50 ms)
and the kernel delivers the signals of `PR_SET_PDEATHSIG`. Owner, guardian, daemon,
program and what they start have no fairness: they may stop for ever, and the
family has to end without their help.

## 4. Findings

1. `pty_claim` (comment and code). `config/kilix_pty_request.py:599` says of the
   owner lock of an operation without a record "nobody can hold it: no record".
   `execute` forgets the record under the store lock and closes the owner lock
   only later, so a retry in between finds a held lock and is refused with
   `store_unavailable` and advice to repair the store. Nothing is sent twice.
2. `session_wait` (code). A foreground launch whose submitted receipt could not
   be saved is recorded as failed, and `config/kilix_session/manager.py:148` then
   runs the provider: `wait` answers failed while the provider starts.
3. `session_orphan` (document and code). `inspect_run` reads `run.json` before
   `/proc`, so a worker that records its outcome and leaves in between is called
   orphaned, which `docs/session.md` reserves for incomplete runs.
4. `bus_certificate` (code). The ancestor sends its certificate once. When it
   ends while a launch or a commit waits for its answer, that call
   (`config/kilix_sdk/bus_supervision.py:1139`, `:1204`) reads the certificate as
   its answer, refuses it and drops it, and no later close succeeds, although
   the family was proved gone. The comment at `:1252` counts on the opposite.

For three of them a theorem says how far the disagreement goes, for every value
of the constants: `RefusedWhileLeaving` (1), `WaitIsTrue` (2) and
`CertificateLoss` (4), in section 5.

Four more statements of the sources go further than the code. Each is bounded
by a property that is checked and, but for the last, proved:

- *A collected child is no target of a signal* (comment,
  `config/kilix_session/runner.py:61-62`: "An application-global waiter must not
  turn a collected child into a numeric-PID signal target"). The waiter can
  collect the child between the `waitid` in `:63` and the `killpg` in `:65`, and
  that signal goes to a number nobody of the run holds. `NoFurtherSignals` is
  what does hold: it happens once at most, because the next check refuses, and
  never without such a waiter.
- *`completed` means the provider exited zero* (`docs/session.md:209-210`). When
  another waiter takes the leader between `runner.py:180` and `:181`,
  `proc.wait` answers 0 whatever the provider's exit code was, and the run is
  recorded as completed. `CompletionIsTrue` proves that this is the only way;
  `StoppedNotCompleted`, that a run with a stop request the worker saw is never
  recorded so, even then.
- *Another delivery owns this target* (`config/agent_delivery.py:276`: "locked
  per terminal/broker across senders", and the refusal in `:385`). The input is
  written by a child process that is not tied to the lock. One that outlives its killed sender can write its paste
  between the recheck and the submit key of the next sender (`:609-615`), and
  the agent is given both messages as one. `NothingMixed` says that this takes
  a paste, or a key, that outlived its sender.
- *Culling prevents live leaks* (comment, `config/kilix_sdk/bus_supervision.py:1258`:
  "Culling prevents live leaks after catastrophic supervisor loss"). It does
  when the controller is dead. When the wait owner alone is lost, its orphans
  go to the controller, which neither ends nor collects them and cannot leave
  while they live (`:737`, `bus_supervisor.py:1411`); the SDK's guard on the
  controller (`:1261`, `:1270`) then keeps it from culling, and a process that
  ignores the loss of its parents lives on. TLC finds this when `FamilyEnds` is
  asked for without its exception; `FamilyEnds` leaves out exactly the loss of
  the wait owner under a living controller.

Limits met while modelling, which no document contradicts:

- *PTY*: `fresh` is compared before the wait for the store lock that precedes
  the request. `operation_outcome` is the last end receipt unless an absence was
  verified, so a later refusal (`authority_expired`) replaces an earlier
  "uncertain". A work deadline that fires between the end of the supervisor's
  loop and `timer.finish()` leaves `run_actor` without a report.
- *Delivery*: a staged draft finished by a later call may be submitted together
  with unread input of a killed sender. `deliver` reads whether a target of mode
  defer works when it begins and not again before Tab; finish-staged reads it
  again.
- *Sessions*: a pane worker killed between `worker.claim` and its first save
  leaves the run queued for ever. A pane that opens after its launch timed out
  can overfill a tab of the session grid (`docs/session.md:170-174` gives the
  capacity).
- *GUI bus*: the loss of the daemon or the guardian is mostly certified as
  `primary-exit`, because the program ends first. An SDK whose bootstrap packet
  says that the drain is pending keeps that packet and cannot close.

## 5. Proofs

Every theorem holds for every value of the constants. The assumptions are named
in the modules that declare the constants and evaluated by TLC in the runs.

### The operation store

`PtyOperations_proofs`; assumption `OperationsAssumption`: the operations are a
finite set; `StoreLimit` and `WaitForOwner` are positive, the other bounds
natural numbers; `RecentReceipt`, the age a verified receipt is kept to, is at
most `UncertainTtl`, as in the code (90 s against 30 days); and `None` is none
of the other values.

| Theorem | States |
|---|---|
| `Invariance`, `TypeCorrect` | `Spec => []IInv`, `Spec => []TypeOK` |
| `DispatcherIsGuarded` | `Spec => []OwnerGuardsIntent` |
| `SendsAtMostOnce` | `Spec => []AtMostOnce` |
| `SentIsRecorded` | `Spec => []EvidenceSurvives` |
| `DurableReceiptStays` | `Spec => []PromiseKept` |
| `OwnerEndsItsIntent` | `Spec => IntentEndsByItsOwner` |
| `RoomIsMadeFirst` | `Spec => RoomBeforeIntent` |
| `WaitersFindReceipt` | `Spec => ReceiptKeptForWaiters` |
| `StoreTerminatesOnce` | `Spec => ImplementsTerminateOnce` |
| `RefusedWhileLeaving` | `Spec => []BusyUntilAnswered` |

*The argument.* `AtMostOnce` is not inductive: nothing in it says why a second
caller does not send. Sending needs a process that dispatches, and a process
gets there from an intent it wrote itself where there was no record. So the
invariant must say that while a process dispatches, the record is its intent
and the file the lock path names is locked by it (`OwnerGuardsIntent`); this in
turn needs who holds which lock (`LockInv`), what a call has open at each step
(`CallInv`: a waiter that re-reads holds what it has open, and nobody who has
seen a record ever claims), and what it knows of its record while it has the
store lock (`RecordInv`: in particular that nobody dispatches an operation that
is about to be settled as an orphan). `SendInv` ties the counter to the steps:
before the request goes out it is zero. `RoomInv` says that room, once made,
stays until it is used, because records are added and removed under the store
lock only; `WaitInv` that a receipt is never older than the wait of a call that
waits for it, since it was saved while that call waited; `DiskInv` that an
intent that is dispatched is on disk as it is. `IInv` is the conjunction with
`TypeOK` and the four properties. Each part has its own lemma (`TypeStep`,
`LockStep`, `CallStep`, `RecordStep`, `OwnerStep`, `RoomStep`, `WaitStep`,
`DiskStep`, `SendStep`, `PromiseStep`), split by action; `WriteEffect` says what
a write changes and is used wherever a record is written. The run `pty_store`
checks `IInv` itself.

The action properties follow from `IInv` and one more step lemma each.
`RoomForIntent` adds `OneMoreRecord` (a write adds at most one to the count) to
`RoomInv`, with the library's facts on cardinality. `OwnerEndsStep` goes through
every action that changes a record and shows that it is the dispatcher's, or
concerns an operation nobody dispatches. `ReceiptKeptStep` shows that what a
waiter waits for is too young to be prunable, and that what it has won is busy.

The refinement maps an operation to a life by its record, its requests and
whether a live process dispatches it (`Life`). `RefineStep` has a step per
action: three lemmas settle the actions that change no record (`SameLives`,
`OwnerGone`: a process that stops dispatching abandons its claim) and reduce the
others to the one operation they touch (`OtherLives`). The power loss is where
`DiskInv` is needed: without it an operation whose request is out could come
back with a record of an earlier try.

`BusyUntilAnswered` is what is left of the comment of finding 1. A request that
finds the lock of a recordless operation held was kept out either by a call that
is over and has not closed its descriptor, or by a waiter that won the lock and
will be told that the receipt is gone; neither sends anything. `IInv` does not
say whose file a descriptor is, so the proof adds `FileInv`: an inode is the lock
file of one operation, and outside the pruning of another record a call has only
its own open (a new file gets an inode nobody refers to).

### Selector, controller and supervisor

`PtyController_proofs`; assumptions `SelectorAssumption` and `GrantAssumption`:
`None` is none of the other values.

| Theorem | States |
|---|---|
| `Invariance` | `Spec => []IInv` |
| `EveryRecordReadable` | `Spec => []RecordsReadable` |
| `RequestIsBound` | `Spec => []BoundToSelection` |
| `SelectionSendsOnce` | `Spec => []OneSendPerSelection` |
| `OperationSendsOnce` | `Spec => []OneSendPerOperation` |
| `RecordsAreHonest` | `Spec => []HonestRecord` |
| `RefusalsAreTrue` | `Spec => TruthfulRefusal` |
| `SelectorTerminatesOnce` | `Spec => ImplementsTerminateOnce` |

`IInv` follows a request from its owner's lock to the evidence it leaves: the
performer of an operation holds its lock from the reservation on (`Owned`), the
record is therefore the one it wrote last (`Recorded`), its grant is consumed
and bound to what it resolved (`Granted`), a request that went out is in the
record every reader sees and in the one the next boot finds (`Evidence`,
`Flushed`), and every record is one the reader accepts (`RecordsReadable`). Each
part has a step lemma. The refinement works like the one of the store, with
`ClosesLife` and `PhaseLost` for the records that are written as final or whose
save fails.

`PtySupervisor_proofs` (assumption `SupervisedAssumption`: supervisors are
processes) proves that a supervision keeps the rules of the controller:
`SupervisorUsesController`, `SupervisorSpec => Spec`. All of the theorems above
then hold of supervisions too. `SInv` adds what relates a stage to the grant: a
call in flight belongs to the stage call, the grant is bound to what the user
confirmed, and only a call in flight can have a request out without a receipt.
From it `ConfirmedSessionEnds` (`[]ConfirmedIsEnded`) and `CutOffIsUncertain`
(`[]UnheardIsUncertain`). The run `pty_supervisor` checks the controller's
properties under `SupervisorSpec`; they are stated of it as `SupervisionIsSafe`,
`SupervisorRefusesTruly` and `SupervisionTerminatesOnce`.

### Delivery and actions

`AgentDelivery_proofs`; assumption `DeliveryAssumption`: deferred ids are ids,
and the fragments, keys and `None` are distinct.

| Theorem | States |
|---|---|
| `DeliveryInvariance` | `Spec => []IInv` |
| `DeliveredAtMostOnce` | `Spec => []AtMostOnceInput` |
| `InputRecorded` | `Spec => []InputIsRecorded` |
| `SubmissionIsTrue` | `Spec => []SubmittedIsTrue` |
| `DeliveriesNeverMix` | `Spec => []NothingMixed` |
| `LedgerDeliversOnce` | `Spec => ImplementsDeliverOnce` |

`CallInv` says who holds the lock of the target and what a call knows,
`RecordInv` which receipt it finds at each step, `CountInv` how often a message
was pasted and submitted at each step. `WireInv` follows a wire from the ledger
through the terminal to the screen: what is in the input, in the composer or in
the history was recorded with that body before, which is why a marker on the
screen proves that the agent was given the message. `OnceInv` says that no wire
is in the terminal twice, the hands of a lone `kitten` included. `NothingMixed`
is about a target without a human, without a draft that was taken up later and
without a key that outlived its sender; it says that of what the agent is given
at once, only one item was not such an orphan. `CalmInv` shows why: a key is sent
only when the composer holds one draft, and all that is ahead of the key in the
input, and in the composer beside that draft, is an orphan. One lemma per action (`Keep...`).

`AgentActions_proofs` (assumption `ActionAssumption`: `None` is no record, no
request and no result) proves `ActionsDeliver`, `ActionSpec => Spec`, so that the
properties of delivery hold under actions (`OperationsDeliverSafely`,
`OperationsDeliverOnce`), and from `AInv` the theorems
`OperationExecutedOnce` (`ExecutedOnce`), `BlockedIsTrue` (`BlockedDidNothing`)
and `RecordsAgree` (`LedgersAgree`). `AInv` is: whoever is in dispatch holds the
lock of its operation (`Held`), a delivery belongs to the operation that runs it
(`Linked`), its record says how far it is (`Taken`), an operation runs once
(`Once`), a blocked one touched nothing (`Honest`), and a final one agrees with
the receipts (`Agree`), for which `FinalStays` shows that a final receipt never
changes.

### Managed sessions

`KilixSession_proofs`; assumptions `SessionAssumption` and `RecordAssumption`:
the bounds are numbers, the asks are among wait and stop, and `None` is none of
the other values.

| Theorem | States |
|---|---|
| `SessionInvariance` | `Spec => []IInv` |
| `ProviderStartedOnce` | `Spec => []OneProvider` |
| `RecordMeansCleared` | `Spec => []GroupCleared` |
| `SignalsStayInside` | `Spec => []NoFurtherSignals` |
| `StoppedRunsNothing` | `Spec => []CancelledRunsNothing` |
| `FailureIsTrue` | `Spec => []FailedLaunchRanNothing` |
| `StoppedIsNotCompleted` | `Spec => []StoppedNotCompleted` |
| `CompletionIsTrue` | `Spec => []CompletedMeansZero` |
| `OutcomeIsFinal` | `Spec => FinalStaysFinal` |
| `WaitIsTrue` | `Spec => []WaitMeansExitOtherwise` |

`LaunchInv` says what `launch.json` says at each step of the launcher, and that
there is no worker while it says prepared or failed (the foreground launch of
finding 2 is the one exception). `ClaimInv` says that one worker holds the claim
and starts one provider, `ProviderInv` where the provider and its group are at
each step of that worker and how many signals went astray by then (none while the
leader is not taken, one at most before the worker is told), `RecordInv` that
`run.json` is not final before the group is cleared and what a completed one
means, `StopInv` that a run stopped before it was claimed reaches none
of the steps that trust or start anything. One lemma per action, with one step
per part of the invariant; `FinalSteps` is the action property.

`WaitMeansExitOtherwise` is finding 2 turned round: a final answer of wait means
that the provider does not run, except after a foreground launch that was
recorded as failed. An observer answers from what it read earlier, so the proof
needs that what it read stays true. `SeenInv` says so of each of its reads, from
the lemmas that neither a receipt nor the end of a run is taken back
(`ReceiptKept`, `OverKept`, `LeaderMoves`), and `LostInv` that a child given up
as lost had ended.

### The private bus

`PrivateBus_proofs`; assumption `FamilyAssumption`: the kids are none of the
fixed processes (the controller among them), the bound is a number.

| Theorem | States |
|---|---|
| `Certificates` | `Spec => []CertificateIsTrue` |
| `Containment` | `Spec => []Contained` |
| `CompleteClose` | `Spec => []ClosedMeansGone` |
| `Triggered` | `Spec => []TriggerIsTrue` |

That the ancestor's own waits prove the end of the family is not obvious: it
waits for its children, and most of the family are not its children. `Kin` is
the reason: as long as the ancestor lives, whoever is not reaped hangs below it
through living parents, and whoever runs is in a control group; so when the ancestor has no
child and the outer group is empty, nobody is left (`EmptyMeansGone`). `Control`
ties the steps of ancestor and SDK to the gates: a living program is in the inner
group or still behind its gate, the gate opens only once the owner has taken the
program over, and a certificate means that all births are over.
`Delivery` follows the certificate through the socket to the SDK; that it was
sent with the trigger of the end is part of it, since the loss of the ancestor
before that erases the trigger. `Cause` says
why the family ends: as long as the SDK has not hung up and the program lives,
the first of owner and guardian to leave was lost (`Blamed`); while a close is
requested and the ancestor has not begun to end, the close is in its queue
(`Requested`), which is why the end of the owner that a close brings about is
never certified as a loss; and until the SDK holds the boundary, the boundary is
the first packet it finds (`Answered`).

`CertificateLoss` (`Spec => LostOnlyInAnswers`) delimits finding 4: the
certificate of a living SDK is lost in no step but the answer to a launch or to
a commit. It follows from `Delivery`, one step lemma, and the fact that a reader
of another packet leaves the certificate in the queue.

### Only model-checked

`EveryCallAnswered`, `StopEnds` and `FamilyEnds` are liveness under fairness and
out of the prover's reach, as are ENABLED and induction over data; they stay
with TLC. The properties of the runs that expect a violation are false.

## 6. Not modelled

- *Session grid* (`config/session_grid.py`): one lock serialises the launchers
  of a grid, and what can go wrong beside it is the geometry of tabs and panes,
  which the terminal engine keeps and people change. The one part that concerns
  a run, the pane that opens after its launch timed out, is `PaneOpens` of
  `KilixSession`.
- *Clipboard and drag transfers* (`config/kilix_sdk/clipboard.py`, `xdnd.py`)
  and *bus services of a private display*: event-driven adapters in one process;
  the order of their events is that of the X server, of the bus library and of
  the peer applications, none of which is in the repository.
- *No state or order of their own*: broker reads, remote-control authorisation,
  provider argv, panes and tmux libraries, settings and backups (single files,
  replaced atomically), build identity checks.
- *Presentation and device I/O*: applications and browser in a pane, streaming,
  the built-in desktop, widgets.
- *External systems*: speech providers, content installation, host verbs, the
  Windows port, the `kilix` shell launcher and the build scripts.

Most of the lines of the repository are in the last three groups, which is why
the mapped lines are a small share of the whole.
