# Verification of the Copilot IM gateway

TLA+ models of the gateway daemon and of the programs around it, the TLC
configurations that check them on small instances, and proofs that TLAPS checks
of their safety properties for every value of the constants.

- [1. The system](#1-the-system): components, state, operations, interactions
- [2. Modules](#2-modules): which module models what, and how it corresponds to the code
- [3. Runs](#3-runs): what TLC checks, with which bounds
- [4. Fairness](#4-fairness)
- [5. Proofs](#5-proofs)
- [6. Where the code and its documentation differ](#6-where-the-code-and-its-documentation-differ)
- [7. What is not modelled](#7-what-is-not-modelled)
- [8. Plan](#8-plan)

To parse, check and prove: `tlasany M.tla`, `tlc -config X.cfg MCxxx.tla`,
`tlapm XxxProofs.tla`. `PROJECT.json` lists the runs, a mutant of the model for
every property (the "faulty variants" in the modules: a bug one could plausibly
write at that place, which the property then finds), the source lines behind
every definition, the hazards and the theorems.

## 1. The system

A Weixin account's messages reach a local daemon, which stores them in SQLite
and hands them to the Copilot session a conversation is bound to. The session's
extension works on a message and sends the answer back through the daemon.

```
 Weixin  <->  WeixinAdapter  ->  GatewayService.onInbound  ->  GatewayStore
                  ^                                             ^   (SQLite)
                  |  sendOutbound                               |
 upgrade guard -> HTTP API on 127.0.0.1 (one bearer token) -----+
                  ^                 ^
     Copilot extension (per session)   administrator / canvas
```

| Component (source) | State it keeps | Operations | What is hard about it |
| --- | --- | --- | --- |
| Store: inbox (`store.ts`) | admissions, inbox rows, route sequences, rate events, leases, barriers | reserve, finalize, fail, lease, complete, retention | Each call is one transaction, but a message takes several calls, with an await, a crash or another process in between; deadlines pass at any moment; limits are checked in one call and used up in another |
| Store: ownership (`store.ts`, `main.ts`) | one row with a token and an expiry | acquire, renew, lapse, close | A stalled process comes back after a successor has taken over |
| `GatewayService.onInbound` (`gateway.ts`) | calls that await `materialize()` | reserve, await, finalize or fail | What it read before the await may be gone after it |
| Master key (`master-key.ts`, `maintenance.ts`) | key file, prepared key, retirement marker, journal; key id in the database | create, rotate, recover | A death between any two durable effects; recovery has to recognise each state |
| Windows key helper (`credential-key.ps1`) | the same files, two kinds of markers, journals of two versions | start, rotate, recover, provision | Deaths between eight effects, torn wipes and deferred cleanups, rotations of an earlier release; the daemon it launches reads the disk by rules of its own |
| Weixin adapter (`adapter.ts`) | credentials, login generation, transition queue, poll loop; in the store: active account, cursor, context tokens | start, stop, login, poll, accept | Awaits everywhere: logins overlap each other, the loop and a stop; a batch may be given up half way |
| Extension's inbound loop (`extension-runtime.mjs`, `gateway-client.mjs`) | the turn it works on | poll, check, prompt, reply, complete, fail | Calls and answers get lost; a lease of 90 s covers a prompt of up to 10 minutes; reloads |
| Approvals (`store.ts`, `gateway.ts`, permission handler) | approvals table; handlers that wait | create, show, decide (user, client, administrator), consume, expire | Decision, expiry and poll race; a request id may be asked twice; a route may be rebound |
| Start and stop (`startup.ts`, `main.ts`, `http-server.ts`) | reservation of the port, store, channels, the stop under way | bootstrap, activate, heartbeat, stop, close | Each step may fail, and what there is by then has to be given up in order |
| Shutdown challenges (`http-server.ts`) | challenges and their tombstones, in memory | issue, consume, sweep | One-use across expiry, replay and a clock that is set back, in bounded memory |
| Upgrade guard (`stop-daemon.ps1`) | what it has resolved so far, a connection, a challenge | validate, ask, connect, validate again, send, wait | It looks at a machine that changes between any two of its looks |
| HTTP routes, schemas, token file (`http-server.ts`, `schemas.ts`, `auth.ts`) | none | parse, validate, one service call | stateless |
| Outbound (`gateway.ts`, `adapter.ts`) | none | redact, chunk, send | Partial sends |
| Retention of bodies, context tokens, rejections, audit (`store.ts`) | age columns, a ring of rejections | cleanup | What is old may still be needed by work that three transactions write |
| Schema migration, secret state (`store.ts`, `secret-state.ts`) | `user_version`, envelopes, the write-ahead log | migrate, encrypt, rewrite, checkpoint | What a commit removed stays in the files until a checkpoint, which a death or a reader prevents |
| Canvas, contracts, errors, redaction | none | | stateless |
| Release and installer scripts | files | package, install | |

What makes them correct, component by component, is the list of properties in
section 3; the hazards these guard against are listed with their lines in
`PROJECT.json`.

## 2. Modules

| Module | Models | Composed with |
| --- | --- | --- |
| `InboundPipeline` | inbox, limits, ownership, `onInbound`, lease and completion calls, purge of rows and admissions | |
| `TicketQueue` | the abstract promise of the inbox: a ticket dispenser per route | |
| `DatabaseOwnership` | the abstract promise of the ownership row, whoever keeps it | |
| `InboundRefinement` | the mappings from the pipeline to the two | `InboundPipeline`, instances of `TicketQueue` and `DatabaseOwnership` |
| `RemoteTurns` | the extensions' inbound loop | extends `InboundPipeline`: its steps are the pipeline's calls plus what the extension does |
| `ReplyContext` | context tokens: stored by `materialize()`, expired, kept or swept | extends `InboundPipeline`: its steps are the pipeline's, bar two that it refines |
| `Approvals` | approvals table, deciders and permission handlers | instance of `Permission` |
| `Permission` | the abstract promise of a remote approval | |
| `WeixinChannel` | the adapter and what it stores | |
| `KeyCustody` | the abstract promise of both programs that keep the master key | |
| `KeyRotation` | key files, journal, rotation, recovery, daemon starts on POSIX | instance of `KeyCustody` |
| `KeyHelper` | the same on Windows, where a helper does what the daemon may not | instance of `KeyCustody` |
| `SensitiveState` | opening and migrating the database, sweeping and rewriting it, checkpoints, and what stays in the files | |
| `DaemonLifecycle` | processes from the reservation of the port to their end | |
| `ShutdownChallenges` | each process's registry of challenges, other clients, the clock | extends `DaemonLifecycle` |
| `UpgradeGuard` | the guard, against processes and registries | extends `ShutdownChallenges`; instance of `DatabaseOwnership` |
| `MCInbound`, `MCRemoteTurns`, `MCReplyContext`, `MCApprovals`, `MCWeixin`, `MCKeyRotation`, `MCKeyHelper`, `MCSensitiveState`, `MCShutdown` | the instances TLC checks | |
| `InboundPipelineProofs`, `CompositionProofs` (turns and reply contexts), `ApprovalsProofs`, `WeixinProofs`, `KeyRotationProofs`, `KeyHelperProofs`, `SensitiveStateProofs`, `ShutdownProofs` | theorems | |

Conventions of all of them: a step is what the code does without giving anything
else a chance to run (a SQLite transaction, the code between two awaits, a
durable effect on a file, one query of the machine); a deadline that the code
compares with the clock is a Boolean or a phase of its own which an own step
raises at any moment, so that every relation of the durations is covered; what
no property tells apart (texts, wording, layout, hashes) is a model value.

### InboundPipeline

`admission`, `inbox`, `nextSeq`, `rated`, `owner`/`ownerDue` are the tables
`inbound_admissions`, `inbound_messages`, `route_sequences`, `rate_events` and
`gateway_ownership`. A pending `onInbound` is a record of `tasks`. `Start`,
`Renew`, `Close`, `Crash` and `OwnershipLapses` are the constructor, the
heartbeat, `close()`, the end of a process and the expiry of its row; every other
operation begins with `Holds`, the code's `#assertOwnership`. `Reserve` is
`reserveInbound`, with the decision in the code's order: existing admission,
binding and policy, rate window, capacity; it hands out the route's next
sequence. `Finalize`, `FinalizeControl` and `FailMaterialization` are the three
ends of an `onInbound` that still holds its reservation, `Superseded` the end of
one that does not. `Lease` is `leaseInbound`: it lifts lapsed barriers and recovers
lapsed leases first, in the same transaction, then takes the first message that
no row and no reservation of its route precedes. `Complete` and `Retry` are
`completeInbound`, `Cleanup` the retention sweep as far as rows and admissions go.

`TicketQueue` says what this amounts to: an arriving message takes the next
ticket of its route, holds it, and is queued or gives it up; queued tickets are
served one at a time per route and in ticket order; a ticket that is over never
returns. Its `Settle` lets one step of the pipeline give up, return and end
several tickets, as `leaseInbound` does.

`DatabaseOwnership` says what the row `gateway_ownership` is for: each process takes the
database at most once, when it is free or the lease has lapsed, keeps it by renewing,
and gives back only what is its own. `fresh` are the processes that are still to take
it, `over` those that have ended. `DaemonLifecycle` has the same row in more detail
(failed starts, draining, a store that fails to close) and is held to the same promise,
`HandsDatabaseOver` in `UpgradeGuard`.

### RemoteTurns

`turn[s]` is where session `s`'s extension is in `processInboundTurn` (`check`,
`prompt`, `reply`, `complete`, `fail`), with the message and the lease it works
under; `answered` records the leases whose reply was delivered. Each call is
carried out, refused, or carried out with its answer lost. `Elsewhere` is every
step of the pipeline that no extension takes.

### ReplyContext

`context[r]` is the row `context:<conversation>` of `channel_state`, `stored` the calls
whose `materialize()` has written it. `StoreContext` is `setChannelState`, a transaction
between `reserveInbound` and `finalizeInbound`; `ResumeStored` lets a message be finalized
only after it, as the code's order of awaits does. `Sweep` is the pipeline's `Cleanup`
with the deletion of tokens, `Dependency` the query that both `cleanup` and
`getChannelState` ask. Every other step is the pipeline's (`Around`).

### Approvals

`approval` is the table by request id, `handler[o]` the permission handler of an
operation, `shown` the nonces that were delivered. `Ask`, `Show` and `Consume` are
`createApproval`, the message with the nonce and the poll every second;
`DecideByRemote`, `DecideByClient` and `DecideByAdmin` the three ways to decide.
A nonce stands for the operation whose row it was drawn for.

`Permission` says what an operation may rely on: its permission is asked for once,
decided once and by whoever may, used once, and over for good after that. `Stage` reads
this off the row, its owner and the handler.

### WeixinChannel

`queue` is `#loginTransition`, the chain of promises by which the adapter runs one
transition at a time; `generation` tells the latest login. `Fetch`, `Accept`,
`SaveCursor` and `Rest` are the four stretches of the poll loop between awaits;
`Open`, `Wait`, `Drop`, `Rejoin`, `Confirm` and `Swap` those of a login; `StopLoop`
and `Halt` those of `stop()`. `Restart` is the end of the process at any moment;
`stored` survives it but for `unsaved`, which is no state of the code: it remembers that
`setActiveChannelAccount` threw in `Swap`, with `#credentials` already set. The adapter
then runs on, logged in, with no loop and the account before it stored. What the store
refuses in the loop (a cursor, the report of an expired session) is one more failed poll.

### KeyRotation

`file` maps the canonical path, the prepared path and the shelves of retired keys (one
retirement marker per key, and the one path that journals of version 1 used) to the key
they hold; `linked` are files with a second link; `sealed` are the keys the secrets in the
database are under. A program is a daemon start or a
rotation; its label is the next durable effect. `holder` and `due` are the ownership row:
its lease may run out whether the holder died or stalls (`LeaseLapses`), and then another
program may take the database from under a daemon that serves; what that daemon may still
do with it (`Renew`, `StoreSecret`, `Stop`) asks for the row, as `#assertOwnership` does. `Resume` is `recoverInterruptedRotation`
with `recoverVersionTwoRotation`: from the journal, the key id in the database and the
files to the effect recovery resumes with, or "refused". `LegacyInit` are the states in
which a rotation of an earlier release, which wrote journals of version 1, was interrupted.

`KeyCustody` is a rotation without any of this: the key of the database (`secret`) and the
key a start finds (`found`) change in one step, to a `spare` that was drawn for it. In
`KeyRotation` and in `KeyHelper` the found key is computed from journal, files and key id:
it is whatever is canonical after the recovery that they call for, and none where
recovery refuses. A `found` that differs from `secret` is thus a database that the next
start cannot open.

### KeyHelper

`file` maps the canonical, the prepared and version 1's previous path and the markers
of each key to a key, to `Scrap` (a key that was overwritten, wholly or in part) or to
nothing. `pc` is the helper's next durable effect: `ResumeV2` and `ResumeV1` are the
case distinctions of `Recover-VersionTwoRotation` and `Recover-LegacyRotation`, by the
effect they lead to. `Defer` is a wipe, a deletion or a flush that fails, half way
perhaps. A daemon that serves may own the database, which makes the rotation throw, or
have stalled past its lease, which does not. `DaemonAccepts` is what `recoverInterruptedRotation` of the daemon makes of
the disk on Windows, where whatever would rename or remove a file throws.

### SensitiveState

`traces` is what was removed from the database and is still in its files: plain text,
bodies, envelopes under a retired key, and envelopes that were `superseded` under the key
in force. The last come from every new cursor, token or login (`Seal`,
`setChannelState`), with no checkpoint behind them; they are as safe as what took their
place, and are not among what must not stay (`Exposed`), until a rotation retires their
key. `Open` is the
constructor's transaction (`#initializeOwnedSchema`, with the migration), `Sweep` and
`Rewrite` the transactions of `cleanup` and `rotateSecrets`; each leaves its process in a
place of its own ("initialized", "swept", "rewritten") from which `Checkpoint` or
`CheckpointFails` takes it. `Disconnect` has SQLite checkpoint when the last connection
closes. A reader holds a read transaction; `Crash` ends a process anywhere.

### DaemonLifecycle, ShutdownChallenges, UpgradeGuard

`phase[p]` is how far one run of the program is: `starting` (the port is bound and
every request gets 503), `opened` (the store is there), `serving`; then `draining`
(the listener is closed, `server.close()` waits for the connections), `stopping`
(channels), `closing` (store), `exited`. A start that fails is `aborting` or
`unwinding` instead of `draining`. `dead` is a process that was killed or whose
`store.close()` threw. Processes share the port, may share a PID one after the
other, and share the row of `gateway_ownership`.

`challenge[c]` is a record of a registry; `Swept` is `#cleanupRetained`, which both
requests run first; `Issue`/`RefuseIdentity` are `issue()`, `Consume`/`RefuseShutdown`
are `consume()`. `age` is the challenge's time by the wall clock, which
`TimePasses` and `ClockSetBack` move either way.

`guard.pc` follows `Invoke-StopGatewayDaemon`: `inventory` (the port was free),
`listener`, `process`, `sole` (the three queries of
`Get-ValidatedGatewayListenerOwner`, used twice), `ask`/`asked`/`told` (identity),
`connect`, `send`/`sent`, then `watch`, `port`, `last` (the wait). Processes start
and end between any two of them. `GiveUp` stands for whatever fails or times out;
the guard may be run again afterwards.

## 3. Runs

Every property has a mutant in `PROJECT.json` that its run finds; the states are
those of the whole, finite instance. The type invariants are theorems (section 5)
and are not repeated in the runs.

### `inbound_fifo` (`inbound_fifo.cfg`)

One route, two messages that may be delivered again and again, two process
generations, two attempts, three reservations. Invariants
`TicketsUnique` (no two rows and reservations of a route share a sequence, so that
`INSERT OR IGNORE` never drops an accepted message), `FifoPerRoute` (a message that
was leased has nothing outstanding and nothing reserved before it); the action property
`AcceptedOnce` (an outstanding row is neither lost nor replaced); and
`ImplementsOwnership`, the refinement of `DatabaseOwnership` (a superseded process never
gets the database back, and a lease that is renewed is not taken). Two messages are enough for an order to be broken, a
second generation for a process to be superseded, and the third reservation for
a message to be reclaimed or redelivered while the other is there. 1.4 million states.

### `inbound_limits`

Two routes of one sender with two messages each; the gateway's capacity (2), the
routes' (1) and the sender's rate (2) are all reached. Invariants `WithinCapacity`
and `WithinRate`.

### `inbound_live`

One route, two messages, one of them an approval command, a process that may die
once. `AcceptedEnds` (an accepted message ends, even if no session ever answers, and
whatever reservation before it was abandoned), and
`ImplementsTicketQueue`, the refinement. A message has one attempt here; retries are in
`inbound_fifo` and `turns`. A message that is not accepted, because its reservation lapsed
and was given up for those behind it, is not what `AcceptedEnds` is about.

### `turns`

One route, two messages, two sessions between which the route may be rebound.
`SoleHolder` (one turn of a route is under a lease that counts),
`CompletedIsAnswered` (no order of lost calls and retries completes a message
that was not answered), `AnsweredOnce` (a turn that may still reply has not replied under
its lease, and leases are not drawn beyond the attempts), `LeaseEndsByHolder`. The second session is what makes
leases overlap; the second message makes the route's order matter. About
2.6 million states.

### `approvals`

Three operations: one is asked for again, with the same request id, in the session
its route was rebound to; the third is another route's.
`GrantsAreDecided` (an operation is granted on its own, used-up approval, approved by
the administrator or by its own identity), `ImplementsPermission` (the refinement of
`Permission`: nothing is asked for, decided or used twice, or after its expiry),
`HandlersEnd`.

### `weixin`

Two accounts, one with two messages; at most three login generations per process and
two login calls at once. `CursorFollowsAdmission` (the stored cursor is never past a
message that was neither taken nor refused), `LoggedInPolls` (what polls is one loop, of
the account logged in; it is there, and a restart would use the same account, unless that
could not be stored), `QuietAfterStop`, `LatestLoginWins`,
`ContextNeverOlder`, `StopCompletes`. Two messages are the least that can be given
up half way; a login in the middle of another one's transition needs two, and the
third overtakes them. A session that expired gives no more messages where its loop goes on
because the report of it failed (`Bound`; the proofs do without). 1.5 million states.

### `rotation`

Two programs, each a daemon start or a rotation, three keys: a daemon that serves
beside a rotation, a rotation of a database that is not encrypted yet, one that an earlier
release left under a version 1 journal in any of the states it could be left in, two
rotations one after the other. `DatabaseReadable` (whatever dies whenever,
the next start finds the key that opens the database), `NoStrayKeys` (a retired key
is on disk only under a journal that will have it removed), `SecretsReadable` (every
secret is under the key of the database, although a daemon that lost the database to a
rotation serves on with the key from before),
`ImplementsKeyCustody` (the refinement: a rotation is atomic, wherever it is
interrupted), `RotationSettles`. Deadlock is not checked: a first start that dies
at the wrong moment is refused for good (section 6).

### `shutdown`

Three processes: two runs of the installed daemon with the same PID and one of
another installation; two challenges and a registry with room for one.
`TokenReachesVerified` (the bearer token is written only to the installed process
that was validated and answered); `RegistryHolds` (limit and nonces, tombstones
counted); `CleanExitFreesDatabase` (a process that ends of itself leaves no ownership
row of its own); `SpentStaysSpent` (what was consumed, once refused as expired, or
forgotten is never accepted, clock or no clock); `DoneMeansStopped` (the guard succeeds
only at a moment when nothing installed runs); `StopsEnd` (a stop leads to the end of
the process; the guard's connection does not hold it up).

Three processes are the owner, one that takes its place between two looks, and one
the guard must not talk to. Two challenges meet in a registry only as long as the
guard has not begun (`Bound`); which id and which nonce come first makes no
difference. Other clients ask only `first`. That two records of a registry have different
nonces, and what a second run of the guard does with a challenge of its own, is therefore
left to `RegistryWithinLimit` and `TokenReachesVerifiedOnly`: the proofs have none of these
bounds.

### `key_helper`

Four keys: a first key or the two of a rotation that an earlier release left half way,
in each state it could be left in, and then two rotations. `ImplementsKeyCustody` (the
same refinement as for `rotation`: at every moment a recovery finds the key of the
database), `MaterialIsJournaled` (old, shelved and wiped keys are on disk only where the
journal in force has them removed), `LaunchIsAccepted` (the daemon that a helper
launches accepts what the helper left, deferred cleanups included), `HelperSettles`.
Deadlock is not checked: keys run out. 20,474 states.

### `replies`

One route, an ordinary message and an approval command, two processes.
`ReplyFindsContext` (a message that still has to be answered finds its conversation's
token, however old that is), `ContextsForgotten` (an expired token that no work needs
is deleted or replaced). The second message is what expires beside the one that keeps the
token; the second process is what reclaims a reservation. 450,729 states.

### `secrets`

Two daemon processes, a key rotation and two readers, over a new database and those of
schemas 1, 3 and 4 with and without secrets. `NothingLeftBehind` (an owner that serves has
left no plain text, no body and no envelope under a retired key in the files, neither of
its own nor of a predecessor's, and there is no secret in plain text), `TracesGo` (none of
these stays in the files for good). 58,648 states.

### `turns_overlap`

Shows one sentence of the documentation not to hold of the code: section 6.

### Bounds of the model

`MaxReservations` (reservation ids), `MaxLogins`, `MaxCalls`, `Feed` (messages per
account), `Asked` (processes other clients ask), `MayStop` (the last process
generation of `InboundPipeline` keeps running), `Begin` of `KeyRotation` and of
`KeyHelper` (programs begin one at a time), `Key` (random keys), `MaxReads` (readers
of the database), and in `MCShutdown` the constraint `Bound`. Capacities, rates,
attempts and batch sizes are the code's own options, with small values.

## 4. Fairness

Nothing is fair in `Spec`; a `FairSpec` adds what the code's scheduling gives:

- `inbound_live`: deadlines pass; a process is started when the database is free
  and its heartbeat runs; bound sessions poll every 750 ms, and a poll that is
  possible again and again, however often ownership lapses in between, happens
  (strong fairness of `Lease`). No fairness for `materialize()`, replies or
  completions: they may never come.
- `approvals`: a handler's calls return or fail, it polls every second, and time
  passes. Nobody has to decide.
- `weixin`: `getUpdates` has a timeout, `onInbound` returns, pauses end, and an await
  that can go on does. No login has to succeed.
- `replies`: deadlines pass, a process runs and renews, sessions poll, and the hourly
  sweep comes again however often ownership lapses in between. Materialization,
  completions and rebinding may never come.
- `secrets`: readers end, deadlines pass, a stopping process closes the store, the
  heartbeat of a daemon that was superseded stops it, some daemon is started when
  none owns the database, and a checkpoint that is possible again and again
  completes: a process may die at any place, but not for ever at the same one.
- `key_helper`: a helper that is not killed goes on, and the gateway is started again.
  That killing and failing cleanups end is a premise of `HelperSettles` itself, and the
  only one (`Work`): a recovery that throws is a step like the others, and one that throws
  at every start again would leave the journal in place and violate it.
- `rotation`: programs that are not killed go on and are started again. That
  killing ends is a premise of `RotationSettles` itself, in the same form.
- `shutdown`: an accepted request's `setImmediate` runs, connections other than the
  guard's end, channels settle, SQLite answers or throws; the guard's exchanges
  have timeouts of 5 s. Its wait of 30 s is not assumed to end.

## 5. Proofs

All theorems are about `Spec` and hold for every value of the constants under the
assumptions of their modules (`PipelineConstants`, `KeyConstants`,
`HelperConstants`, `StateConstants`, `ApprovalConstants`, `WeixinConstants`,
`ProcessConstants`, `ChallengeConstants`, `GuardConstants`): little more than that
`None` is none of the others and that limits are natural numbers.

| Theorem | States | Argument |
| --- | --- | --- |
| `TypeCorrect` | `TypeOK` of the pipeline | one lemma per kind of step |
| `SequencesNeverCollide`, `HandedOutInOrder` | `TicketsUnique`, `FifoPerRoute` | `OrderInv`: sequences and row ids are below their counters, and what is reserved or outstanding has a place of its own. `FifoPerRoute` alone is not inductive: it needs that new places are behind all that exist |
| `AttemptsBounded` | `LeaseBudget`: no row is leased more often than its attempts | `BudgetInv`: a row that can still be leased has an attempt left |
| `AcceptedKept` | `AcceptedOnce` | from the types: which steps write a row, and from which status |
| `OwnershipHandedOver` | `OwnershipHandover`: an owner changes only to a process that starts | an owner has been started, an unborn process owns nothing |
| `PipelineImplementsOwnership` | `ImplementsOwnership` | from the types: `Start` is a `Take`, the end of a process gives back its own row or none |
| `RateBounded`, `CapacityBounded` | `WithinRate`, `WithinCapacity` | cardinalities: `Reserve` adds one and checks first; to finalize moves one from the reservations to the rows |
| `PipelineImplementsTicketQueue` | `ImplementsTicketQueue` | each step is a `Take`, a `Queue`, a `Settle` or a stutter; that a lease takes the first ticket is `OrderInv` again |
| `TurnTypeCorrect`, `TurnsImplementPipeline` | types; `TurnSpec => Spec` | every step of the composition is a step of the pipeline or leaves it alone, so that all theorems above hold of the turns too |
| `OneHolderPerRoute`, `OnlyHolderEndsLease`, `CompletedWasAnswered`, `AnswersAreFew` | `SoleHolder`, `LeaseEndsByHolder`, `CompletedIsAnswered`, `AnsweredOnce` | `LeaseInv`: a row's id and attempt are a lease no other turn has, and one that was answered is not drawn again; it needs that row ids are unique and attempts within their budget. `AnswerInv`: a turn about to complete has answered |
| `ContextImplementsPipeline`, `ContextTypes`, `RepliesFindContext` | `ContextSpec => Spec`; types; `ReplyFindsContext` | the sweep and the finalization are the pipeline's with more said. `ContextInv`: the token is there for a row that is outstanding and for a reservation whose current call stored it; reserved routes are bound, which is what the sweep asks of a reservation, and a reclaimed reservation has an id that no earlier call has |
| `AlwaysRecovers`, `MaterialStaysJournaled`, `LaunchesAreAccepted` | `HelperRecovers` (at every moment the database fits the journal and the files, and its key is canonical or about to be), `MaterialIsJournaled`, `LaunchIsAccepted` | `IInv` of `KeyHelper`: the disk is in one of the states a rotation goes through, given by journal, database, paths and markers, and the helper's label is one of those it leads to |
| `RecoveryIsDetermined` | `ResumesOneWay`: no disk lets recovery go on in two ways | the cases of the two recoveries exclude each other on every disk of `IInv` |
| `HelperGoesOn` | `EffectsFindTheirFiles`: every move finds its file and a free path, and spares the database's key | `IInv` again: each label with the disk it is reached on |
| `HelperRotatesAtomically` | `ImplementsKeyCustody` | `FindsKey`, from `IInv`: the key found is the database's. Only the transaction is a `Rekey`; every other effect leaves what is found alone, or draws or drops a spare |
| `ServesCleanFiles` | `NothingLeftBehind` | a current database has no plain text, one that is open is current, and an owner that serves has checkpointed after whoever owned it before; what it adds itself without a checkpoint is sealed under the key in force |
| `ApprovalTypes`, `GrantRestsOnDecision`, `DecisionsAreFinal` | `TypeOK`, `GrantsAreDecided`, `DecisionsStand` (nothing replaces a decision, and from the expiry on nothing is decided or granted) | `ApprovalInv`: a row belongs to an operation of its request id, a handler polls only for its own row, verdicts follow statuses |
| `ApprovalsImplementPermission` | `ImplementsPermission` | `ApprovalInv` tells whose a row is; one step moves the permission of one operation, and what it does to the others of the same request id is nothing |
| `RotationTypes`, `RotationKeepsDatabaseReadable`, `RotationLeavesNoKeyBehind`, `SecretsStayReadable`, `KeysChangeOnlyAsJournaled` | the invariants of `rotation`, and `OnlyAsJournaled`: an encrypted database changes keys only as the journal has it, to a key whose file is durable | `RotationInv`: one program at most is between effects, the keys it works with are the journal's, and the files are in the state its label names |
| `RotationGoesOn` | `EffectsFindTheirFiles`: every rename and removal finds its file, replaces no key and spares the database's | `RotationInv`, label by label |
| `RotationIsAtomic` | `ImplementsKeyCustody` | as for the helper: `FindsKey`, and only the transaction is a `Rekey` |
| `WeixinTypes`, `CursorNeverSkips`, `NeverTwoLoops`, `AccountIsPolled`, `NothingAfterStop`, `LatestLoginOnly`, `ContextMovesOn` | the properties of `weixin` but the last | `WeixinInv`: what a loop has handled of its batch is settled or refused; which transition is under way says whether a loop may run, and only an account that could not be stored is logged in without one |
| `StopNeverBlocks` | `WaitsAreAnswered`: a transition that waits for the loop waits for one that runs and was told to end, and a stop has its transition | `Waiting`: only the head of the queue waits, and it aborted the loop before it did |
| `ShutdownTypes`, `TokenReachesVerifiedOnly` | `TypeOK`, `TokenReachesVerified` | `GuardInv`: one listener, one live process per PID, and no process comes back. If the owner, which answered, still owns the port when the listener is looked up, the connection made before is one to it, because a process binds the port once; the two queries that follow carry this over to a process that may have ended |
| `SpentForGood`, `AcceptedAtMostOnce` | `SpentStaysSpent`; each challenge is accepted at most once | a request accepts only an active record, and no record becomes active again |
| `RegistryWithinLimit` | `RegistryHolds` | a sweep only removes; `issue()` adds one id after it checked |
| `CleanExitGivesUpDatabase` | `CleanExitFreesDatabase` | a process without a store owns no row |
| `DatabaseHandedOver` | `HandsDatabaseOver`, the refinement of `DatabaseOwnership` | a process that owns the row is one with a store, so it has taken the database and has not ended |
| `DoneIsStopped` | `DoneMeansStopped` | only the two inventories lead to success |

Every property of the passing runs that is not liveness is a theorem. Some theorems state a
property that no run repeats: `AttemptsBounded`, `OwnershipHandedOver`,
`DecisionsAreFinal`, `KeysChangeOnlyAsJournaled` and `AlwaysRecovers`, whose matter the
runs check in the form of a refinement or of `AnsweredOnce`, and `DatabaseHandedOver`,
`RotationGoesOn`, `HelperGoesOn`, `RecoveryIsDetermined` and `StopNeverBlocks`, which TLC
held on the instances of `shutdown`, `rotation`, `key_helper` and `weixin` before they
were proved.

Left to TLC: liveness (`AcceptedEnds`, `HandlersEnd`, `StopCompletes`,
`RotationSettles`, `HelperSettles`, `ContextsForgotten`, `TracesGo`, `StopsEnd`),
which rests on fairness and is beyond this prover. Of three of them the part that is
about states is proved: `StopNeverBlocks` for `StopCompletes` (nobody waits for a loop
that does not run), `RotationGoesOn` and `HelperGoesOn` for `RotationSettles` and
`HelperSettles` (no effect fails for good because of what an earlier one left).

## 6. Where the code and its documentation differ

A run shows the first of these. The others were met while modelling; the models have
the code's behaviour, and no property of a run claims otherwise.

- `turns_overlap` (`TurnsSerialized`): `docs/architecture.md:35` has turns of a route serialized. The
  lease of 90 s is not renewed while a prompt may take 10 minutes; after it lapsed
  and the route was rebound, another session is handed the same message. What does
  hold is `SoleHolder`: only one of the turns counts.
- `docs/security.md:92` has every interruption of a rotation resolve to the old or the new
  key. A rotation of a database without a key id (a new data directory, or one older
  than schema 4) that dies after it wrote the journal leaves a state that
  `recoverVersionTwoRotation` refuses (`master-key.ts:284`), in every later start; so does
  `-Rotate` of the Windows helper on such a database. `DatabaseReadable`,
  `HelperRecovers` and `KeyCustody` are therefore about encrypted databases.
- `docs/security.md:44` calls the creation of a key atomic. A death between `link` and the
  removal of the temporary name leaves a file with two links, which later starts
  refuse (`master-key.ts:618`); `SettleKey` is that step.
- `docs/security.md:82` has SQLite ownership reject a live owner during a rotation. It
  rejects one that renewed its lease within 15 s (`store.ts:419`): a daemon that stalls for
  longer, lives on and was not stopped loses the row to the rotation. It can then neither
  write nor renew, fails to decrypt what it reads, and stops at its next heartbeat; until
  then it serves with the old key. What holds is `SecretsReadable`: it leaves no secret under
  that key.
- `README.md:102` describes the rotation by the maintenance script, which throws on
  Windows (`master-key.ts:517`); `docs/security.md:79` has the helper do it.
- `tests/weixin.test.ts:556` calls a refused admission durable and terminal. It leaves no row
  (unless there was one), so that a batch that comes again may have the message
  admitted, behind later ones; `ContextNeverOlder` makes an exception for it.
- A confirmed login whose account cannot be stored (`adapter.ts:207`: ownership has lapsed,
  the database is busy) fails as a request, but the adapter is logged in with it: it polls
  nothing until the next login, and a restart goes back to the account before it. The tests of
  logins (`tests/weixin.test.ts:480`, `:671`) have the store succeed. `LoggedInPolls` makes an
  exception for it.
- `tests/security.test.ts:34` has a text that was cut end with "[output truncated]".
  `chunkOutboundText` (`security.ts:117`) splits at blanks, so that its eight chunks may be
  shorter than the text they were bounded to, whose tail is then dropped with the notice.

## 7. What is not modelled

- Inbox: attachments; the audit and the ring of rejections, one statement each on tables
  that nothing else reads; the clock going backwards.
- Turns: what commands answer; what a Copilot session does after `sendAndWait`
  timed out, which is up to the SDK. A prompt ends with its extension's reload.
- Reply contexts: one conversation per route, as in the one channel there is. The adapter
  reads the token for each chunk of a reply; that a login may have replaced it is
  `ContextNeverOlder`'s subject.
- Approvals: an approval decided in time but polled after its expiry is denied, as in
  the code; the text of scopes is a value.
- Weixin: one conversation per account; channel health, which is a cache of what the
  adapter reports. Its audit may throw: where the loop reports an expired session, that is a
  failed poll; where `#startPolling` or the `catch` of the loop report, nobody handles the
  rejection of the loop, which ends the process (`Restart`). The wire protocol, which formats requests and parses answers without state.
- Keys: on POSIX, two programs that start at the same time, which the documentation rules
  out. On Windows, access
  lists, hard links and reparse points, which make the helper refuse; `-ProvisionNext`
  with a node, for which there is no documented use.
- Secret state: the conversion of the other tables of old schemas, one transaction of
  plain SQL; the envelope's cryptography; bodies that are part of a quarantined version 1
  table, which the migration keeps on purpose. Pages that SQLite's own
  `secure_delete` has to zero are trusted to be.
- Shutdown: HMAC, HTTP parsing and the recognition of command lines, which decide what
  the model's guards say; collisions of random ids; programs that are no gateway on
  the port (the guard's validation refuses them); a guard configured with port 0,
  which is its `inventory` alone; a daemon started after the guard succeeded and
  before the installer has replaced the files, which the guard cannot see.
- Outbound (`sendOutbound`): a loop over the chunks of a text that fails at the first send
  that fails; nothing is kept of it. What becomes of a reply that was lost is in
  `RemoteTurns`.
- Stateless parts (routes, schemas, canvas, contracts, redaction) and build scripts.

## 8. Plan

Done, in this order: the inbound pipeline with its abstract specification, because
everything else feeds it or is fed by it; the key rotation, because its mistakes are
not repaired by a restart; the extension's turns; approvals; the Weixin adapter; start,
stop and upgrade; the Windows key helper; context tokens; migration, retention and
checkpoints.

Proved after that: every invariant and action property, and the refinements of
`TicketQueue`, `DatabaseOwnership`, `KeyCustody` and `Permission`, the last three written
for the proofs.

What could follow:

1. Of the other liveness properties, the part that is about states: a route with an
   outstanding message always has a step that moves it (`AcceptedEnds`), a handler that
   polls has a row that ends (`HandlersEnd`), a stop has a step that is not the guard's
   (`StopsEnd`).
2. The abstract specifications' own promises as theorems, so that they carry over to
   whatever implements them: that a key never comes back (`KeyCustody`), that a process
   that lost the database never has it again (`DatabaseOwnership`).
3. `Outbound`: the chunks of a reply as steps of their own, composed with `RemoteTurns` and
   `WeixinChannel`.
4. The installer's replacement of files beside `UpgradeGuard`.
