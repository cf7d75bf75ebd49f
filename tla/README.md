# shoephone in TLA+

shoephone gives an agent administrator access only when a person approves it on
a phone. Two things can be asked for: a short-lived SSH certificate for a host,
and a Terraform *job* (trust a changed source tree, or apply a plan) that a
runner on another machine carries out. This directory models the program that
decides (`shoephoned`), the runner that carries out jobs, the command an agent
runs (`shoephone`), what the approver is shown and told, and how devices and
runners come to be believed. TLC checks the modules on small instances; TLAPS
proves, for every value of the constants, the central results about SSH grants
and how often they may be asked for, jobs, the daemon's lock and ledger, the
runner's applies and reports, runner requests, enrollment, exit statuses and
notifications.

Paths in the modules' comments are relative to the repository root
(`src/grant.rs` is the Rust file that `PROJECT.json` names
`src/src/grant.rs`).

## 1. The system

| Component | Source | State | Operations | Modelled |
|---|---|---|---|---|
| Gate | `gate.rs` | occupant of the one slot, times of the accepted requests, cooldown, strikes | admit, check, release, strike_at, approved, tick | `Gate` |
| SSH grants | `grant.rs` | clock high-water mark, pending request, open windows, undrained events, id counter, the gate | request, approve, decline, issue, kill, tick and the views | `Grants` |
| Terraform jobs | `job.rs`, `scope.rs` | a high-water mark of its own, jobs not yet forgotten, what each project is trusted at, undrained events | request, poll, submit, refuse, approve, decline, claim, finish, refuse_claimed, kill, tick, set_trusted | `Jobs` |
| Daemon | `server.rs`, `store.rs` | all of the above behind one mutex, the approval ceremony, `ledger_failed`, the persisted counter; `ledger.jsonl` and `next_id` on disk | one handler per route, `drain_and_append`, the badge, the reaper, start | `Daemon` (partly) |
| Issue handler | `server.rs` `issue` | certificates handed out, by window | ask, look up, mint again, sign, cache | `IssueCache` |
| Trust registry | `store.rs`, `server.rs`, `job.rs` | `trusted.json`, the trusted and untrusted lines | update, undo, restore, reconcile, untrust | `Trust` |
| Runner | `runner/run.rs`, `journal.rs`, `state.rs`, `exec.rs`, `client.rs` | journal, current and previous trees and records, install marker, applied baseline; pending job, unsent report | startup recovery, poll, submit, claim, install, apply, deliver | `Runner` (partly) |
| Runner authentication | `runner_auth.rs` | recent nonces | verify | `RunnerAuth` |
| Enrollment | `server.rs`, `store.rs`, `bin/shoephoned.rs` | enroll code and device list on disk, devices and ceremony in memory | check_code, enroll_start, enroll_finish, push_register, console enroll and forget | `Enroll` (partly) |
| Review | `runner/tree.rs`, `runner/review.rs` | an unpacked checkout and the input collected of it | unpack, execution_input, render, review, `diff-digest` | `Review` (partly) |
| Plan and schema | `runner/schema.rs`, `plan.rs`, `exec.rs`, `run.rs`, `server.rs` | plan file and its copy, pinned context, scope and display | parse, validate, plan steps, summarize, submit, claim, apply | `Presented` (partly) |
| Notifications | `notify.rs`, `server.rs` | registered Live Activities, pushes on their way, what phones show | collect, dispatch, collapse, reap | `Pushes` (partly) |
| Command line clients | `bin/`, `client.rs`, `session.rs`, `exit.rs` | session key and certificate file, ssh-agent, the exit status | trust, apply, request, renew, disavow; enroll, forget, untrust, diff-digest | `Client`, and parts of `Enroll`, `Trust`, `Review` (partly) |
| API types, exit codes | `api.rs`, `exit.rs` | none | classify an error | in `Client` and `Presented` (partly) |
| CA | `ca.rs` | the key | sign | no: a call outside the lock, seen by what it is asked for |
| Configuration | `config.rs` | none | parse, validate | no: its values are constants, its rules assumptions |

**How they interact.** `Grants` owns the gate and the id counter. `Jobs` is lent
both at each call, so that one slot, one hourly cap, one cooldown and one
sequence of ids serve both kinds of request; each clamps the wall clock to a
high-water mark of its own. The daemon calls them under one mutex. A handler
runs, then `drain_and_append` takes the events both recorded, appends them to
the ledger with one fsync, saves the counter when it moved, and counts the badge
(which ticks the grants once more). A call through `with` answers whatever the
write did; one through `audited` is refused beforehand once a write has failed,
and is not told its result when its own write fails. The pushes of a call are
collected under the mutex and sent by tasks after it is released, which no later
call waits for. The background reaper ticks the grants without draining, and
takes ended cards off the lock screen. `issue` takes the lock up to three times,
because it signs without it. A runner signs each request with a timestamp and a
nonce; it polls, submits, claims and reports over HTTP. The console commands
(`enroll`, `forget`, `untrust`) are processes of their own that share only the
files. The agent's commands file over HTTP and poll; what they leave behind is
an exit status, a certificate file and an entry in the ssh-agent.

**What is hard.** Two state machines with clocks of their own over one gate;
timeouts that are noticed by whichever call comes first, and dated back; answers
racing timeouts and kills; a wall clock that steps back; state in memory ahead
of the ledger, and the ledger ahead of the counter, at every crash and failed
write; the gap in `issue` between choosing a certificate and caching it; trust
that moves between a signature and its use; reports that come late or twice; one
trust recorded in three files on two machines, with a crash possible between any
two writes and a lost reply between any two messages; second processes on the
registry and on the device list; nonces dropped by age on two clocks; pushes
that overtake one another; a job that is approved, claimed and forgotten between
two polls of the command that waits for it; numbers with three spellings and one
meaning; and minutes between a plan and its apply in which files may be replaced.
`PROJECT.json` lists each hazard at its line with the properties that cover it.

**What makes each part correct.**
- *Gate*: no hour holds more accepted requests than the cap; the n-th refusal in
  a row costs the n-th cooldown; only its holder frees the slot.
- *Grants*: each request is pending or answered once; a window is one approval
  over exactly its scope; a certificate stays within what was signed; a kill
  leaves nothing of the host.
- *Jobs*: at most one job is unfinished; each ends once; a runner is handed only
  what was approved in time, once, against the trust that still stands.
- *Daemon*: one question at a time; what was granted is on record; after a
  failed write nothing is granted; ids are never used twice.
- *Trust registry*: what the running daemon trusts, its ledger can show; a record
  replaces the very baseline the approver saw.
- *Runner*: at rest it holds what the daemon trusts; until the daemon has
  recorded a trust the old one can be put back; Terraform applies an approved job
  once, on the signed tree; a report says no more than is known, and is delivered
  in the end.
- *Issue*: what comes out of the gap is still inside a window that stands, and
  each call is answered.
- *Runner authentication*: a process accepts a signed request once, however the
  clocks are set within the slack.
- *Enrollment*: disk and memory agree on who may approve; a code is good for one
  device and a bounded number of guesses.
- *Review*: the operator reaches the digests that are signed; the diff tells every
  change, and the input is every file Terraform reads.
- *Plan and schema*: equal values are equal bytes; what is read is what is
  planned, and what is applied; the daemon never turns down an honest submit.
- *Notifications*: nobody is told of what is not on record; what was told stays;
  a closed window's card goes.
- *Commands*: the exit status is true then and ever after; each command ends; the
  agent holds no certificate the session has lost track of.

## 2. The modules

- `Gate` — a gate is a record and each method a function of it, since several
  run under one lock. It declares `gate` and `nextId`, the state shared by the
  others.
- `Grants` extends `Gate`. Each public method first ticks; so each action works
  on `Ticked(gate, t)`, what the private `tick` makes of the state at a clock
  reading `t`. `events` keeps the ledger lines instead of draining them, and
  `signed` and `certs` are histories that only the properties read.
- `Jobs` extends `Gate`. An action works on a record `j` of what a method may
  change, as the daemon's handler left it; the methods that lapse overdue jobs
  first do so with `Lapse`. Which jobs each method lapses differs, and follows
  the code.
- `Approvals` says, without a word of gates, clocks or ledgers, what a person and
  an agent are promised: one question at a time and each once, a grant only of
  what was asked, a use only of what is granted and within what it covers. It is
  no component; the others implement it (below).
- `Daemon` extends `Grants` and `Jobs`. A handler is one action, because it runs
  under the mutex; `AppendLedger` and `SaveNextId` are actions of their own,
  because the process may crash between them, and in the middle of the append:
  `ledger` is the lines that end and parse, `tail` what follows the last newline,
  and a line appended after a torn tail is glued to it (`Glued`). `phase` says
  where the call is. `Crash` forgets all that is in memory and keeps the files as
  they are; `Boot` is `Daemon::new`, which mends nothing. `ConsoleAppends` is the
  line that `untrust`, another process, adds.
- `IssueCache` extends `Grants`. `Ask`, `Lookup`, `Force` and `Insert` are the
  handler's holds of the lock; each ends with `Badge`. `Others` are the other
  handlers that move windows.
- `Trust` extends `Jobs`, for a daemon that decides jobs only: `Registers` keeps
  `trusted` what `registry` holds. `Call` is how a request
  goes: served or not, lost before the handler or after it, or with an append
  that fails; its arguments are the handler and what the caller does with an
  answer and without one. `FinishTrusted` is `finish_trusted` with its undo and
  the crash inside it. `Untrust` and `UntrustLine` are the two writes of the
  other process. A restarted daemon has forgotten its jobs; `DaemonBoot`
  reconciles.
- `Runner` extends `Trust` and adds the runner of one project. `disk` is what
  survives it. A handler's writes between two messages are one action; the
  operators from `TreeGone` to `Install` list the states those writes take the
  disk through, so that `InstallDies`, `SettleDies`, `StartupDies` and
  `ApplyDies` can leave it in any of them. `pc` is where the loop is between two
  messages: `Poll`; `Submit`, `PlanFails`, `PlanCancelled` and `Refuse` for
  work; `CheckPending`; `Claim`, `Orphan` and `ClaimUnjournaled` for an
  approval; `InstallTrust`, `ApplyPlan` and `ApplyRefused` for `execute`;
  `JournalReport`, `SendFinish`, `AskStatus`, `SendUnknown` and `Settle` for
  `deliver`; `Startup` for `startup` with `recover`. `terraform` is a history of
  the applies.
- `RunnerAuth` — `Verify` is the verifier's checks in their order. `accepted`
  keeps every request a process has accepted and `popped` how many have left the
  nonce list from its front, so that `Verifier::seen` is the rest. The two clocks
  tick together and the wall clock is set forward and back. Any request may be
  presented any number of times.
- `Enroll` — the daemon and the console over one directory. Each write of a
  handler is an action (`SaveDevice`, `ClearCode`, `Rollback`, `Strike`,
  `Expire`), and `handler` holds what it has read, so that a crash, a failed
  write or the console comes between. `Load` and `Bind` are apart because
  `forget` looks only for a bound socket.
- `Review` — an archive is unpacked entry by entry, `Collect` is one turn of
  `execution_input`'s loop, `Reviewed` renders the diff. `DiffDigest` is the
  operator's command, over a checkout whose modes come from its files.
- `Presented` — from the agent's manifest and Terraform's plan, or the worker's
  review and root's, to scope and display, the daemon's consistency check and
  Terraform's apply. `Meddle` is whatever may be written to the job's directory
  or to the copy meanwhile, `ContextChanges` the operator who replaces Terraform,
  its plugins or its config, or puts back what was there before.
- `Pushes` — `Announce` is what a call collects under the lock, each element of
  `tasks` what one task still has to deliver. What grants and jobs decide is
  modelled above; here a call asks, approves, declines, issues or kills.
- `Client` — `cli` is where each command is and what it remembers. The daemon and
  the runner are here as far as one job and one request of each command can tell;
  the job's states are those of `Jobs`, and `claim` and `effect` are what the
  runner does whatever becomes of the daemon. `Report` is where the daemon decides,
  `Undo` where the runner takes an install back, before or after that, or fails to.
- `MCGrants`, `MCJobs`, `MCDaemon`, `MCRunner` give the constants values for TLC.
  `MCEdges` sets `Enroll`, `RunnerAuth`, `Review` and `Presented` side by side,
  and `MCEnds` does so with `Client`, `Pushes` and `IssueCache`: these never meet
  in one step, so a behaviour is one of one of them, which `part` names, and the
  others stay as they begin. The states are the sum of the parts' states, not the
  product.
- `GateProofs`, `GrantsProofs`, `JobsProofs`, `ApprovalsProofs`, `DaemonProofs`,
  `RunnerProofs`, `EdgesProofs` (of `RunnerAuth`, `Enroll`, `Review` and
  `Presented`) and `EndsProofs` (of `Client` and `Pushes`) hold lemmas and theorems.

A definition whose comment begins with *wrong:* is not part of the model: it is
a plausible mistake in the definition after it, and `PROJECT.json` says which
property finds it out.

**Refinement.** `Approvals` is instantiated three times, each time with the
detailed state in place of its four variables.

| | `past` | `open` | `granted` | `uses` |
|---|---|---|---|---|
| `SshApprovals` in `Grants` | ids of the requested lines | the pending request | the windows held | the certificates |
| `JobApprovals` in `Jobs` | ids of the waiting lines | the job that waits | the job that is approved | the claims |
| `DaemonApprovals` in `Daemon` | both | both | both | both |

A window covers any number of certificates for its host and key that end within
it; an approved job covers one claim, of the very scope that was shown. So the
implementation says that a tap that crosses a timeout or a kill opens nothing,
that a runner is given what was shown and once, and, of `Daemon`, that two state
machines which know nothing of each other still put one question at a time.
`DaemonIsAnApproval` is of each life of the daemon: a crash forgets what waited
and was granted (`Forgotten`) while the ids in the ledger remain, and how ids
then come back is `daemon_reuse`.

**Abstractions.** A nonce is the id of what it is drawn for (both are unique). A
scope carries the fields that verdicts compare or that bound what follows. Keys
and hosts are opaque, and so are digests where only their equality matters
(`Jobs` to `Runner`); in `Review` and `Presented` a digest is the thing it is
taken of, since SHA-256 is taken to have no collisions. A refusal is a step
without effect beyond its tick; refusals that only differ in their message are
one step. Time is counted in whole ticks. The slot is a set of at most one
holder. `2 * age < CertTTL` stands for the code's comparison with half of a TTL.

In `Trust` and `Runner`: a tree is the digest of what it holds, or broken when it
was being removed. A request or its reply may be lost, but none is delayed past
the caller's next one, because the runner waits for each before it goes on. A
write or a rename may fail; a removal does not, but may be cut short by a crash.
Nobody edits the runner's disk by hand. An unreadable registry refuses the call,
as a lost request does. The clock does not step back, and the id counter
survives a crash, and no append is cut short within a line: `Daemon` is where
these are looked at. The runner serves one
project, so at most one result is unreported. `startup` retries the delivery;
here it is `Delivering` that goes on. Planning is a choice among the scopes it
may come up with; `Review` and `Presented` say how it comes to one.

In `Enroll` and `RunnerAuth`: a signature, or a passkey's registration, verifies
or not, by choice; a code is a number that nobody guesses but may be mistyped as
an earlier one. In `Review`: a path is a sequence of names, and constants say of
a file's contents what the parsers find in it. In `Presented`: numbers count
halves, so that 3 is 1.5; texts are sequences of tokens, of which the line break,
the blank and the secrets are told apart; a limit in bytes or characters is one in
entries or tokens. In `Pushes`: the badge's number and the wording are left out.
In `Client`: requests that fail do so with any status the code gives such a
failure.

## 3. The runs

| Run | Instance | What it shows |
|---|---|---|
| `grants` | `MCGrants.cfg`: 2 hosts, 1 key, lengths 1 and 3 (cut to 2), 4 ids, readings 0..3, cap 2 of 2, cooldown 1, 2, 3 | `SshTypeOK`, `RequestsAreAnswered`, `ApprovalsStand`, `RequestsAreLimited`, `KillStopsHost`; `SshIsAnApproval` |
| `jobs` | `MCJobs.cfg`: 1 project, 2 runners, 2 jobs, readings 0..3 | `OneJobAtATime`, `LinesTellTheJob`, `ClaimsAreSound`, `StrikesOnlyWhenAsked`; `JobIsAnApproval` |
| `daemon` | `MCDaemon.cfg`: 1 host, 1 project, 3 ids, readings 0..2 with the clock stepping back by 1, an hour of 2, cap 2, cooldown 1, 2 | `SharedSoundly`, `LimitsAreShared`; `DaemonIsAnApproval` |
| `daemon_faults` | `MCDaemonFaults.cfg`: a crash and a failed write, or a failed write and a torn line of the console's, each anywhere, an append cut short at any place; a new state directory or an inherited ledger; fairness | `LedgerIsTrue`, `NothingGrantedUnrecorded`; `LedgerCatchesUp`, `NothingWaitsForever` |
| `runner` | `MCRunner.cfg`: 2 digests, 2 jobs, readings 0..1, one fault anywhere | `TrustIsOneRecord`, `AppliesAreApprovedOnce`, `RecordedIsKnown`, `HeldFollowsRecord`, `RecordsReplaceTheirBaseline` |
| `runner_live` | `MCRunnerLive.cfg`: 1 job, two faults, undos that fail, fairness | `ReportsArrive` |
| `edges` | `MCEdges.cfg`: see the bounds | `DeviceListsAgree`, `CodesAreOneTime`, `AckedTokensSurvive`; `AcceptedOnce`; `OperatorAgrees`, `DiffTellsAll`; `CanonicalIsFixed`, `NeverInconsistent`, `ShownIsTrue`, `AppliedIsShown` |
| `ends` | `MCEnds.cfg`: see the bounds; fairness | `StatusIsTrue`, `AgentFollowsFile`, `EveryCommandEnds`; `ToldAndKept`, `CardsEnd`; `CallsEndInScope` |

Some of these are conjunctions of parts that the modules state one by one:

| Property | Parts |
|---|---|
| `RequestsAreAnswered` | `EveryRequestAnsweredOnce`, `SlotIsHeldByPending` |
| `ApprovalsStand` | `OpenWindowsStand`, `CertsWithinSignedScope`, `SerialsFollowTime` |
| `RequestsAreLimited` | `CooldownBacksOff`, `HourlyCap`, `ForecastIsRight` |
| `OneJobAtATime` | `JobsTypeOK`, `AtMostOneUnfinished`, `SlotIsHeldByJob` |
| `LinesTellTheJob` | `OneOutcomePerJob`, `ClaimsWereApproved` |
| `ClaimsAreSound` | `ClaimsStillTrusted`, `ScopeStaysFrozen`, of each step |
| `SharedSoundly` | `DaemonTypeOK`, `OneQuestionAtATime`, `IdsAreShared` |
| `LimitsAreShared` | `CooldownIsShared`, `CapIsShared` |
| `LedgerIsTrue` | `LedgerIsComplete`, `TearsCostOneLine`, `GrantsAreOnRecord` |
| `NothingWaitsForever` | `SlotComesFree`, `EveryJobEnds` |
| `TrustIsOneRecord` | `RunnerTypeOK`, `RecordsAreAudited`, `SidesAgree` |
| `RecordedIsKnown` | `OutcomesAreTrue`, `BaselineIsHonest` |
| `DeviceListsAgree` | `DevicesAreDurable`, `ForgottenStayGone`, unless a daemon was started while `forget` ran |
| `CodesAreOneTime` | `OneDevicePerCode`, `GuessesAreBounded` |
| `OperatorAgrees` | `OperatorRepeats`, `InputIsExact` |
| `ToldAndKept` | `ToldIsRecorded`, `RecordsStay` |
| `CallsEndInScope` | `CertsWithinSignedScope`, `EveryCallEnds` |

**Bounds.** `Time` is a short clock; every timeout is one to five ticks of it,
chosen so that each can fall before, on and after the next, and so that a window
outlives a certificate and the other way round. `LastRequest` and `MaxId` bound
requests and ids, `MaxReports` the bare reports of a forgotten job,
`MaxStepBack` how far the daemon's clock steps back, `Faults` how many crashes,
failed writes and torn lines of another program there are together. `Readings` and `JobReadings` keep the clock at most
one tick behind the high-water mark: all earlier readings are clamped to the
same. Two ids are enough for one request to follow another, three for a
certificate between them, four for two windows open together, each with a
certificate. In `MCGrants.cfg` the clock is longer than the hour, so that the
cap is spent, expires and is spent again, and three refusals in a row fit. One
digest is enough for `Jobs`, since a project may also be trusted at nothing:
what was signed and what is trusted differ. Bare reports of forgotten jobs happen
in the runner's instances and are off (`MaxReports` 0) where jobs are looked at
alone or with grants: such a report adds a line of an id that no entry has. In
`MCDaemonFaults.cfg` the clock has two readings: whatever waits is filed at the
first and due at the second, which is all that its liveness asks, and leaves room
for a crash and a failed write at every step. A crash together with a torn line of
the console's is left to the proof. In
the runner's instances `MaxFaults` counts messages lost, writes that fail and
crashes of either side together. One fault reaches each window between two
writes or two messages, two jobs let one follow another (a trust and its apply,
or two applies), and two digests let a trust be replaced; the same properties
hold with two faults, in an instance five times the size. `Trust` begins with or
without a recorded trust.

In `MCEdges.cfg`: two names, two codes, two ceremonies, two starts of the daemon
and one failed write (`MaxCodes`, `MaxChallenges`, `MaxBoots`, `MaxFaults`) let a
code be minted over another, a device be forgotten and enrolled again, and the
daemon restart in the middle; a code has two guesses, so the first and the last
strike differ. Two clocks of seven readings, steps of 1 and 4 and two accepted
requests (`MaxAccepted`) hold a whole life of a nonce (`NonceTTL` 3 over a skew of
1) and a wall clock set back by less and by more than the slack. The archives are
every sequence of the fifteen entries of `MCEntries` that fits `MaxFiles` and
`MaxBytes`: modules that refer to one another and back, a link, names that are
refused, a `.tf` file of no module that does not parse, an execute bit, against a new project and two trusted trees. The
manifests, schemas and plans meet each form of a number, each constraint at and
over its bound, each list of actions, and addresses with a line break, a blank, a
secret and nothing. The context is one of two (`Contexts`) and is replaced twice
(`MaxChanges`) anywhere after it was recorded, so that a replacement is put back.

In `MCEnds.cfg`: a job of each kind; two commands on one session; one failed poll
fewer than, and as many as, `PollFailures`; one window, three alerts, a restart
(`MaxWindows`, `MaxAlerts`, `MaxRestarts`) and two phones that want different
kinds; and two overlapping issue calls, with ids for two windows. Commands are
polled any number of times: nothing bounds a wait but its own deadline.

Names, digests and hosts that nothing orders are symmetric in the safety
instances; no liveness run uses symmetry. `CHECK_DEADLOCK FALSE` is set where the
system really stops: a review is over, a command has ended, a clock's readings are
used up.

**Fairness.**
- `DaemonFairSpec`: a call that holds the mutex runs to its end, a daemon that
  is down is started again (the systemd unit restarts it), and a client that
  waits polls until it is answered (`bin/shoephone.rs`), so one poll gets the
  mutex after the deadline. That poll is strongly fair because other calls may
  take the mutex first. Nothing is assumed of planning, answering, claiming or
  reporting.
- `RunnerFairSpec`: the runner is started again and its loop goes on delivering; a
  daemon that is down is started again, and one whose ledger has failed is
  restarted by its operator, which its refusals ask for. Nothing is assumed of
  polling, planning or approving, and no message is sure to arrive but for the
  bound on faults.
- `IssueFairness`: each call that waits for the mutex gets it in the end.
- `PushFairness`: the reaper's timer and the spawned tasks run, and time reaches
  a window's end. A delivery may always fail.
- `ClientFairness`: a command's own loop goes on and its deadline passes. The
  daemon, the runner, the person and the network owe it nothing.

**Where the code and its own comments part.** Each is a run that TLC must find
violated, with the quoted sentence as its property.

| Run | Property | What happens |
|---|---|---|
| `daemon_reuse` | `NeverReused` | a crash between the append and the counter: the id is handed out again |
| `runner_orphan` | `OrphansEndNow` | a lost reply to an orphan's claim leaves the job claimed, and the open journal entry then refuses every later claim until the runner restarts |
| `runner_undo` | `UndoIsTriedAgain` | an undo that failed leaves its install open with the runner polling on; a later first trust (the project was untrusted in between) removes the old trust and writes over the marker |
| `client_nothing` | `NothingRanIsTrue` | an approval and a claim fall between two polls and the daemon restarts: the command says that nothing ran while the runner applies the plan |

Also met, and checked by no run.
- *Grants, Jobs, Daemon.* With a ledger and no counter file the count resumes past
  the request ids and not past the serials (`store.rs` `highest_ledger_id`; this
  version never leaves such a directory). `Grants` and `Jobs` clamp the clock
  apart, so that after it steps back the times in `gate.accepted`, "oldest first"
  by their comment, may be out of order, and a request that the one has dropped as
  an hour old is younger on the other: within an hour of the earlier clock more are
  let in than the cap (`CapIsShared` takes off what the clock stepped back). An approval later than the end of the
  window asked for is recorded and opens nothing (`grant.rs` `approve`). An SSH
  request may be refused as busy for a job whose time is already up, since the
  handler does not tick the jobs (`server.rs` `request`). An approval refused for
  age or for a trust that moved ends the waiting job, though a comment
  (`job.rs` line 701) has it stay. `kill` of a host drops the ceremony in progress,
  which may be a job's (`server.rs` line 1011): the person starts over.
- *The ledger.* A write cut short, by a crash or a full disk, leaves a last line
  without its end. `append_ledger` does not look at how the file ends and nothing
  mends it at the start, so the next line appended, of the next process too, is
  glued to the fragment and skipped by every reader (`store.rs` line 626). The
  comment on `append_ledger` bounds a crash to "losing at most one line" and has
  `Ok` mean that the bytes are on disk (lines 560 to 566): the torn write loses what
  it did not get to, and one line more of which `Ok` was returned; the bytes are on
  disk but no reader finds the line. `TearsCostOneLine` is what holds. It is never
  the approval of something granted, unless `untrust` left the fragment while the
  daemon ran, because the first line of a batch after a start is not an approval.
  Two consequences lie outside the models. A fragment left by `untrust` may swallow
  a `trusted` line, and the next start then drops that record as unaudited
  (`Trust` appends whole lines). And a tear within a character of several bytes is
  a read error, not a line to skip: the daemon does not start
  (`store.rs` lines 330 and 620); tears fall between characters here.
- *Issue.* A reuse may return another certificate than the one named in its
  comment, and the fallback that "should not happen" does, while another call is
  still signing.
- *Enrollment.* The name of a code and the name of the ceremony it finishes may
  differ when the console mints between the two. A code minted while a handler is
  at work may be cleared with the old one, or the old one written back over it. A
  finish whose rollback also fails leaves on disk a device nobody was told of. A
  daemon started while `forget` runs may write the removed device back. No write
  here is synced to the disk.
- *Runner authentication.* A restart forgets the nonces, so a request within the
  skew is accepted by the next process; a wall clock set back by more than the
  slack, after the nonce was dropped, has the same effect.
- *Notifications.* A card is not ended when another phone registers one for the
  same window, whose token takes its place; nor after a restart.
- *Commands.* A trust whose baseline moved is refused at finish (`server.rs` line
  2704), when it is installed already; the runner takes it back after it has the
  answer (`run.rs` line 747), and a command that polls in between exits as
  `Permanent` while the tree is there. When the undo fails the
  tree stays until the runner's next start. `StatusIsTrue` excepts this. A poll that
  fails too often exits as unreachable though the job stays filed; `request` gives up after one failed poll; two commands that load at
  a time leave a second identity in the agent; a crash between the two halves of
  the session key leaves a session that stays unusable until it is removed
  (`session.rs` line 90); an unknown 4xx is told as permanent.
- *Review, Presented.* The bound on files counts an archive's entries and not the
  directories made for them; `schema_text` and the scan read files of the
  installed tree without the digest that was recorded; the context is compared
  at two instants, as the plan begins (`run.rs` line 1226) and at the claim (line
  1402), so one that is replaced and put back in between goes unseen though
  Terraform planned in it, and so does one that changes between the check and
  Terraform's start (`AppliedIsShown` says so: `replaced < 2`); a canonical text may grow
  over the manifest's limit by its defaults; a crash leaves `backend.hcl` behind.

Of the decisions themselves none lets anything through that was not approved:
`ApprovalsStand`, `ClaimsAreSound`, `AppliedIsShown` and
`GrantsAreOnRecord` hold throughout (the last but for a line `untrust` tore).

## 4. The proofs

| Module | Proves | Of |
|---|---|---|
| `GrantsProofs` | `SshTypeOK`, `RequestsAreAnswered`, `ApprovalsStand`, `KillStopsHost`, `RequestsAreLimited`; `SshIsAnApproval` | `GrantsSpec`, every set of hosts and keys, every policy and clock (stepping back included) |
| `JobsProofs` | `OneJobAtATime`, `LinesTellTheJob`, `ClaimsAreSound`, `StrikesOnlyWhenAsked`; `JobIsAnApproval` | `JobsSpec`, every set of projects, runners, digests and every policy and clock |
| `ApprovalsProofs` | `Sound`, `UsedOnce` | `Approvals`, every notion of covering a use |
| `DaemonProofs` | `SharedSoundly`, `LimitsAreShared`, `LedgerIsTrue`, `NothingGrantedUnrecorded`; `DaemonIsAnApproval` | `DaemonSpec`, any number of crashes, failed writes and torn lines, any inherited ledger, any clock |
| `RunnerProofs` | `TrustIsOneRecord`, of which `RecordsAreAudited` is a part, `AppliesAreApprovedOnce`, `RecordedIsKnown`, `RecordsReplaceTheirBaseline` | `RunnerSpec`, any number of faults, whether undos may fail or not |
| | `HeldFollowsRecord` | the same, where taking an install back does not itself fail (`~UndoMayFail`) |
| `EdgesProofs` | `AcceptedOnce` | `AuthSpec`, every set of requests, skew, lifetime and bound |
| | `DeviceListsAgree`, `CodesAreOneTime`, `AckedTokensSurvive` | `EnrollSpec`, every bound on codes, guesses, starts and faults |
| | `DiffTellsAll` | `ReviewSpec`, every archive, baseline and bound |
| | `AppliedIsShown`, `CanonicalIsFixed`; that a trust is shown as root reviewed it (`TrustIsShown`) | `PresentedSpec`, every schema, manifest, plan and review |
| `EndsProofs` | `ClientTypeOK`, `StatusIsTrue`, `AgentFollowsFile` | `ClientSpec`, any number of commands in any mix |
| | `ToldAndKept` | `PushSpec`, any finite set of phones, whatever they want |
| `GateProofs` | what the gate's methods keep of a gate, how often they let a person be asked, on one clock (`Limited`) or on two (`Metered`), and that `PopExpired` and `Cooldown` are well typed | used by the others |

*Assumptions.* Each module names its own, and TLC evaluates them on every run. The
policy's values are naturals, an hour is not zero, the base cooldown is at most
the largest (which `config.rs` enforces), a finished job is remembered for some time
(`DONE_RETENTION` is an hour), a code has at least one guess, each
project has one runner and `Me` serves `Project` alone, a tree says what its schema
is (`SchemaOf`: `schema_text` reads it from a file of the tree, and the runner's
project keeps its `path` and `schema_file`), an inherited ledger is a
finite set of lines (`DaemonAssumption`), a state directory starts with no
device or a legacy one (`EnrollAssumption`), phones are finite in number
(`PushesAssumption`), and `None` and `Broken` are no values they stand beside: no
digest, journal entry or report. `InputsParsed` says what a parsed number is and
that a schema has finitely many variables; `ReviewsTell`, that a review warns finitely often, of
variables with names, and shows a diff or the command that makes it. `NoneApart` is
the one hypothesis TLC cannot evaluate: Rust's `None` is neither a file nor a tree.
`DoublingAssumption` states that the powers of two up to `MaxDoublings` are
positive naturals; it is arithmetic and TLC evaluates it for the code's 16, but
exponentiation has no axioms in the prover.

*The argument for Grants.* None of the properties is inductive alone. `IInv` is
`Sound` of the current state, and has six parts: the types (`Typed`); who holds
the slot (`Slotted`); how requests and verdict lines match, with every id below
the counter (`Answered`); that the waiting request has its own requested line,
dated when it was filed (`Recorded`); that each window stands on a signature that
was not killed (`Standing`); and that certificates lie within theirs, none dated
after the high-water mark (`Certified`). `Sound` takes the state as parameters
because each action begins with a tick: `TickIsSound` shows that what `Ticked`
makes of a sound state is sound, and one lemma per action shows that its own
work on such a state is. `StepIsSound` joins them, and each theorem follows from
`IInv`. `KillStops` is an action property and uses the invariant of the state
before.

*How often a person is asked.* `RequestsAreLimited` counts lines, a set without
order, where the gate keeps a sequence of times. `Limited` (in `GateProofs`)
relates the two for a sound gate: the requested lines of the last hour map one to
one into `gate.accepted`, so that there are no more of them than the sequence is
long; the refusals since the last approval are the strikes; and what each refusal
costs is over by the end of the cooldown, or already. A request let in, a refusal
and an approval keep it, and a tick only drops times an hour old.

*How often a person is asked, by two clocks.* `LimitsAreShared` is of SSH requests
and jobs together, and each of the two clamps the clock to its own high-water
mark before it looks at the gate. `Metered` (in `GateProofs`) is `Limited` with
the later of the two clocks, `late`, and how far the other may be `back`. Requests
later than an hour before `late` are counted by `gate.accepted` (`Counted`), so any
hour cut short by `back` held no more than the cap when it began to fill
(`Spread`). The strikes of the gate are the lines since the last approval, and
`cooldownUntil` is past what each of them costs (`Running`, `WaitedOut`), whichever
clock dated it. `SshSharing` and `Sharing` say the same with the lines of the side
that moves told apart from those of the side that does not, so that a method of
Grants keeps it whatever the jobs' lines are, and the other way round. `Sharing`
also has the trail of each job (`Trail`, `OnRecord`): that a job waits or is
approved is in its lines, which is how a decline is known to cost a strike.
`Limits` is `Sharing` of the daemon's state; `SshShares` and `JobActs` take it
through the calls, and `AskingIsShared` follows.

Proving it corrected the property. It said that the two stay within the cap in an
hour whole and that a strike always holds back the next request by the base
cooldown; both held in an instance too short for a clock to step back after an
hour, or after an approval. It now says what the gate keeps, with the whole of the
doubled cooldown.

*Grants implements Approvals.* `IInv` gives what a step needs to map: the id of a
new request is in no requested line, the window that issue picks stands in the
list, and its certificate ends by the window's end. `TickLapses` shows that what
a tick takes away is only taken away, so each action's step is the abstract step
of its own part. `RequestAsks`, `ApproveGrants`, `IssueUses` and `LapseStep` are
the four kinds, and `StepIsAnApproval` joins them.

*Jobs implements Approvals.* `Idle` relates the entries and lines before a stage of
a method to those after it: nothing new waits or is approved, nothing new is
planned, and no waiting line is added. Lapsing, pruning, ending, filing and
starting are idle, and `IdleStep` makes a lapse of them. What is left are submit,
approve and claim, where `AloneIn` says that the entry a method moved is the only
one a person or a runner can still be concerned with. The question a submit asks
is new because a job being planned has no waiting line (`Unasked`), which is
inductive beside `JobsInv`.

*The daemon implements Approvals.* `DaemonIsAnApproval` is of each life of the
daemon: a crash empties the memory (`Forgotten`), and `Approvals` starts anew.
Either side's steps are steps of `Approvals` already, with the gate the other one
moved (`ActIsAnApproval`, `JobActsRefine`); `SshMoves` and `JobsMove` make them
steps of the two together, from what tells the two apart (`Apart`): no id is asked
by both, which needs that each waiting line has its requested line (`Trail`), no
request waits beside a job, and an SSH scope is no job's. Where a handler ticks
both, or a job's tick goes before an SSH decline, both only lapse (`BothLapse`).
`Acted` says what the handlers amount to, for this proof and for the limits.

*The argument for Approvals.* `Sound` is inductive as it stands: what is open was
asked, what is granted was asked and is open no more, what is used was asked and
is open no more, and an id that is used up is not granted. `OnceIsOnce` adds
`UsedOnce`.

*The argument for Jobs.* Every method works on a record, in stages: it reads the
clock, lapses some entries, forgets old ones, then does its own work. So the
invariant is a predicate of such a record, `Good(j, n, cs)`, with the next id and
the claims, and `JobsInv` is `Good` of the state. Its parts are the types with
what an entry holds in the state it is in (`JTyped`, `Shaped`); one entry an id and
one unfinished (`OneEach`); whose the slot is (`JSlotted`); which outcome lines
there are of an entry, none before it is done (`Told`); and how the ledger shows
the way of each claim, and of each entry that may still be claimed (`HandedOut`):
that a claim comes after an approval in time cannot be seen from the claim alone.
`SettleGood`, `AdvanceGood` and `ClaimGood` are the three things a method does to
an entry; `LapseGood`, `PrunedGood` and `ReadingGood` are the stages. `Continues`
relates the entries before and after each of them, and gives `ScopeStaysFrozen`.
A claim hands out what the entry holds, which `ClaimInv` compares with the trust
of the same step. `Charged` says of a record within a method that its strikes are
no more than at the start, or that an entry that waited then has ended just now, by
a decline, a timeout or a kill; `NoneNew`, that whoever waits in it waited then, so
that a lapse before the method's own work cannot charge for what that work brings.
`StrikesAreEarned` needs that what ended just now is not forgotten in the same call.

*The argument for runner requests.* `AuthInv` adds to the property that what was
dropped is old on the monotonic clock, and on the wall clock but for what it was
set back since (`PoppedAreOld`), and that each accepted request was fresh
(`AcceptedInTime`). A request accepted again is not in the list, so it was
dropped; being fresh again it needs the wall clock back.

*The argument for the diff.* `ReviewedInv` says that the input is a tree and that
what is done is its review. `ChunkTells`: what a diff says of one path, next to
what the baseline has there, tells what the new tree has there. So two trees with
one diff against one baseline agree at every path (`RenderedTells`), and no edit of
the candidate goes unseen. It is proved of every two trees; the run tries those
one file apart.

*The argument for plans.* That the plan applied is the one shown is known from two
things that Terraform's user cannot move: `StagesStand`, what each stage of an
apply job knows of the ones before it, and `WorkedSince`, that the context is the
one recorded and the only one worked in as long as none was replaced, and another
one after the first replacement, so that if the two are equal at the claim there
was no replacement, or there were two.

*The argument for canonical texts.* `CanonicalOfManifest` says where a text comes
from. Each value in it is `Settled`: the form of its number follows from the
number, so that two that mean the same are the same. Read back and normalized it
is what it was (`ReadBackSettled`), and a canonical text names each variable of
its schema that has a value once, in the schema's order, with its defaults filled
in, so validating it again changes nothing, if it is no longer than a manifest may be:
its defaults may make it so.

*The argument for trusts.* `TrustShown` is inductive: what is shown of a trust is
taken by the daemon, and the candidate and diff are root's. The warnings are cut
to what the daemon takes, and finitely many can be cut.

*The argument for commands.* `ClientInv` is the types and, of each job command
(`CommandInv`), how its step, its job, the runner's claim and the effect go
together: a job that is not claimed has changed nothing, a result that rules a
change out is final, but for a trust that the daemon refused and that is still to
be taken back (`TakingBack`), and a status is given only for a result or where it promises
nothing. Each action disturbs one command, or only what is forgotten.

*The argument for agents' certificates.* `AgentInv` relates file, session key and
agent: an identity the agent holds is the one of the file or belongs to a command
that has yet to write it, or to write it again. `AgentAlone` says that commands
that load one at a time cannot leave a second.

*The argument for notifications.* `PushInv` says of each alert, on its way or
shown, that its line is recorded, and of each record delivered that it is still
shown: what a later push collapses onto is never a record.

*The argument for the daemon.* Grants and jobs know nothing of each other, and
both invariants speak of a gate each believes its own. `Shared` says what lending
it leaves: the holder is the request that is pending or the job that waits, by its
kind (`HoldOf`), and whoever is not the holder has nothing pending. `Lends` is
what a call of the one must keep of the gate for the other. `OnDisk` is of the
ledger: outside the append each recorded line was appended, unless an append has
failed; and what the caller is about to be told it was granted has its approval
among the recorded lines. For that the approval must not be the line a torn tail
takes: a process that starts on one has nothing pending and no job waiting, so its
first lines are of a request or a job and not of an approval (`FirstLines`,
`NothingApprovedFirst`), and once it has appended a line the file ends well, but
for other programs (`Kept`). `Torn` counts the lines lost against the writes cut
short: a tail is made by one of them and spent on one line. `DaemonInv` is all
three. `GrantsAreOnRecord` follows at the
end of a call, where an answer needs an append that went well, and
`NothingGrantedUnrecorded` at its start: what `with` serves after a failed write
grants nothing.

*The argument for enrollment.* `EnrollInv` follows each write of a handler: a code
in a handler's hand is the one on disk or one that was since replaced (`Coded`,
`NeverReused`); a code that made a device is spent or the handler that spent it is
still at it (`OneEach`, `CodesSpent`); guesses are what strikes were written; and
the lists on disk and in memory differ by what the handler, or `forget`, is about
to write (`Agreed`).

*The argument for the runner.* Two machines and two disks move in each step, so
the proof has three layers. *What a call may do to jobs*: `Evolved` is the least a
runner can count on (no entry goes back, no line is lost, a claim is never
withdrawn); `Passed` is a call that was served, `Passing` one that may have been
lost, and `Muted` one that tells the ledger nothing of the pending job.
*What the registry holds*: `TrustInv` is `JobsInv` with `JobsKept` and
`RegistryKept`, which holds each record of a running daemon to its trusted line.
`TrustWent` says that a record changes only when a line is added, and from the
baseline its approver saw. *Where the runner is*: `RunnerInv` relates the disk to
the daemon's ledger, by the step the loop is at: what is in hand was claimed
(`InHand`), the journal names it (`Journaled`), what waits to be reported is what
was done (`ToReport`), outcome lines say no more than the journal did
(`LinesTrue`), each apply has its claim and no second one (`RunsClaimed`), and the
baseline of a plan is what was applied (`BaselineIsHonest`). `Halfway` is the
moment inside a step when the daemon has moved and the runner has not. The
writes between two messages are sequences of disk states (`Writes`, `Notes`), so
that a crash is at some state of the sequence, and a lemma about the sequence
serves the action that finishes it and the one that dies in it. TLC checked
`RunnerInv` as an invariant of the `runner` instance with one fault, and with two
and undos that fail, before it was proved.

Proving it corrected the model: `ApprovedNow`, which `AppliesAreApprovedOnce`
reads, looked at any project's approved job; with the one project of the instance
that is the runner's own, with several it was not.

*The argument for the two sides.* `TrustIsOneRecord` adds to the audit that the
runner's trees and the daemon's registry agree whenever nothing is under way.
`SidesInv` says what they have in common at every other point. A record is of a
job claimed, or done and trusted (`RecordKnown`); the trust a plan names is not
recorded yet (`ToCome`); report, journal entry and install marker go together
(`Opened`); an open install is of a job handed out (`Pledged`), and an answer of
the daemon says what became of its record (`Judged`); and the runner either has
what is recorded or can go back to it, through whatever part of an undo has been
done (`Holds`, `Kept`). `HalfSides` is the moment inside a step when the daemon
has moved and the runner has not. An undo, a commit, an install and a startup are
sequences of disk states, and a lemma on each says that every state of it keeps
what is recorded within reach, so that a crash in it is covered with its end.
`SidesRecorded` and `SidesStaged` are the outcomes of finishing a trust: already
recorded, no claim, the baseline moved, accepted, taken back, or a crash before
any of these. TLC checked `SidesInv` with two faults and undos that fail before it
was proved.

*The argument for the trust held.* `HeldFollowsRecord` is of each write: whatever
disk a crash leaves, what the runner has or can go back to (`OldTrust`) is what it
had, or nothing, or a trust the ledger has. `HeldInv` says, next to `RunnerInv` and
`SidesInv`, that a disk is missing no part of what it goes back to, and that each
record on it is of its tree's schema (`Whole`); that a running runner has an install
open only until it is answered for (`Marked`); that each trusted line of a job is one
of a trust too (`Ledgered`); that an open install is what was signed for, unless its
job came to nothing (`Placed`); and that an answer tells which of the two
(`Outcome`). An install, an undo, a commit and a start are sequences of disk states,
and each is shown to stay within `Holding(h)`, the disks that hold `h`, up to the one
write of a commit that puts the new trust in the old one's place; `AnswerHolds`
shows that it comes only after a trusted line. TLC checked `HeldInv` as an
invariant, with two faults and one schema and with one fault and two schemas, before
it was proved.

The hypothesis is needed: an undo that fails leaves its install open on a runner
that polls on, and what a later install then moves aside is not what was held. It
is what the run `runner_undo` shows of `install_undo`'s comment. Proving it also
corrected the model: the schema of a candidate was chosen freely, while the code
reads it from the tree, so that one tree could be trusted under two schemas.
`SchemaOf` says what the code does. In the runs every tree has one schema.

*Only model-checked*:

- `OperatorAgrees` of `Review`: what both sides collect is what the module
  references reach, and so is an induction over data;
- `NeverInconsistent` and `ShownIsTrue` of `Presented`, but for trusts: they are of
  texts made by flattening and sorting, folds that no prover here can unfold;
- `CallsEndInScope` of `IssueCache`;
- all liveness, which is beyond this prover. No module here declares a recursive
  operator.

## 5. Plan

Written, in this order: `Gate`, `Grants` and its proofs, `Jobs`, `Daemon`,
`IssueCache`, `Trust`, `Runner`; then `RunnerAuth`, `Enroll`, `Pushes`, `Client`,
`Review`, `Presented` and `Approvals` with what implements it; then the proofs of
section 4.

Left: of the properties, those section 4 lists as only model-checked; of the
system, section 6.

## 6. Not modelled

Wording and wire formats; the CA and WebAuthn beyond their verdicts; the parsers
of HCL, JSON, TOML and patterns (constants say what they find); how a text diff is
laid out and cut; what notifications say and how APNs and ntfy are spoken to;
secrets but for whether an address shows one; the sandbox and the process limits
Terraform runs under; parsing of configuration and arguments; the views that
change nothing; `untrust`'s and `forget`'s prompts; saturation of `u32` and
`SystemTime`, which no run of the program reaches; a runner of several projects,
or several runners of one daemon beyond `Jobs`.
