------------------------------ MODULE Daemon ------------------------------
(***************************************************************************)
(* shoephoned (src/server.rs, `Daemon`): SSH grants and Terraform apply    *)
(* jobs behind one lock, one gate and one id counter, with the audit       *)
(* ledger and the counter on disk (src/store.rs).                          *)
(*                                                                         *)
(* A call runs under the lock in three steps.  Its handler changes the     *)
(* state in memory and records ledger lines; AppendLedger writes them;    *)
(* SaveNextId writes the counter if it moved, counts the badge, which      *)
(* ticks the grants once more, and lets go.  The process may crash before  *)
(* any of them, or halfway through the append.  A call through `audited`   *)
(* is refused before it runs once a write has failed; one through `with`   *)
(* runs all the same.                                                      *)
(*                                                                         *)
(* The trust registry does not move here: jobs are apply jobs, and every   *)
(* refresh_trusted reads the trust they were planned against.  Of the      *)
(* console's `untrust`, another process, only its append is here.          *)
(***************************************************************************)
EXTENDS Grants, Jobs

CONSTANTS
    CeremonyTTL,   \* server.rs CEREMONY_TTL
    Inherited,     \* the ledgers an earlier version may have left behind
    MaxStepBack,   \* bound: how far the wall clock may step back
    Faults         \* bound: how many crashes, failed writes and torn appends of
                   \* other programs there may be together, as triples

VARIABLES
    phase,         \* "idle", "append" or "save" of a call, or "down"
    call,          \* the call that holds the lock
    ceremony,      \* Inner::approve, the approval in progress, or None
    ledgerFailed,  \* Inner::ledger_failed
    drained,       \* the lines of this process that take_events has taken
    persisted,     \* Inner::persisted_next_id
    ledger,        \* ledger.jsonl: its lines that end in a newline and parse
    tail,          \* what it has after the last newline: nothing, a whole line,
                   \* or None for part of one
    nextIdFile,    \* the next_id file, or None while there is none
    told,          \* history: what callers were granted
    lost,          \* history: the lines appended without an error that nobody
                   \* can read
    crashes, failures,
    others         \* appends of other programs that were cut short

diskVars == <<ledger, tail, nextIdFile>>
boundVars == <<lost, crashes, failures, others>>
lockVars == <<phase, call, ledgerFailed, drained, persisted>>
daemonVars == <<gate, nextId, sshVars, jobVars, lockVars, diskVars, ceremony,
                told, boundVars>>

ASSUME DaemonAssumption ==
    /\ {CeremonyTTL, MaxStepBack} \subseteq Nat
    /\ Faults \subseteq Nat \X Nat \X Nat /\ <<0, 0, 0>> \in Faults
    /\ \A lines \in Inherited : IsFiniteSet(lines) /\ lines \subseteq Lines \cup JobLines

\* The lines recorded since the process began, drained or not.
Recorded == events \cup jobEvents
NoCall == [audited |-> FALSE, grants |-> {}]
Undrained == Recorded \ drained

\* The ids and serials the ledger names.
Named(lines) == {l.id : l \in lines} \cup {l.serial : l \in {x \in lines : x.kind = "issued"}}

----------------------------------------------------------------------------
(* The frame of a handler.                                                 *)

\* A handler runs: `with` always, `audited` unless a write has failed.
ServesAlways(audited) == phase = "idle"   \* wrong: a failure is forgotten
Serves(audited) == phase = "idle" /\ (audited => ~ledgerFailed)

\* What the call hands out if it is answered: the approvals and certificates
\* it recorded, and the approval it let a runner claim.
Handed ==
    {<<l.kind, l.id>> : l \in {x \in Recorded' \ Recorded :
                                  x.kind \in {"approved", "issued"}}}
    \cup {<<"claimed", c.id>> : c \in claims' \ claims}

Locks(audited) ==
    /\ Serves(audited)
    /\ phase' = "append"
    /\ call' = [audited |-> audited,
                grants |-> IF audited THEN Handed ELSE {}]
    /\ UNCHANGED <<ledgerFailed, drained, persisted, diskVars, told, boundVars>>
With == Locks(FALSE)
Audited == Locks(TRUE)

SshKeeps == UNCHANGED sshVars
JobsKeep == UNCHANGED jobVars

\* What jobs.tick leaves, but for the gate, which the grants then take on.
JobsLeft(j) ==
    /\ jobsHighWater' = j.now
    /\ entries' = j.entries
    /\ jobEvents' = j.events
    /\ UNCHANGED <<trusted, claims>>

----------------------------------------------------------------------------
(* The handlers, each at a reading t of the clock.                         *)

\* status, pending: jobs.tick, then the windows or the pending request.
Status(t) ==
    LET j == JobsTicked(JobsAt(gate, t))
    IN  JobsLeft(j) /\ SshTick(Ticked(j.gate, t)) /\ With /\ UNCHANGED ceremony

\* poll, and the windows views: only the grants tick.
PollRequest(t) == SshTick(Ticked(gate, t)) /\ JobsKeep /\ With /\ UNCHANGED ceremony

\* job, runner_archive, and the read-only precheck_job, which is audited.
ShowJob(t) == JobTick(JobsAt(gate, t)) /\ SshKeeps /\ With /\ UNCHANGED ceremony
PrecheckJob(t) == JobTick(JobsAt(gate, t)) /\ SshKeeps /\ Audited /\ UNCHANGED ceremony

\* request: the jobs are not ticked.
Request(t, host, key, wanted) ==
    SshRequest(Ticked(gate, t), host, key, wanted) /\ JobsKeep
    /\ Audited /\ UNCHANGED ceremony

\* issue, and the forced call it makes when it has no certificate to reuse.
Issue(t, host, key, forceFresh) ==
    SshIssue(Ticked(gate, t), host, key, forceFresh) /\ JobsKeep
    /\ Audited /\ UNCHANGED ceremony

\* kill of a host: with nothing pending left, the ceremony is dropped, be it
\* an SSH request's or a job's.
KillHost(t, host) ==
    LET s == Ticked(gate, t)
        stopped == s.pending # None /\ s.pending.scope.host = host
        hit == stopped \/ \E w \in s.windows : w.scope.host = host
    IN  /\ SshKill(s, host) /\ JobsKeep /\ With
        /\ ceremony' = IF hit /\ pending' = None THEN None ELSE ceremony
KillProject(t, project) ==
    JobKill(JobsAt(gate, t), project) /\ SshKeeps /\ With /\ UNCHANGED ceremony

\* file_job.
FileJob(t, project) ==
    JobRequest(JobsTicked(JobsAt(gate, t)), project, "apply") /\ SshKeeps
    /\ Audited /\ UNCHANGED ceremony

\* approve_start binds the ceremony to what waits under that id.
ApproveStart(t, id) ==
    LET j == JobsTicked(JobsAt(gate, t))
        s == Ticked(j.gate, t)
        waiting == {e \in j.entries : e.state = "waiting" /\ e.id = id}
        begun(kind, nonce, scope) ==
            [kind |-> kind, id |-> id, nonce |-> nonce, scope |-> scope, started |-> t]
        ssh == s.pending # None /\ s.pending.id = id
    IN  /\ JobsLeft(j) /\ SshTick(s) /\ With
        /\ \/ ssh /\ ceremony' = begun("ssh", s.pending.nonce, s.pending.scope)
           \/ ~ssh /\ \E e \in waiting : ceremony' = begun("job", id, e.scope)
           \/ ~ssh /\ waiting = {} /\ UNCHANGED ceremony

\* approve_finish takes the ceremony, whatever then becomes of the call: it is
\* for another id, too old, or the assertion is not a device's (`good` false).
ApproveFinish(t, id, good) ==
    LET fits == /\ ceremony # None /\ good
                /\ ceremony.id = id /\ ceremony.started + CeremonyTTL > t
    IN  /\ ceremony' = None
        /\ \/ /\ fits /\ ceremony.kind = "ssh"
              /\ SshApprove(Ticked(gate, t), id, ceremony.nonce, ceremony.scope)
              /\ JobsKeep
           \/ /\ fits /\ ceremony.kind = "job"
              /\ JobApprove(JobsAt(gate, t), id, ceremony.nonce, ceremony.scope)
              /\ SshKeeps
           \/ ~fits /\ UNCHANGED <<gate, nextId>> /\ SshKeeps /\ JobsKeep
        /\ Audited

\* decline.
Decline(t, id) ==
    LET j == JobsTicked(JobsAt(gate, t))
        job == \E e \in j.entries : e.state = "waiting" /\ e.id = id
    IN  /\ ceremony' = None
        /\ \/ job /\ JobDecline(j, id) /\ SshKeeps
           \/ ~job /\ JobsLeft(j) /\ SshDecline(Ticked(j.gate, t), id)
        /\ With

\* runner_poll, runner_submit, runner_refuse, runner_claim, and runner_finish
\* for the outcomes of an apply.
Runner(t, runner) ==
    /\ SshKeeps /\ UNCHANGED ceremony
    /\ \/ JobPoll(JobsTicked(JobsAt(gate, t)), runner) /\ Audited
       \/ \E id \in Known, sc \in ApplyScopes :
             JobSubmit(JobsAt(gate, t), runner, id, sc) /\ Audited
       \/ \E id \in Known, res \in {"refused", "plan_failed"} :
             JobRefuse(JobsAt(gate, t), runner, id, res) /\ With
       \/ \E id \in Known : JobClaim(JobsAt(gate, t), runner, id) /\ Audited
       \/ \E id \in Known, p \in Projects, res \in {"applied", "apply_failed", "outcome_unknown"} :
             JobFinish(JobsAt(gate, t), runner, p, id, res) /\ With

\* reap_expired: every 15 seconds, while some window has a Live Activity.  It
\* ticks the grants and drains nothing.
Reap(t) ==
    /\ phase = "idle" /\ windows # {}
    /\ SshTick(Ticked(gate, t))
    /\ JobsKeep /\ UNCHANGED <<lockVars, diskVars, ceremony, told, boundVars>>

----------------------------------------------------------------------------
(* drain_and_append, and the end of the call.                              *)

\* take_events of the grants and of the jobs.
TakesSsh == events   \* wrong: the jobs' lines are left where they are
Takes == Recorded

\* The lines read_ledger returns: a last one that lacks its newline parses.
Readable == ledger \cup (tail \ {None})

\* append_ledger opens the file to append and writes all lines at once, the
\* grants' before the jobs'.  Nothing looks at how the file ends: after a torn
\* tail the first line is glued to it, and read_ledger skips what the two make.
Glued ==
    IF tail = {} \/ Undrained = {} THEN {{}}
    ELSE {{l} : l \in IF Undrained \cap events # {} THEN Undrained \cap events
                      ELSE Undrained}

\* A write cut short leaves some of the lines, and of the next one nothing, a
\* part, or all but its newline.  (Which lines come first among the grants' or
\* the jobs' is left open.)
CutShort ==
    \E part \in SUBSET Undrained, glued \in Glued :
        LET next == Undrained \ part
        IN  \E end \in {{}} \cup {{l} : l \in next} \cup {{None} : l \in next} :
                \/ part = {} /\ end = {} /\ UNCHANGED <<ledger, tail>>
                \/ /\ part = {} /\ end # {} /\ UNCHANGED ledger
                   /\ tail' = IF tail = {} THEN end ELSE {None}
                \/ /\ part # {} /\ glued \subseteq part
                   /\ ledger' = ledger \cup (part \ glued)
                   /\ tail' = end

\* append_ledger: all lines and an fsync, or an error, which may come after
\* some of it is in the file.
AppendLedger ==
    /\ phase = "append"
    /\ phase' = "save"
    /\ drained' = drained \cup Takes
    /\ \/ \E glued \in Glued :
             /\ ledger' = ledger \cup (Takes \ (drained \cup glued))
             /\ lost' = lost \cup glued
             /\ tail' = IF Undrained = {} THEN tail ELSE {}
             /\ UNCHANGED <<ledgerFailed, failures>>
       \/ /\ Undrained # {} /\ <<crashes, failures + 1, others>> \in Faults
          /\ CutShort /\ UNCHANGED lost
          /\ ledgerFailed' = TRUE
          /\ failures' = failures + 1
    /\ UNCHANGED <<gate, nextId, sshVars, jobVars, call, persisted, nextIdFile,
                   ceremony, told, crashes, others>>

\* `untrust` appends a line of its own to the same file, without the daemon's
\* lock: all of it, after a torn tail for nothing, or part of it.
ConsoleAppends ==
    /\ \/ tail # {} /\ tail' = {} /\ UNCHANGED others
       \/ /\ <<crashes, failures, others + 1>> \in Faults
          /\ tail' = {None} /\ others' = others + 1
    /\ UNCHANGED <<gate, nextId, sshVars, jobVars, lockVars, ledger, nextIdFile,
                   ceremony, told, lost, crashes, failures>>

\* Whether an audited caller gets its answer; any caller of `with` does.
AnswersAnyway == call.audited   \* wrong: the failed write is not looked at
Answered == call.audited /\ ~ledgerFailed'

\* save_next_id, if the counter moved; then the badge, which ticks the grants
\* and clamps the jobs, and the answer: an audited caller is told no more than
\* ledger_unavailable once a write has failed.
SaveNextId(t) ==
    LET moved == nextId # persisted
    IN  /\ phase = "save"
        /\ phase' = "idle"
        /\ \/ /\ nextIdFile' = IF moved THEN nextId ELSE nextIdFile
              /\ persisted' = nextId
              /\ UNCHANGED <<ledgerFailed, failures>>
           \/ /\ moved /\ <<crashes, failures + 1, others>> \in Faults
              /\ ledgerFailed' = TRUE
              /\ failures' = failures + 1
              /\ UNCHANGED <<nextIdFile, persisted>>
        /\ told' = IF Answered THEN told \cup call.grants ELSE told
        /\ call' = NoCall
        /\ SshTick(Ticked(gate, t))
        /\ jobsHighWater' = Later(t, jobsHighWater)
        /\ UNCHANGED <<entries, trusted, jobEvents, claims, drained, ledger, tail,
                       ceremony, lost, crashes, others>>

----------------------------------------------------------------------------
(* Crash and restart.  Nothing mends a torn tail at the start.               *)

Crash ==
    /\ phase # "down" /\ <<crashes + 1, failures, others>> \in Faults
    /\ crashes' = crashes + 1
    /\ phase' = "down"
    /\ IF phase = "append" THEN CutShort ELSE UNCHANGED <<ledger, tail>>
    /\ gate' = EmptyGate
    /\ highWater' = 0 /\ pending' = None /\ windows' = {} /\ events' = {}
    /\ signed' = {} /\ certs' = {}
    /\ jobsHighWater' = 0 /\ entries' = {} /\ jobEvents' = {} /\ claims' = {}
    /\ ceremony' = None /\ call' = NoCall /\ drained' = {} /\ ledgerFailed' = FALSE
    /\ UNCHANGED <<nextId, persisted, trusted, nextIdFile, told, lost, failures,
                   others>>

\* load_next_id: the file, or one past the highest id of a ledger line.
HighestId(lines) ==
    IF lines = {} THEN 0
    ELSE CHOOSE n \in {l.id : l \in lines} : \A l \in lines : l.id <= n
LoadNextId == IF nextIdFile = None THEN HighestId(Readable) + 1 ELSE nextIdFile

\* Daemon::new.
Boot ==
    /\ phase = "down"
    /\ phase' = "idle"
    /\ nextId' = LoadNextId
    /\ persisted' = LoadNextId
    /\ UNCHANGED <<gate, sshVars, jobVars, call, ledgerFailed, drained, diskVars,
                   ceremony, told, boundVars>>

----------------------------------------------------------------------------
DaemonInit ==
    /\ GrantsInit
    /\ jobsHighWater = 0 /\ entries = {} /\ jobEvents = {} /\ claims = {}
    /\ trusted \in [Projects -> Revisions]
    /\ phase = "down" /\ call = NoCall /\ ledgerFailed = FALSE
    /\ drained = {} /\ persisted = 1
    /\ ledger \in Inherited /\ tail = {} /\ nextIdFile = None
    /\ ceremony = None /\ told = {} /\ lost = {}
    /\ crashes = 0 /\ failures = 0 /\ others = 0

\* What the wall clock may read.  A call reads it before it has the lock, but
\* a reading that others have overtaken is clamped to theirs: the badge at the
\* end of every call brings both high-water marks up to a fresh reading.
ClockReadings == {t \in Time : t + MaxStepBack >= Later(highWater, jobsHighWater)}

Handler(t) ==
    \/ Status(t) \/ PollRequest(t) \/ ShowJob(t) \/ PrecheckJob(t)
    \/ \E h \in Hosts, k \in Keys, d \in Wanted : Request(t, h, k, d)
    \/ \E h \in Hosts, k \in Keys, f \in BOOLEAN : Issue(t, h, k, f)
    \/ \E h \in Hosts : KillHost(t, h)
    \/ \E p \in Projects : KillProject(t, p) \/ FileJob(t, p)
    \/ \E id \in Known :
          \/ ApproveStart(t, id) \/ Decline(t, id)
          \/ \E good \in BOOLEAN : ApproveFinish(t, id, good)
    \/ \E r \in Runners : Runner(t, r)

\* A handler waits for the lock before it does anything.
DaemonNext ==
    \/ \E t \in ClockReadings :
          (phase = "idle" /\ Handler(t)) \/ Reap(t) \/ SaveNextId(t)
    \/ AppendLedger \/ ConsoleAppends \/ Crash \/ Boot

DaemonSpec == DaemonInit /\ [][DaemonNext]_daemonVars

\* A poll at a time when everything outstanding is overdue.
LateStatus(t) ==
    /\ pending # None => pending.created + PendingTTL <= t
    /\ \A e \in entries : e.state # "done" => Deadline(e) <= t
    /\ Status(t)

\* A call that has the lock finishes, a daemon that is down is started again,
\* and the phone and the agents poll for as long as they wait: however many
\* other calls take the lock first, one such poll gets it after the deadline.
DaemonFairSpec ==
    /\ DaemonSpec
    /\ SF_daemonVars(\E t \in ClockReadings : LateStatus(t))
    /\ WF_daemonVars(AppendLedger)
    /\ WF_daemonVars(\E t \in ClockReadings : SaveNextId(t))
    /\ WF_daemonVars(Boot)

----------------------------------------------------------------------------
(* Properties *)

\* Type invariant of what the daemon adds to Grants and Jobs.
DaemonTypeOK ==
    /\ phase \in {"idle", "append", "save", "down"}
    /\ call.audited \in BOOLEAN
    /\ ledgerFailed \in BOOLEAN
    /\ drained \subseteq Lines \cup JobLines
    /\ ledger \cup lost \subseteq Lines \cup JobLines
    /\ tail = {} \/ \E x \in Lines \cup JobLines \cup {None} : tail = {x}
    /\ persisted \in Nat \ {0} /\ nextIdFile \in Nat \cup {None}
    /\ ceremony = None \/ ceremony.kind \in {"ssh", "job"}
    /\ <<crashes, failures, others>> \in Faults

\* One slot for two state machines: it is held by the pending SSH request or
\* by the job being planned or waiting, never by both and by nobody else, so
\* the person is asked one question at a time ("at most one pending request
\* or waiting job", server.rs on badge_count).
OneQuestionAtATime ==
    /\ gate.occupant = HoldingJobs \cup
           (IF pending = None THEN {} ELSE {<<"ssh", pending.id>>})
    /\ Cardinality(gate.occupant) <= 1

\* When no call runs and no write has failed, every line recorded is in the
\* ledger, except a timeout that the badge or the reaper was the first to see,
\* and a line that was glued to a torn tail.
LedgerIsComplete ==
    phase = "idle" /\ ~ledgerFailed =>
        \A l \in Recorded : l \in ledger \cup lost \/ l.kind = "timed_out"

\* Each write cut short, by a crash or an error, costs at most one line that a
\* later append reported as written: "losing at most one line" (append_ledger),
\* only of the next batch, and besides what the write itself did not get to.
TearsCostOneLine ==
    Cardinality(lost) + Cardinality(tail) <= crashes + failures + others

\* What a caller was told is granted - an approval, a certificate, an approval
\* to carry out - can be shown in the ledger to have been approved, whatever
\* failed or crashed since.  A daemon that starts on a torn tail loses the line
\* of a request to it and not the approval; only what another program leaves
\* torn while the daemon runs can take that.
GrantsAreOnRecord ==
    \A g \in told : \E l \in ledger \cup (IF others = 0 THEN {} ELSE lost) :
        l.kind = "approved" /\ l.id = g[2]

\* The ledger has what was recorded but for what tears cost it, and shows what
\* was told.
LedgerIsTrue == LedgerIsComplete /\ TearsCostOneLine /\ GrantsAreOnRecord

\* Once a write has failed nothing is granted until the daemon restarts: no
\* approval, no certificate, no claim.
NothingGrantedUnrecorded ==
    [][ledgerFailed =>
          /\ \A l \in Recorded' \ Recorded :
                l.kind \notin {"approved", "issued", "requested"}
          /\ claims' \subseteq claims]_daemonVars

\* The lines that cost a strike: a request or a waiting job that ended without
\* an approval.
ApprovedJob(id) == \E l \in jobEvents : l.kind = "approved" /\ l.id = id
AskedJob(id) == \E l \in jobEvents : l.kind = "waiting" /\ l.id = id
StrikeLines ==
    Unapproved \cup
    {l \in jobEvents : /\ l.kind \in {"declined", "timed_out", "killed"}
                       /\ AskedJob(l.id) /\ ~ApprovedJob(l.id)}
Accepted == {l \in Recorded : l.kind = "requested"}
Approving == {l \in Recorded : l.kind = "approved"}

\* How many requests and jobs in a row, ending with the one `e` ended, went
\* unapproved.
StrikesInARow(e) ==
    Cardinality({f \in StrikeLines :
        /\ f.id <= e.id
        /\ \A a \in Approving : ~(f.id < a.id /\ a.id < e.id)})

\* A strike on one kind of request holds back the other: after the n-th SSH
\* request or job in a row that went unapproved, neither kind is accepted until
\* the n-th cooldown is over, or one was approved since.  The two clamp the
\* clock apart, so that one of them may date its line, and its cooldown, later
\* than what the other then accepts after an approval.
CooldownIsShared ==
    \A e \in StrikeLines, r \in Accepted :
        r.id > e.id =>
            \/ \E a \in Approving : e.id < a.id /\ a.id < r.id
            \/ r.at >= e.at + Cooldown(StrikesInARow(e))

\* SSH requests and jobs together stay within the cap in any hour, less what
\* the clock may step back: a request that one clock has dropped as an hour old
\* may be younger on the other.
CapIsShared ==
    \A r \in Accepted :
        Cardinality({q \in Accepted :
                        q.at <= r.at /\ q.at + Hour > r.at + MaxStepBack})
            <= MaxRequestsPerHour

\* The limits on how often a person is asked are on both kinds together.
LimitsAreShared == CooldownIsShared /\ CapIsShared

\* An SSH request and a job never answer to one id, and neither does a
\* certificate, within one life of the daemon.
IdsAreShared ==
    /\ \A k, l \in Accepted : k.id = l.id => k = l
    /\ \A e \in entries : pending # None => pending.id # e.id

\* Grants and Jobs, which know nothing of each other, share the slot and the ids.
SharedSoundly == DaemonTypeOK /\ OneQuestionAtATime /\ IdsAreShared

\* Whatever the ledger is told late, it is told: a line recorded is appended,
\* or the daemon goes down first.
LedgerCatchesUp == []<>(Undrained = {})

\* A request is answered or times out, and a job ends, as long as anyone asks.
SlotComesFree == []<>(gate.occupant = {})

\* Nothing that waits for a person or a runner blocks the next one for ever.
NothingWaitsForever == SlotComesFree /\ EveryJobEnds

\* "The daemon persists this after it changes, so a restart does not reuse an
\* id or serial already written to the ledger" (grant.rs on next_id).
NeverReused ==
    [][\A l \in Recorded' \ Recorded :
          CASE l.kind = "requested" -> l.id \notin Named(Readable)
            [] l.kind = "issued"    -> l.serial \notin Named(Readable)
            [] OTHER                -> TRUE]_daemonVars

\* What waits, is granted and was used, of both kinds.
DaemonCovers(scope, act) ==
    IF scope \in Scopes THEN SshCovers(scope, act) ELSE JobCovers(scope, act)
DaemonOnce(scope) == scope \notin Scopes

DaemonApprovals == INSTANCE Approvals WITH
    Covers <- DaemonCovers, Once <- DaemonOnce,
    past <- SshPast \cup JobPast,
    open <- SshOpen \cup JobQuestions("waiting"),
    granted <- SshGranted \cup JobQuestions("approved"),
    uses <- SshUses \cup JobUses

\* Two state machines that know nothing of each other are one approver's
\* questions, in each life of the daemon: no request and job wait together, no id
\* is asked of twice, and an approval is only ever of what waits and used for
\* that, whichever handler, tick or kill comes in between.  A crash forgets what
\* waits and was granted, and the next process starts anew.
Forgotten == phase' = "down" /\ DaemonApprovals!Init'
DaemonIsAnApproval ==
    /\ DaemonApprovals!Init
    /\ [][DaemonApprovals!Next \/ Forgotten]_(DaemonApprovals!vars)
============================================================================
