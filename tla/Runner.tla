------------------------------ MODULE Runner ------------------------------
(***************************************************************************)
(* The runner of one project (src/runner/run.rs, `Runner`): it polls the   *)
(* daemon of Trust, plans a job, submits what it planned, claims the       *)
(* approval, installs the trusted tree or lets Terraform apply the plan,   *)
(* and reports how it went.  Requests and replies are lost, and runner and *)
(* daemon crash, at any point.                                             *)
(*                                                                         *)
(* On the runner's disk (`disk`):                                          *)
(*   journal           the open entry of journal.json, or None             *)
(*   tree, json        trusted/ and trusted.json; a tree is the digest of  *)
(*                     what it holds, Broken when partly removed           *)
(*   prev, prevJson    trusted.prev/ and trusted.prev.json                 *)
(*   marker            install.json's had_old, or None                     *)
(*   applied           the status in applied.json, or None                 *)
(*                                                                         *)
(* What a handler writes between two messages is one action, and a crash   *)
(* leaves any prefix of its writes: nobody else looks at this disk.        *)
(***************************************************************************)
EXTENDS Trust, SequencesExt

CONSTANTS
    Me, Project,   \* the runner, and the one project it serves
    Broken,        \* a tree partly removed
    SchemaOf,      \* digest -> that of the schema file such a tree holds
    UndoMayFail    \* bound: whether putting the old trust back may fail

VARIABLES
    disk,
    pc,          \* where the loop is
    task,        \* the job the last poll returned
    pending,     \* Runner::pending
    unreported,  \* Runner::unreported: at most one, with one project
    terraform    \* history: the Terraform applies, in the order they began

runnerMemory == <<pc, task, pending, unreported>>
runnerVars == <<disk, runnerMemory, terraform>>
vars == <<trustVars, runnerVars>>

Trees == Digests \cup {Broken, None}
Records == Revisions \cup {None}
JournalEntries == [job: Nat, phase: {"claimed", "applying", "reporting"},
                   what: {"trust", "apply", "trusted", "applied", "apply_failed",
                          "outcome_unknown"}]
Disks == [journal: JournalEntries \cup {None}, tree: Trees, json: Records,
          prev: Trees, prevJson: Records, marker: BOOLEAN \cup {None},
          applied: {"applied", "uncertain", None}]
Said == {"trusted", "applied", "apply_failed", "outcome_unknown"}
Reports == [id: Nat, result: Said, install: BOOLEAN, journaled: BOOLEAN,
            stage: {"finish", "status", "unknown", "delivered", "refused"}]

ASSUME RunnerAssumption ==
    /\ Project \in Projects /\ Me \in Runners
    /\ \A p \in Projects : RunnerOf[p] = Me <=> p = Project
    /\ Broken \notin Digests \cup {None}
    /\ None \notin BOOLEAN \cup Revisions /\ None \notin {"applied", "uncertain"}
    /\ None \notin JournalEntries \cup Reports
    /\ UndoMayFail \in BOOLEAN
    /\ SchemaOf \in [Digests -> Schemas]

Entry(job, phase, what) == [job |-> job, phase |-> phase, what |-> what]

\* Journal::only: no other job's entry is open.
Only(d, job) == d.journal # None => d.journal.job = job
\* Journal::close.
Closed(d, job) ==
    IF d.journal # None /\ d.journal.job = job THEN [d EXCEPT !.journal = None] ELSE d

\* local_trust: the tree still hashes to what trusted.json says.
LocalTrust(d) == IF d.json # None /\ d.tree = d.json.digest THEN d.json ELSE None

----------------------------------------------------------------------------
(* The trust install.  Each operator is the sequence of states its writes  *)
(* take the disk through, from the one it finds.                           *)

\* remove_dir_all: not atomic.
TreeGone(d) ==
    IF d.tree = None THEN <<d>>
    ELSE <<d, [d EXCEPT !.tree = Broken], [d EXCEPT !.tree = None]>>
PrevGone(d) ==
    IF d.prev = None THEN <<d>>
    ELSE <<d, [d EXCEPT !.prev = Broken], [d EXCEPT !.prev = None]>>

\* install_undo.
TreeBack(d) ==
    IF d.marker
    THEN IF d.prev = None THEN <<d>>
         ELSE TreeGone(d) \o <<[d EXCEPT !.tree = d.prev, !.prev = None]>>
    ELSE TreeGone(d)
JsonBack(d) ==
    IF d.marker
    THEN IF d.prevJson = None THEN <<d>>
         ELSE <<[d EXCEPT !.json = None], [d EXCEPT !.json = d.prevJson, !.prevJson = None]>>
    ELSE <<[d EXCEPT !.json = None]>>
UndoUnmarked(d) == <<[d EXCEPT !.marker = None]>>   \* wrong: only the marker goes
Undo(d) ==
    IF d.marker = None THEN <<d>>
    ELSE LET t == TreeBack(d)
             j == t \o JsonBack(Last(t))
         IN  j \o <<[Last(j) EXCEPT !.marker = None]>>

\* install_commit, and the close that follows it.
Commit(d) ==
    LET p == PrevGone(d)
        j == [Last(p) EXCEPT !.prevJson = None]
    IN  p \o <<j, [j EXCEPT !.marker = None]>>

\* install_trust, from the marker on: the old trust moves aside, the new one
\* in.  Leftovers are removed first.
Cleared(d) == PrevGone(d) \o <<[Last(PrevGone(d)) EXCEPT !.prevJson = None]>>
Swap(d, record) ==
    LET m == [d EXCEPT !.marker = d.tree # None]
        aside == [m EXCEPT !.prev = m.tree, !.tree = None]
        asideJson == [aside EXCEPT !.prevJson = m.json, !.json = None]
        moved == IF m.marker THEN <<m, aside>> \o IF m.json = None THEN <<>> ELSE <<asideJson>>
                 ELSE <<m>>
        in == [Last(moved) EXCEPT !.tree = record.digest]
    IN  moved \o <<in, [in EXCEPT !.json = record]>>
Install(d, record) == Cleared(d) \o Swap(Last(Cleared(d)), record)

\* recover_unmarked: what an earlier version left in trusted.prev is put back
\* if it is missing, else dropped.
Unmarked(d) ==
    LET t == IF d.tree = None /\ d.prev # None
             THEN [d EXCEPT !.tree = d.prev, !.prev = None] ELSE d
        j == IF t.json = None /\ t.prevJson # None
             THEN [t EXCEPT !.json = t.prevJson, !.prevJson = None] ELSE t
    IN  [j EXCEPT !.prev = IF j.tree # None THEN None ELSE @,
                  !.prevJson = IF j.json # None THEN None ELSE @]

----------------------------------------------------------------------------
(* Steps.  Written(s) is the disk after all of the writes of s, or, when   *)
(* the runner dies, after some of them.                                    *)

Down == /\ pc' = "down" /\ task' = None /\ pending' = None /\ unreported' = None

Goes(where) == pc' = where
Forgets == task' = None
Report(id, result, install, journaled) ==
    unreported' = [id |-> id, result |-> result, install |-> install,
                   journaled |-> journaled, stage |-> "finish"]

Crash == pc # "down" /\ Fault /\ Down
         /\ UNCHANGED <<jobsPart, registryPart, ledgerFailed, disk, terraform>>

\* step, once nothing is unreported: poll.  A new job, or an approval of
\* another, means the one waited for is over; its journal entry, if its claim
\* was sent, stays open.
StartedNow == {e \in entries' : e.state = "working"
                                /\ \E q \in entries : q.id = e.id /\ q.state = "queued"}
ApprovedNow == {e \in entries' : e.state = "approved" /\ e.project = Project}
Polled(e) == [id |-> e.id, kind |-> e.kind, trusted |-> TrustedNow[Project]]

Poll(t) ==
    /\ pc = "step" /\ unreported = None
    /\ Call(TRUE, JobPoll(JobsTicked(JobsAt(gate, t)), Me),
        /\ UNCHANGED <<disk, unreported, terraform>>
        /\ \/ \E e \in StartedNow : Goes("work") /\ task' = Polled(e) /\ pending' = None
           \/ \E e \in ApprovedNow :
                 /\ Goes(IF pending # None /\ pending.id = e.id THEN "approved" ELSE "orphan")
                 /\ task' = Polled(e)
                 /\ pending' = IF pending # None /\ pending.id = e.id THEN pending ELSE None
           \/ /\ StartedNow \cup ApprovedNow = {}
              /\ Goes(IF pending = None THEN "step" ELSE "check")
              /\ UNCHANGED <<task, pending>>,
        UNCHANGED runnerVars)

\* check_pending: the job submitted may have ended, or its claim may have
\* arrived although its reply did not.
ClaimUnneeded(st) ==   \* wrong: an approval is acted on without a claim
    st # {} /\ st \subseteq {"approved", "claimed"}
ClaimArrived(st) == st = {"claimed"}
StateOf(id) == {e.state : e \in {x \in entries' : x.id = id}}
CheckPending(t) ==
    /\ pc = "check"
    /\ Call(FALSE, JobTick(JobsAt(gate, t)),
        /\ UNCHANGED <<task, unreported, terraform>>
        /\ \/ ClaimArrived(StateOf(pending.id)) /\ Goes("execute") /\ UNCHANGED <<disk, pending>>
           \/ /\ StateOf(pending.id) \subseteq Active \ {"claimed"} /\ StateOf(pending.id) # {}
              /\ Goes("step") /\ UNCHANGED <<disk, pending>>
           \/ /\ StateOf(pending.id) \subseteq {"done"}
              /\ Goes("step") /\ pending' = None /\ disk' = Closed(disk, pending.id),
        Goes("step") /\ UNCHANGED <<disk, task, pending, unreported, terraform>>)

\* plan_trust and plan_apply: the scopes they can come up with.  What the poll
\* said is trusted is what the local tree must still be; it is the baseline of
\* a trust, and the revision of an apply.
PlannedTrust ==
    {sc \in TrustScopes :
        /\ sc.project = Project /\ sc.schema = SchemaOf[sc.candidate]
        /\ sc.baseline = DigestOf(task.trusted) /\ sc.candidate # sc.baseline
        /\ sc.baseline # None => DigestOf(LocalTrust(disk)) = sc.baseline}
PlannedApply ==
    {sc \in ApplyScopes :
        /\ sc.project = Project
        /\ task.trusted # None /\ LocalTrust(disk) = task.trusted
        /\ sc.revision = task.trusted.digest /\ sc.schema = task.trusted.schema}
Planned == IF task.kind = "trust" THEN PlannedTrust ELSE PlannedApply

\* on_work.  The submit may have arrived though its reply did not; refused for
\* good, the job is refused.  Planning may also fail, or be cancelled.
Submit(t, sc) ==
    /\ pc = "work"
    /\ LET waits == /\ pending' = [id |-> task.id, scope |-> sc]
                    /\ Goes("step") /\ Forgets
                    /\ UNCHANGED <<disk, unreported, terraform>>
       IN Call(TRUE, JobSubmit(JobsAt(gate, t), Me, task.id, sc),
            \/ StateOf(task.id) = {"waiting"} /\ waits
            \/ StateOf(task.id) # {"waiting"} /\ Goes("refuse")
               /\ UNCHANGED <<disk, task, pending, unreported, terraform>>,
            waits)
PlanFails ==
    /\ pc = "work" /\ Goes("refuse")
    /\ UNCHANGED <<trustVars, disk, task, pending, unreported, terraform>>
\* Between Terraform's steps the status is read: the job may be over.
PlanCancelled(t) ==
    /\ pc = "work" /\ task.kind = "apply"
    /\ Call(FALSE, JobTick(JobsAt(gate, t)),
        \/ StateOf(task.id) = {"working"} /\ UNCHANGED runnerVars
        \/ StateOf(task.id) # {"working"} /\ Goes("step") /\ Forgets
           /\ UNCHANGED <<disk, pending, unreported, terraform>>,
        UNCHANGED runnerVars)
Refuse(t, result) ==
    /\ pc = "refuse"
    /\ LET over == Goes("step") /\ Forgets
                   /\ UNCHANGED <<disk, pending, unreported, terraform>>
       IN Call(FALSE, JobRefuse(JobsAt(gate, t), Me, task.id, result), over, over)

\* on_approved: journal the claim, then send it.
Handed(id) == \E c \in claims' : c.id = id /\ c \notin claims
Claim(t) ==
    /\ pc = "approved" /\ Only(disk, task.id)
    /\ LET noted == [disk EXCEPT !.journal = Entry(task.id, "claimed", task.kind)]
       IN Call(TRUE, JobClaim(JobsAt(gate, t), Me, task.id),
            /\ Forgets /\ UNCHANGED <<unreported, terraform>>
            /\ \/ Handed(task.id) /\ Goes("execute") /\ disk' = noted /\ UNCHANGED pending
               \/ ~Handed(task.id) /\ Goes("step") /\ pending' = None
                  /\ disk' = Closed(noted, task.id),
            /\ Goes("step") /\ Forgets /\ disk' = noted
            /\ UNCHANGED <<pending, unreported, terraform>>)
\* orphan: an approval this process has no plan for is claimed and failed.
Orphan(t) ==
    /\ pc = "orphan" /\ Only(disk, task.id)
    /\ LET noted == [disk EXCEPT !.journal = Entry(task.id, "claimed", task.kind)]
       IN Call(TRUE, JobClaim(JobsAt(gate, t), Me, task.id),
            /\ Goes("step") /\ Forgets /\ UNCHANGED <<pending, terraform>>
            /\ \/ /\ Handed(task.id) /\ disk' = noted
                  /\ Report(task.id, "apply_failed", FALSE, FALSE)
               \/ ~Handed(task.id) /\ disk' = Closed(noted, task.id) /\ UNCHANGED unreported,
            /\ Goes("step") /\ Forgets /\ disk' = noted
            /\ UNCHANGED <<pending, unreported, terraform>>)
\* Without the record a crash could not be reported: the approval is left.
ClaimUnjournaled ==
    /\ pc \in {"approved", "orphan"}
    /\ \/ ~Only(disk, task.id) /\ UNCHANGED faults
       \/ Only(disk, task.id) /\ Fault
    /\ Goes("step") /\ Forgets /\ pending' = None
    /\ UNCHANGED <<jobsPart, registryPart, ledgerFailed, disk, unreported, terraform>>

----------------------------------------------------------------------------
(* execute.                                                                *)

Executes(kind) == pc = "execute" /\ pending.scope.kind = kind
\* How executing ends: the disk d, Terraform's history h, and the result.
Ends(d, h, result, install, journaled) ==
    /\ disk' = d /\ terraform' = h
    /\ Goes("step") /\ Forgets /\ pending' = None
    /\ Report(pending.id, result, install, journaled)
    /\ UNCHANGED <<jobsPart, registryPart, ledgerFailed>>
\* The runner dies having made some of the writes of s.
Dies(s) ==
    /\ Fault /\ Down
    /\ \E k \in DOMAIN s : disk' = s[k]
    /\ UNCHANGED <<jobsPart, registryPart, ledgerFailed>>

\* install_trust.  Before the swap root reviews the candidate again and may
\* refuse it.  A write that fails takes the swap back, which may fail too and
\* is then left for the next start.
InstallRecord == [digest |-> pending.scope.candidate, schema |-> pending.scope.schema]
InstallBaseline ==
    DigestOf(LocalTrust(disk)) = pending.scope.baseline \/ pending.scope.baseline = None
InstallTrust ==
    /\ Executes("trust")
    /\ LET s == Install(disk, InstallRecord)
           n == Len(Cleared(disk))
       IN  \/ InstallBaseline /\ UNCHANGED faults
              /\ Ends(Last(s), terraform, "trusted", TRUE, FALSE)
           \/ UNCHANGED faults
              /\ Ends(disk, terraform, "apply_failed", FALSE, FALSE)
           \/ InstallBaseline /\ Fault
              /\ \E k \in n..(Len(s) - 1) :
                    Ends(Last(Undo(s[k])), terraform, "apply_failed", FALSE, FALSE)
           \/ UndoMayFail /\ InstallBaseline
              /\ faults + 1 < MaxFaults /\ faults' = faults + 2
              /\ \E k \in n..(Len(s) - 1) : s[k].marker # None /\
                    \E i \in DOMAIN Undo(s[k]) :
                        Ends(Undo(s[k])[i], terraform, "apply_failed", FALSE, FALSE)
InstallDies ==
    /\ Executes("trust") /\ InstallBaseline
    /\ Dies(Install(disk, InstallRecord)) /\ UNCHANGED terraform

\* apply_claimed and exec::apply.  The tree must still be the revision signed;
\* the baseline is uncertain before Terraform starts.
Revision == [digest |-> pending.scope.revision, schema |-> pending.scope.schema]
SameTree == LocalTrust(disk) = Revision
Doubted(d) == [d EXCEPT !.applied = "uncertain"]
Applying(d) == [Doubted(d) EXCEPT !.journal = Entry(pending.id, "applying", "apply")]
Reporting(d, job, result) == [d EXCEPT !.journal = Entry(job, "reporting", result)]
Begun(outcome) == Append(terraform, [id |-> pending.id, tree |-> disk.tree, outcome |-> outcome])
ResultOf(outcome) ==
    CASE outcome = "ok" -> "applied"
      [] outcome = "failed" -> "apply_failed"
      [] outcome = "cut" -> "outcome_unknown"

ApplyPlan(outcome) ==
    /\ Executes("apply") /\ SameTree
    /\ LET done == Reporting(Applying(disk), pending.id, ResultOf(outcome))
           last == IF outcome = "ok" THEN [done EXCEPT !.applied = "applied"] ELSE done
           unsaid == [last EXCEPT !.journal = Applying(disk).journal]
       IN  \/ UNCHANGED faults /\ Ends(last, Begun(outcome), ResultOf(outcome), FALSE, TRUE)
           \/ Fault /\ Ends(done, Begun(outcome), ResultOf(outcome), FALSE, TRUE)
           \/ Fault /\ Ends(unsaid, Begun(outcome), ResultOf(outcome), FALSE, FALSE)
\* Nothing runs: the tree or the context changed, or a write failed first.
ApplyRefused ==
    /\ Executes("apply")
    /\ \/ UNCHANGED faults /\ Ends(disk, terraform, "apply_failed", FALSE, FALSE)
       \/ SameTree /\ Fault /\ Ends(Doubted(disk), terraform, "apply_failed", FALSE, FALSE)
ApplyDies(outcome) ==
    /\ Executes("apply") /\ SameTree /\ Fault /\ Down
    /\ LET done == Reporting(Applying(disk), pending.id, ResultOf(outcome))
       IN  \/ disk' \in {Doubted(disk), Applying(disk)} /\ UNCHANGED terraform
           \/ disk' = Applying(disk) /\ terraform' = Begun(outcome)
           \/ disk' \in {done, [done EXCEPT !.applied = IF outcome = "ok" THEN "applied" ELSE @]}
              /\ terraform' = Begun(outcome)
    /\ UNCHANGED <<jobsPart, registryPart, ledgerFailed>>

----------------------------------------------------------------------------
(* deliver and send_finish, before anything new is polled.                 *)

Delivers(stage) ==
    pc = "step" /\ unreported # None /\ unreported.journaled /\ unreported.stage = stage
Stage(s) == unreported' = [unreported EXCEPT !.stage = s]
DeliverKeeps == UNCHANGED <<disk, pc, task, pending, terraform>>

\* The result is journaled first; until that works nothing is sent.
JournalReport ==
    /\ pc = "step" /\ unreported # None /\ ~unreported.journaled
    /\ unreported' = [unreported EXCEPT !.journaled = TRUE]
    /\ disk' = Reporting(disk, unreported.id, unreported.result)
    /\ UNCHANGED <<trustVars, pc, task, pending, terraform>>

\* finish_other, for every result but `trusted`.
FinishOther(t, id, result) == JobFinish(JobsAt(gate, t), Me, Project, id, result)

\* A finish, accepted, refused for good, or to be sent again.
EndsJob(id) ==
    \/ \E e \in entries, f \in entries' :
          e.id = id /\ f.id = id /\ e.state = "claimed" /\ f.state = "done"
    \/ jobEvents' # jobEvents /\ StateOf(id) = {}
SendFinish(t) ==
    /\ Delivers("finish") /\ DeliverKeeps
    /\ IF unreported.result = "trusted"
       THEN FinishTrusted(t, Project, unreported.id,
                Stage("delivered"), Stage("status"), UNCHANGED unreported)
       ELSE Call(FALSE, FinishOther(t, unreported.id, unreported.result),
                IF EndsJob(unreported.id) THEN Stage("delivered") ELSE Stage("status"),
                UNCHANGED unreported)

\* The status of a job whose finish was refused: the daemon may have this very
\* result, or have forgotten the job.
RetriesForGood(st) ==   \* wrong: what was refused for good is sent again
    IF \E e \in st : e.result = unreported.result THEN "delivered" ELSE "finish"
StatusSays(st) ==
    IF \E e \in st : e.result = unreported.result THEN "delivered"
    ELSE IF st = {} /\ unreported.result \in {"applied", "apply_failed"} THEN "unknown"
    ELSE "refused"
AskStatus(t) ==
    /\ Delivers("status") /\ DeliverKeeps
    /\ Call(FALSE, JobTick(JobsAt(gate, t)),
            Stage(StatusSays({e \in entries' : e.id = unreported.id})),
            Stage("finish"))
SendUnknown(t) ==
    /\ Delivers("unknown") /\ DeliverKeeps
    /\ Call(FALSE, FinishOther(t, unreported.id, "outcome_unknown"),
            Stage("delivered"), Stage("finish"))

\* The trust stands or falls with the answer, then the journal is closed.
AfterAnswer ==
    CASE ~unreported.install -> <<disk>>
      [] unreported.install /\ unreported.stage = "delivered" -> Commit(disk)
      [] unreported.install /\ unreported.stage = "refused" -> Undo(disk)
Answered == Delivers("delivered") \/ Delivers("refused")
Settle ==
    /\ Answered /\ unreported' = None
    /\ LET s == AfterAnswer
       IN  \/ disk' = Closed(Last(s), unreported.id) /\ UNCHANGED faults
           \/ disk' = Last(s) /\ Fault
           \/ UndoMayFail /\ unreported.stage = "refused" /\ Fault
              /\ \E k \in DOMAIN s : disk' = Closed(s[k], unreported.id)
    /\ UNCHANGED <<jobsPart, registryPart, ledgerFailed, pc, task, pending, terraform>>
SettleDies == Answered /\ Dies(AfterAnswer) /\ UNCHANGED terraform

----------------------------------------------------------------------------
(* startup and recover.                                                    *)

KeepsInstall(d) ==
    d.marker # None /\ d.journal # None
    /\ d.journal.phase = "reporting" /\ d.journal.what = "trusted"
\* The trust, put back; unless its result is still to be delivered.
Restored(d) ==
    IF d.marker = None THEN <<d, Unmarked(d)>>
    ELSE IF KeepsInstall(d) THEN <<d>> ELSE Undo(d)
\* What is reported for an entry left open.
RecoveredCertain(d) ==   \* wrong: an apply cut short is reported as failed
    IF d.journal.phase = "reporting" THEN d.journal.what ELSE "apply_failed"
Recovered(d) ==
    IF d.journal.phase = "reporting" THEN d.journal.what
    ELSE IF d.journal.what = "trust" THEN "apply_failed" ELSE "outcome_unknown"
\* The writes that follow: the baseline is uncertain, the result journaled.
Noted(d) ==
    LET doubted == IF Recovered(d) = "outcome_unknown" /\ d.applied # None
                   THEN Doubted(d) ELSE d
    IN  IF d.journal = None \/ d.journal.phase = "reporting" THEN <<d>>
        ELSE <<doubted, Reporting(doubted, d.journal.job, Recovered(d))>>

Startup ==
    /\ pc = "down" /\ Goes("step")
    /\ \/ disk' = Last(Noted(Last(Restored(disk)))) /\ UNCHANGED faults
       \/ UndoMayFail /\ Fault
          /\ \E k \in DOMAIN Restored(disk) : disk' = Last(Noted(Restored(disk)[k]))
    /\ IF disk.journal = None THEN UNCHANGED unreported
       ELSE Report(disk.journal.job, Recovered(disk), KeepsInstall(disk), TRUE)
    /\ UNCHANGED <<jobsPart, registryPart, ledgerFailed, task, pending, terraform>>
StartupDies ==
    /\ pc = "down"
    /\ Dies(Restored(disk) \o Noted(Last(Restored(disk)))) /\ UNCHANGED terraform

----------------------------------------------------------------------------
RunnerInit ==
    /\ TrustInit
    /\ registry[Project] # None => registry[Project].schema = SchemaOf[registry[Project].digest]
    /\ disk = [journal |-> None, tree |-> DigestOf(registry[Project]),
               json |-> TrustedNow[Project], prev |-> None, prevJson |-> None,
               marker |-> None, applied |-> None]
    /\ pc = "down" /\ task = None /\ pending = None /\ unreported = None
    /\ terraform = <<>>

ApplyOutcomes == {"ok", "failed", "cut"}

\* The runner's loop, and what can happen to it.
Executing ==
    \/ InstallTrust \/ ApplyRefused \/ \E o \in ApplyOutcomes : ApplyPlan(o)
Delivering ==
    \/ JournalReport \/ Settle
    \/ \E t \in Readings : SendFinish(t) \/ AskStatus(t) \/ SendUnknown(t)
Working ==
    \E t \in Readings :
        \/ Poll(t) \/ CheckPending(t) \/ PlanCancelled(t)
        \/ Claim(t) \/ Orphan(t)
        \/ pc = "work" /\ \E sc \in Planned : Submit(t, sc)
        \/ \E result \in {"refused", "plan_failed"} : Refuse(t, result)
Dying ==
    \/ Crash \/ InstallDies \/ SettleDies \/ StartupDies
    \/ \E o \in ApplyOutcomes : ApplyDies(o)

RunnerNext ==
    \/ Working \/ PlanFails \/ ClaimUnjournaled \/ Executing \/ Delivering \/ Startup \/ Dying
    \/ TrustOthers /\ UNCHANGED runnerVars

RunnerSpec == RunnerInit /\ [][RunnerNext]_vars

\* The runner is started again and delivers what it has; an operator restarts
\* a daemon that is down or refuses calls.
RunnerFairSpec ==
    /\ RunnerSpec
    /\ WF_vars(Startup) /\ WF_vars(Delivering)
    /\ WF_vars(DaemonBoot /\ UNCHANGED runnerVars)
    /\ WF_vars(ledgerFailed /\ DaemonDown /\ UNCHANGED runnerVars)

----------------------------------------------------------------------------
(* Properties *)

RunnerTypeOK ==
    /\ TrustTypeOK
    /\ disk \in Disks
    /\ pc \in {"down", "step", "work", "refuse", "check", "approved", "orphan", "execute"}
    /\ pending # None => pending.id \in Nat /\ pending.scope \in JobScopes
    /\ unreported # None => unreported.id \in Nat
    /\ terraform \in Seq([id: Nat, tree: Trees, outcome: ApplyOutcomes])

AtRest ==
    pc = "step" /\ pending = None /\ unreported = None
    /\ disk.journal = None /\ disk.marker = None

\* Two records of one trust, on two machines: when the runner has nothing
\* open, whatever the daemon trusts is what the runner's tree and trusted.json
\* hold, whichever of them crashed and whichever message was lost between the
\* install, its report and the answer.
SidesAgree ==
    AtRest /\ registry[Project] # None => LocalTrust(disk) = TrustedNow[Project]

\* One trust, recorded in the registry, the ledger and the runner's tree.
TrustIsOneRecord == RunnerTypeOK /\ RecordsAreAudited /\ SidesAgree

\* What the runner could fall back to: its trust, or, while an install is
\* open, the one taking it back leaves.
HeldTrust(d) == LocalTrust(IF d.marker = None THEN d ELSE Last(Undo(d)))

\* The trust the runner holds is replaced only by one the daemon has recorded
\* in the ledger; until then a crash at any write of the install brings the
\* old one back.
HeldFollowsRecord ==
    [][HeldTrust(disk') # HeldTrust(disk) /\ HeldTrust(disk') # None =>
          \E l \in trustLines, c \in claims :
              /\ l.kind = "trusted" /\ c.id = l.job
              /\ HeldTrust(disk') = [digest |-> c.scope.candidate, schema |-> c.scope.schema]
      ]_vars

\* "A failure is logged and the marker kept, so the next start tries again"
\* (run.rs on install_undo): an install that could not be taken back, and the
\* trust it had moved aside, stay on the disk as they are until a start.
UndoIsTriedAgain ==
    [][disk.marker # None /\ unreported = None /\ pc # "down"
          => HeldTrust(disk') = HeldTrust(disk)]_vars

\* Terraform applies a job at most once, and only with the tree the approver
\* signed for: claims that are lost, repeated or found out by status included.
AppliesAreApprovedOnce ==
    /\ \A i, k \in DOMAIN terraform : terraform[i].id = terraform[k].id => i = k
    /\ \A i \in DOMAIN terraform :
          \E c \in claims : /\ c.id = terraform[i].id /\ c.scope.kind = "apply"
                            /\ c.scope.revision = terraform[i].tree

\* The ledger does not say more than is known: "applied" only of an apply that
\* Terraform finished, "apply_failed" only if it did not start or failed.
OutcomesAreTrue ==
    \A l \in jobEvents :
        /\ l.kind = "applied" =>
              \E i \in DOMAIN terraform : terraform[i].id = l.id /\ terraform[i].outcome = "ok"
        /\ l.kind = "apply_failed" =>
              \A i \in DOMAIN terraform : terraform[i].id = l.id => terraform[i].outcome = "failed"

\* "only a clean apply makes it `applied` again, so a crash in between leaves
\* it uncertain" (run.rs on apply_claimed): the baseline shown to the approver
\* is `applied` only if the last Terraform run ended well.
BaselineIsHonest ==
    disk.applied = "applied" =>
        terraform # <<>> /\ Last(terraform).outcome = "ok"

\* What is recorded of an apply, in the ledger and on the runner, is known.
RecordedIsKnown == OutcomesAreTrue /\ BaselineIsHonest

\* A result that is known is delivered or refused for good in the end, so the
\* runner comes back to polling.
ReportsArrive == unreported # None ~> unreported = None

\* "claim it and fail it, so it ends now with nothing applied" (run.rs on
\* orphan): a runner that goes back to polling with nothing in hand leaves no
\* claimed job behind.
OrphansEndNow ==
    pc = "step" /\ pending = None /\ unreported = None =>
        \A e \in entries : e.project = Project => e.state # "claimed"
============================================================================
