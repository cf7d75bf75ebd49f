------------------------------- MODULE Jobs -------------------------------
(***************************************************************************)
(* Terraform jobs for one approver (src/job.rs, `Jobs`).  An agent files a *)
(* trust or an apply job, the project's runner plans it and submits a      *)
(* scope, the approver signs or declines that scope, and the runner claims *)
(* the approval once and reports how it went.                              *)
(*                                                                         *)
(* Jobs keeps a clock of its own, clamped apart from the one in Grants,    *)
(* and is lent the gate and the id counter.  Each action works on j, a     *)
(* record of what a method may change, starting from JobsAt(gate, t); a    *)
(* method that expires overdue jobs first starts from what Lapse leaves.   *)
(***************************************************************************)
EXTENDS Gate, FiniteSets

CONSTANTS
    Projects,     \* the configured projects
    Runners,      \* the configured runners
    RunnerOf,     \* project -> the runner that serves it
    Digests,      \* candidate digests
    Schemas,      \* schema digests
    PlanTimeout, ApprovalTTL, MaxPlanAge, ClaimTTL,   \* Policy
    Retention,    \* job.rs DONE_RETENTION
    MaxReports    \* bound: outcome lines the ledger holds for one id

VARIABLES
    jobsHighWater,  \* the latest time a Jobs method has seen
    entries,        \* the jobs not yet forgotten
    trusted,        \* project -> what it is trusted at now, or None
    jobEvents,      \* the ledger lines recorded, drained or not
    claims          \* history: what claim handed to a runner, and when

jobVars == <<jobsHighWater, entries, trusted, jobEvents, claims>>
jobsVars == <<gate, nextId, jobVars>>

ASSUME JobsAssumption ==
    /\ RunnerOf \in [Projects -> Runners]
    /\ {PlanTimeout, ApprovalTTL, MaxPlanAge, ClaimTTL, Retention, MaxReports} \subseteq Nat
    /\ Retention > 0
    /\ None \notin Digests

Revisions == [digest: Digests, schema: Schemas]
TrustScopes == [kind: {"trust"}, project: Projects, baseline: Digests \cup {None},
                candidate: Digests, schema: Schemas]
ApplyScopes == [kind: {"apply"}, project: Projects, revision: Digests, schema: Schemas]
JobScopes == TrustScopes \cup ApplyScopes

Active == {"queued", "working", "waiting", "approved", "claimed"}
HoldsSlot == {"queued", "working", "waiting"}
Results == {"trusted", "applied", "refused", "plan_failed", "apply_failed",
            "outcome_unknown", "declined", "timed_out", "killed"}
Entries == [id: Nat, project: Projects, kind: {"trust", "apply"},
            state: Active \cup {"done"}, result: Results \cup {None},
            scope: JobScopes \cup {None}, created: Nat,
            planAt: Nat \cup {None}, claimedAt: Nat \cup {None},
            doneAt: Nat \cup {None}]

JobLine(kind, e, at) == [kind |-> kind, id |-> e.id, project |-> e.project, at |-> at]
OutcomeLines == {"refused", "applied", "trusted", "apply_failed",
                 "outcome_unknown", "declined", "timed_out", "killed"}
JobLines == [kind: OutcomeLines \cup {"requested", "started", "waiting", "approved"},
             id: Nat, project: Projects, at: Nat]

----------------------------------------------------------------------------
\* What a method starts from, having clamped its clock reading.
JobsAt(g, t) ==
    [now |-> Later(t, jobsHighWater), entries |-> entries, gate |-> g,
     events |-> jobEvents]

\* The step of a method that leaves j.
Leaves(j) ==
    /\ jobsHighWater' = j.now
    /\ entries' = j.entries
    /\ gate' = j.gate
    /\ jobEvents' = j.events

Settled(e, result, at) ==
    [e EXCEPT !.state = "done", !.result = result, !.doneAt = at]

\* j after entry e became f, recording the lines `new`.
Moved(j, e, f, new) ==
    [j EXCEPT !.entries = (@ \ {e}) \cup {f}, !.events = @ \cup new]
\* j after e was settled with a ledger line of kind `kind`, dated now.
Ended(j, e, result, kind) ==
    Moved(j, e, Settled(e, result, j.now), {JobLine(kind, e, j.now)})
Freed(j, e) == [j EXCEPT !.gate = Released(@, <<"job", e.id>>)]
Struck(j, at) == [j EXCEPT !.gate = StruckAt(@, at)]

\* When an entry is overdue in the state it is in, and what it then becomes
\* (lapse_planning, lapse_waiting, lapse_approved, lapse_claimed).
Deadline(e) ==
    CASE e.state \in {"queued", "working"} -> e.created + PlanTimeout
      [] e.state = "waiting"  -> e.planAt + ApprovalTTL
      [] e.state = "approved" -> e.planAt + MaxPlanAge
      [] e.state = "claimed"  -> e.claimedAt + ClaimTTL
LapseResult(e) ==
    CASE e.state \in {"queued", "working"} -> "plan_failed"
      [] e.state \in {"waiting", "approved"} -> "timed_out"
      [] e.state = "claimed" -> "outcome_unknown"
LapseLine(e) == IF LapseResult(e) = "plan_failed" THEN "refused" ELSE LapseResult(e)

Overdue(j, states) ==
    {e \in j.entries : e.state \in states /\ Deadline(e) <= j.now}

\* Whether a person is being asked about the job, so that its end is a strike.
AskedEarly(e) == e.state \in HoldsSlot   \* wrong: planning counts too
Asked(e) == e.state = "waiting"

\* j after the overdue entries of `over` lapsed.  Each line, and the strike a
\* waiting job costs, is dated to the deadline; only an entry that holds the
\* slot gives it back, and at most one entry is not done, so one strike is all.
Lapse(j, over) ==
    LET freed == {<<"job", e.id>> : e \in {x \in over : x.state \in HoldsSlot}}
        g == [j.gate EXCEPT !.occupant = @ \ freed]
    IN  [j EXCEPT
          !.entries = (@ \ over) \cup {Settled(e, LapseResult(e), j.now) : e \in over},
          !.events = @ \cup {JobLine(LapseLine(e), e, Deadline(e)) : e \in over},
          !.gate = IF \E e \in over : Asked(e)
                   THEN StruckAt(g, Deadline(CHOOSE e \in over : Asked(e)))
                   ELSE g]

\* Jobs::prune, and Jobs::tick.
Pruned(j) ==
    [j EXCEPT !.entries = {e \in @ : e.doneAt = None \/ e.doneAt + Retention > j.now}]
TickedButClaimed(j) ==   \* wrong: a claimed job is waited for for ever
    Pruned(Lapse(j, Overdue(j, Active \ {"claimed"})))
JobsTicked(j) == Pruned(Lapse(j, Overdue(j, Active)))

----------------------------------------------------------------------------
(* The methods.  JobsQuiet is the frame of those that neither take an id,  *)
(* hand out a claim nor change what is trusted.                            *)

JobsQuiet == UNCHANGED <<nextId, trusted, claims>>
EntryOf(j, id, states) == {e \in j.entries : e.id = id /\ e.state \in states}

JobTick(j) == Leaves(JobsTicked(j)) /\ JobsQuiet

\* The entries that keep another job from being filed.
BlocksEarly(e) == e.state \in HoldsSlot   \* wrong: filed over a running one
Blocks(e) == e.state # "done"

\* Jobs::request, and file_job's allocate_id once the job is in.
JobRequest(j, project, kind) ==
    LET p == Pruned(j)
        g == GateTicked(p.gate, p.now)
        busy == \E e \in p.entries : Blocks(e)
        job == [id |-> nextId, project |-> project, kind |-> kind,
                state |-> "queued", result |-> None, scope |-> None,
                created |-> p.now, planAt |-> None, claimedAt |-> None,
                doneAt |-> None]
    IN  \/ /\ ~busy /\ Admits(g, p.now)
           /\ nextId <= MaxId /\ p.now <= LastRequest
           /\ Leaves([p EXCEPT !.entries = @ \cup {job},
                               !.gate = Admitted(g, p.now, <<"job", nextId>>),
                               !.events = @ \cup {JobLine("requested", job, p.now)}])
           /\ AllocateId
           /\ UNCHANGED <<trusted, claims>>
        \/ ~busy /\ ~Admits(g, p.now) /\ Leaves([p EXCEPT !.gate = g]) /\ JobsQuiet
        \/ busy /\ Leaves(p) /\ JobsQuiet

\* Jobs::poll: a queued job starts, an approved one is returned as it is.
JobPoll(j, runner) ==
    LET mine == {e \in j.entries : RunnerOf[e.project] = runner}
        p == Lapse(j, Overdue(j, {"queued", "working", "approved"}) \cap mine)
        queued == {e \in p.entries \cap mine : e.state = "queued"}
    IN  /\ \/ \E e \in queued :
                  Leaves(Moved(p, e, [e EXCEPT !.state = "working"],
                               {JobLine("started", e, p.now)}))
           \/ queued = {} /\ Leaves(p)
        /\ JobsQuiet

ApplyTrusted(scope) ==
    trusted[scope.project] = [digest |-> scope.revision, schema |-> scope.schema]
BaselineCurrent(scope) ==
    scope.baseline = IF trusted[scope.project] = None THEN None
                     ELSE trusted[scope.project].digest
\* What approve and claim ask of a scope; submit asks it of an apply.
StillTrustedApply(scope) ==   \* wrong: a trust is not judged again
    scope.kind = "apply" => ApplyTrusted(scope)
StillTrusted(scope) ==
    IF scope.kind = "apply" THEN ApplyTrusted(scope) ELSE BaselineCurrent(scope)

\* The states a scope is accepted in, and a report of how the job went.
SubmittableAgain == {"working", "waiting"}   \* wrong: over a scope that is shown
Submittable == {"working"}
ReportableTwice == {"claimed", "done"}       \* wrong: a late report counts
Reportable == {"claimed"}

\* Jobs::submit.  Any refusal but "untrusted" leaves the job as it is.
JobSubmit(j, runner, id, scope) ==
    LET p == Lapse(j, Overdue(j, {"queued", "working"}) \cap EntryOf(j, id, Active))
        fits == {e \in EntryOf(p, id, Submittable) :
                    /\ RunnerOf[e.project] = runner
                    /\ scope.kind = e.kind /\ scope.project = e.project}
        stale == scope.kind = "apply" /\ ~ApplyTrusted(scope)
    IN  /\ \/ \E e \in fits :
                  /\ ~stale
                  /\ Leaves(Moved(p, e, [e EXCEPT !.state = "waiting",
                                                 !.scope = scope, !.planAt = p.now],
                                  {JobLine("waiting", e, p.now)}))
           \/ \E e \in fits : stale /\ Leaves(Freed(Ended(p, e, "refused", "refused"), e))
           \/ fits = {} /\ Leaves(p)
        /\ JobsQuiet

\* Jobs::refuse, from the runner that is planning.
JobRefuse(j, runner, id, result) ==
    LET p == Lapse(j, Overdue(j, {"queued", "working"}) \cap EntryOf(j, id, Active))
        fits == {e \in EntryOf(p, id, {"working"}) : RunnerOf[e.project] = runner}
    IN  /\ \/ \E e \in fits : Leaves(Freed(Ended(p, e, result, "refused"), e))
           \/ fits = {} /\ Leaves(p)
        /\ JobsQuiet

\* Jobs::approve.  The nonce of a waiting job is new; the job's id stands for
\* it.  A signed apply whose plan is too old, or a scope the trust has moved
\* from, ends the job; the slot is given back without a strike.
JobApprove(j, id, nonce, scope) ==
    LET p == Lapse(j, Overdue(j, {"waiting"}) \cap EntryOf(j, id, Active))
        signed == {e \in EntryOf(p, id, {"waiting"}) : nonce = e.id /\ scope = e.scope}
        tooOld(e) == e.kind = "apply" /\ e.planAt + MaxPlanAge <= p.now
        good(e) == ~tooOld(e) /\ StillTrusted(e.scope)
        approved(e) == Moved(p, e, [e EXCEPT !.state = "approved"],
                             {JobLine("approved", e, p.now)})
    IN  /\ \/ \E e \in signed :
                  /\ good(e)
                  /\ Leaves([Freed(approved(e), e) EXCEPT !.gate = Forgiven(@)])
           \/ \E e \in signed :
                  ~good(e) /\ Leaves(Freed(Ended(p, e, "refused", "refused"), e))
           \/ signed = {} /\ Leaves(p)
        /\ JobsQuiet

\* Jobs::decline: the only answer that does not look at the deadline.
JobDecline(j, id) ==
    /\ \/ \E e \in EntryOf(j, id, {"waiting"}) :
              Leaves(Struck(Freed(Ended(j, e, "declined", "declined"), e), j.now))
       \/ EntryOf(j, id, {"waiting"}) = {} /\ Leaves(j)
    /\ JobsQuiet

\* Jobs::claim: once, by the project's runner, before the plan is too old, and
\* only if what was signed still stands.
JobClaim(j, runner, id) ==
    LET mine == {e \in EntryOf(j, id, Active) : RunnerOf[e.project] = runner}
        p == Lapse(j, Overdue(j, {"approved"}) \cap mine)
        ready == {e \in EntryOf(p, id, {"approved"}) : RunnerOf[e.project] = runner}
    IN  /\ \/ \E e \in ready :
                  /\ StillTrusted(e.scope)
                  /\ Leaves(Moved(p, e, [e EXCEPT !.state = "claimed",
                                                 !.claimedAt = p.now], {}))
                  /\ claims' = claims \cup {[id |-> id, scope |-> e.scope, at |-> p.now]}
           \/ \E e \in ready :
                  /\ ~StillTrusted(e.scope)
                  /\ Leaves(Ended(p, e, "refused", "refused"))
                  /\ UNCHANGED claims
           \/ ready = {} /\ Leaves(p) /\ UNCHANGED claims
        /\ UNCHANGED <<nextId, trusted>>

\* The lines that say how job `id` ended.
Outcomes(id) == {l \in jobEvents : l.id = id /\ l.kind \in OutcomeLines}

\* Jobs::finish.  A job this instance does not know is accepted only as
\* outcome_unknown, and recorded as a bare line for the project named.
Fits(kind, result) ==
    \/ result \in {"apply_failed", "outcome_unknown"}
    \/ result = IF kind = "trust" THEN "trusted" ELSE "applied"
JobFinish(j, runner, project, id, result) ==
    LET known == {e \in j.entries : e.id = id}
        fits == {e \in known : /\ e.state \in Reportable /\ e.project = project
                               /\ RunnerOf[project] = runner /\ Fits(e.kind, result)}
        bare == known = {} /\ result = "outcome_unknown" /\ RunnerOf[project] = runner
        line == [kind |-> result, id |-> id, project |-> project, at |-> j.now]
    IN  /\ \/ \E e \in fits : Leaves(Ended(j, e, result, result))
           \/ bare /\ Cardinality(Outcomes(id)) < MaxReports
                   /\ Leaves([j EXCEPT !.events = @ \cup {line}])
           \/ fits = {} /\ ~bare /\ Leaves(j)
        /\ JobsQuiet

\* Jobs::refuse_claimed, when the trust moved after the claim.
JobRefuseClaimed(j, id) ==
    /\ \/ \E e \in EntryOf(j, id, {"claimed"}) : Leaves(Ended(j, e, "refused", "refused"))
       \/ EntryOf(j, id, {"claimed"}) = {} /\ Leaves(j)
    /\ JobsQuiet

\* Jobs::kill: a claimed job is already running and is left to finish.
JobKill(j, project) ==
    LET hit == {e \in j.entries : e.project = project /\ e.state \in Active \ {"claimed"}}
        freed == {<<"job", e.id>> : e \in {x \in hit : x.state \in HoldsSlot}}
        k == [j EXCEPT
               !.entries = (@ \ hit) \cup {Settled(e, "killed", j.now) : e \in hit},
               !.events = @ \cup {JobLine("killed", e, j.now) : e \in hit},
               !.gate.occupant = @ \ freed]
    IN  /\ Leaves(IF \E e \in hit : Asked(e) THEN Struck(k, j.now) ELSE k)
        /\ JobsQuiet

\* Jobs::set_trusted: the daemon passes on what trusted.json says.
SetTrusted(project, revision) ==
    /\ trusted' = [trusted EXCEPT ![project] = revision]
    /\ UNCHANGED <<gate, nextId, jobsHighWater, entries, jobEvents, claims>>

----------------------------------------------------------------------------
JobsInit ==
    /\ gate = EmptyGate
    /\ nextId = 1
    /\ jobsHighWater = 0
    /\ entries = {}
    /\ trusted \in [Projects -> Revisions \cup {None}]
    /\ jobEvents = {}
    /\ claims = {}

\* The scopes a verdict can be presented over: a waiting job's own, or another.
SignedScopes == {e.scope : e \in {x \in entries : x.state = "waiting"}}
\* The ids anyone can have been told.
Known == 1..(nextId - 1)
JobReadings == {t \in Time : t + 1 >= jobsHighWater}

JobsNext ==
    \/ \E t \in JobReadings : LET j == JobsAt(gate, t) IN
        \/ JobTick(j)
        \/ \E p \in Projects, kind \in {"trust", "apply"} : JobRequest(JobsTicked(j), p, kind)
        \/ \E r \in Runners : JobPoll(JobsTicked(j), r)
        \/ \E r \in Runners, id \in Known, sc \in JobScopes : JobSubmit(j, r, id, sc)
        \/ \E r \in Runners, id \in Known, res \in {"refused", "plan_failed"} :
              JobRefuse(j, r, id, res)
        \/ \E id \in Known, n \in Known, sc \in SignedScopes : JobApprove(j, id, n, sc)
        \/ \E id \in Known : JobDecline(JobsTicked(j), id)
        \/ \E r \in Runners, id \in Known : JobClaim(j, r, id)
        \/ \E r \in Runners, p \in Projects, id \in Known,
              res \in {"trusted", "applied", "apply_failed", "outcome_unknown"} :
              JobFinish(j, r, p, id, res)
        \/ \E id \in Known : JobRefuseClaimed(j, id)
        \/ \E p \in Projects : JobKill(j, p)
    \/ \E p \in Projects, rev \in Revisions \cup {None} : SetTrusted(p, rev)

JobsSpec == JobsInit /\ [][JobsNext]_jobsVars

----------------------------------------------------------------------------
(* Properties *)

\* Type invariant of the state Jobs holds and of its history.
JobsTypeOK ==
    /\ gate \in Gates
    /\ nextId \in Nat
    /\ jobsHighWater \in Nat
    /\ entries \subseteq Entries
    /\ trusted \in [Projects -> Revisions \cup {None}]
    /\ jobEvents \subseteq JobLines
    /\ claims \subseteq [id: Nat, scope: JobScopes, at: Nat]

Unfinished == {e \in entries : e.state # "done"}
HoldingJobs == {<<"job", e.id>> : e \in {x \in entries : x.state \in HoldsSlot}}

\* "The job that has not finished, if any. At most one exists" (job.rs on
\* active): whatever order filing, lapsing, killing and finishing come in.
AtMostOneUnfinished == \A e, f \in Unfinished : e = f

\* The slot is held exactly by the job that is queued, planned or waiting.
SlotIsHeldByJob == gate.occupant = HoldingJobs

\* One job at a time, from its filing to its report, and the slot with it while
\* a person may still be asked.
OneJobAtATime == JobsTypeOK /\ AtMostOneUnfinished /\ SlotIsHeldByJob

\* A job still known has exactly one outcome line once it is done and none
\* before, and the line agrees with the result shown to the requester: a
\* lapse, a kill, a late report and an answer never both end one job.
OneOutcomePerJob ==
    \A e \in entries :
        IF e.state = "done"
        THEN \E l \in jobEvents :
                /\ Outcomes(e.id) = {l}
                /\ l.kind = IF e.result = "plan_failed" THEN "refused" ELSE e.result
                /\ l.at <= e.doneAt
        ELSE Outcomes(e.id) = {}

\* A runner is handed an approval once; it was answered within the approval
\* window of the plan and taken before the plan was too old, and a job that
\* was killed, declined or timed out is never handed out.
ClaimsWereApproved ==
    \A c \in claims :
        /\ \A d \in claims : d.id = c.id => d = c
        /\ \E w, a \in jobEvents :
              /\ w.kind = "waiting" /\ w.id = c.id
              /\ a.kind = "approved" /\ a.id = c.id
              /\ a.at < w.at + ApprovalTTL
              /\ a.at <= c.at /\ c.at < w.at + MaxPlanAge
        /\ \A l \in Outcomes(c.id) : l.kind \notin {"killed", "declined", "timed_out"}

\* What the ledger says of a job is how it went, and how it came to be claimed.
LinesTellTheJob == OneOutcomePerJob /\ ClaimsWereApproved

\* The trust is the one the scope was signed against.
Stands(scope) ==
    trusted[scope.project] \in
        IF scope.kind = "apply" THEN {[digest |-> scope.revision, schema |-> scope.schema]}
        ELSE IF scope.baseline = None THEN {None}
        ELSE [digest: {scope.baseline}, schema: Schemas]

\* What is handed out is the scope frozen when the job began to wait, and at
\* that moment the project's trust is still the one the scope names: an
\* untrust or another trust since the signature voids it.
ClaimsStillTrusted ==
    \A c \in claims' \ claims :
        /\ Stands(c.scope)
        /\ \E e \in entries : e.id = c.id /\ e.state = "approved" /\ e.scope = c.scope

\* A scope never changes once submitted: what the approver was shown is what
\* the runner is given.
ScopeStaysFrozen ==
    \A e \in entries, f \in entries' :
        e.id = f.id /\ e.scope # None => f.scope = e.scope

\* What a runner is given to carry out is what was shown, and still stands.
ClaimsAreSound == [][ClaimsStillTrusted /\ ScopeStaysFrozen]_jobsVars

\* A strike is charged only when a person was being asked: a job that fails or
\* lapses in planning, is refused, or lapses after its approval costs none.
StrikesOnlyWhenAsked ==
    [][gate'.strikes > gate.strikes =>
          \E e \in entries, f \in entries' :
              /\ e.id = f.id /\ e.state = "waiting" /\ f.state = "done"
              /\ f.result \in {"declined", "timed_out", "killed"}]_jobsVars

\* Whatever the runner and the approver do or fail to do, an unfinished job is
\* finished in the end, so it does not block every later job.  (Checked under
\* the fairness of Daemon, where all it takes is someone who polls.)
EveryJobEnds ==
    \A id \in Ids : (\E e \in Unfinished : e.id = id) ~> (\A e \in Unfinished : e.id # id)

\* The jobs that wait, are approved and were claimed as questions, grants and
\* uses: a scope covers one act, to carry it out as it was shown.
JobCovers(scope, act) == act = scope
JobOnce(scope) == TRUE
JobPast == {l.id : l \in {x \in jobEvents : x.kind = "waiting"}}
JobQuestions(state) ==
    {[id |-> e.id, scope |-> e.scope] : e \in {x \in entries : x.state = state}}
JobUses == {[id |-> c.id, act |-> c.scope] : c \in claims}

JobApprovals == INSTANCE Approvals WITH
    Covers <- JobCovers, Once <- JobOnce, past <- JobPast,
    open <- JobQuestions("waiting"), granted <- JobQuestions("approved"), uses <- JobUses

\* A person is asked about a job once, about one scope; only that scope becomes
\* an approval, and a runner takes it once, while it has neither lapsed nor been
\* killed: a scope submitted over another, an answer that crosses a lapse and a
\* claim that is repeated included.
JobIsAnApproval == JobApprovals!Spec
============================================================================
