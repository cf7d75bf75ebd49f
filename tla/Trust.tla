------------------------------- MODULE Trust -------------------------------
(***************************************************************************)
(* The trust registry (src/store.rs, trusted.json) and the handlers of     *)
(* src/server.rs that file jobs, answer the approver and serve the         *)
(* runners, for a daemon that decides jobs only.                           *)
(*                                                                         *)
(* A trust has to be recorded in three places: in the registry, in the     *)
(* job, and in the ledger.  The registry is shared with `shoephoned        *)
(* untrust`, another process, under a file lock.                           *)
(*                                                                         *)
(* Every handler that reads what is trusted reads the file first           *)
(* (refresh_trusted) and passes it on to Jobs, so `trusted` of Jobs        *)
(* follows the file.  After a roll-back that failed the copy in memory     *)
(* says None where the file does not, but the ledger has then failed too,  *)
(* and every handler that would read it is refused.                        *)
(***************************************************************************)
EXTENDS Jobs

CONSTANT
    MaxFaults     \* bound: messages lost, writes that fail, crashes

VARIABLES
    registry,      \* trusted.json: project -> its trust record, or None
    trustLines,    \* the trusted and untrusted lines in the ledger
    untrusting,    \* lines that `shoephoned untrust` has still to write
    up,            \* whether the daemon runs
    ledgerFailed,  \* Inner::ledger_failed
    faults

TrustedNow ==
    [p \in Projects |-> IF registry[p] = None THEN None
                        ELSE [digest |-> registry[p].digest, schema |-> registry[p].schema]]

\* What trusted.json becomes, and Jobs is told before it is asked again.
Registers(records) == registry' = records /\ trusted' = TrustedNow'

jobsPart == <<gate, nextId, jobsHighWater, entries, jobEvents, claims>>
registryPart == <<registry, trusted, trustLines, untrusting, up>>
trustVars == <<jobsPart, registryPart, ledgerFailed, faults>>

ASSUME TrustAssumption == MaxFaults \in Nat

TrustRecords == [digest: Digests, schema: Schemas, job: Nat]
TrustLine(kind, p, job) == [kind |-> kind, project |-> p, job |-> job]
TrustLines == [kind: {"trusted", "untrusted"}, project: Projects, job: Nat]

Fault == faults < MaxFaults /\ faults' = faults + 1

----------------------------------------------------------------------------
(* How a call goes.  `handler` is what it does to the jobs and the         *)
(* registry; `answered` and `silent` say what the caller does with an      *)
(* answer, and without one.  `audited` callers get none once an append has *)
(* failed, although what the handler did stands; with `with` they do.      *)
(***************************************************************************)
Serves(audited) == up /\ (audited => ~ledgerFailed)

Call(audited, handler, answered, silent) ==
    \/ /\ Serves(audited)
       /\ UNCHANGED registryPart
       /\ handler
       /\ \/ answered /\ UNCHANGED <<ledgerFailed, faults>>
          \/ silent /\ Fault /\ UNCHANGED ledgerFailed
          \/ /\ jobEvents' # jobEvents /\ Fault /\ ledgerFailed' = TRUE
             /\ IF audited THEN silent ELSE answered
    \/ ~Serves(audited) /\ silent /\ UNCHANGED trustVars
    \/ Serves(audited) /\ Fault /\ silent
       /\ UNCHANGED <<jobsPart, registryPart, ledgerFailed>>

\* The calls of agents, of the approver and of the console: nothing is done
\* with the answer.
Serve(audited, handler) ==
    /\ Serves(audited)
    /\ UNCHANGED registryPart
    /\ handler
    /\ \/ UNCHANGED <<ledgerFailed, faults>>
       \/ jobEvents' # jobEvents /\ Fault /\ ledgerFailed' = TRUE

FileJob(t, p, kind) == Serve(TRUE, JobRequest(JobsTicked(JobsAt(gate, t)), p, kind))
ApproveJob(t, e) == Serve(TRUE, JobApprove(JobsAt(gate, t), e.id, e.id, e.scope))
DeclineJob(t, id) == Serve(FALSE, JobDecline(JobsTicked(JobsAt(gate, t)), id))
KillProject(t, p) == Serve(FALSE, JobKill(JobsAt(gate, t), p))
ShowStatus(t) == Serve(FALSE, JobTick(JobsAt(gate, t)))

----------------------------------------------------------------------------
(* runner_finish, when the result is `trusted`.                            *)

DigestOf(rec) == IF rec = None THEN None ELSE rec.digest

\* already_trusted: the registry names this very job, which is done as
\* trusted or forgotten.
AlreadyNever(p, id) == FALSE   \* wrong: a retry is judged like a first report
AlreadyTrusted(p, id) ==
    /\ registry[p] # None /\ registry[p].job = id
    /\ \A e \in entries : e.id = id => e.kind = "trust" /\ e.result = "trusted"

\* The claimed trust job a report of it must name.
ClaimedTrust(id) ==
    {e \in entries : e.id = id /\ e.kind = "trust" /\ e.state = "claimed"}

RecordOf(e) == [digest |-> e.scope.candidate, schema |-> e.scope.schema, job |-> e.id]
BaselineAny(e) == FALSE   \* wrong: an untrust since the claim is overwritten
BaselineMoved(e) == DigestOf(registry[e.project]) # e.scope.baseline

\* reopen_trusted: what the handler ended is claimed again, so the jobs are as
\* the tick left them.
Reopened(j) == Leaves(j)

\* restore_trusted_file, then reopen_trusted: the record and the job are as
\* they were, unless putting the record back fails as well, or `untrust` has
\* removed it since.  The append may have failed after the line was in the file.
UndoTrust(e) ==
    \/ UNCHANGED <<registry, trusted, untrusting>> /\ faults' = faults + 1
    \/ /\ Registers([registry EXCEPT ![e.project] = RecordOf(e)])
       /\ UNCHANGED untrusting
       /\ faults + 1 < MaxFaults /\ faults' = faults + 2
    \/ /\ Registers([registry EXCEPT ![e.project] = None])
       /\ untrusting' = untrusting \cup {TrustLine("untrusted", e.project, e.id)}
       /\ faults' = faults + 1

\* What a daemon that goes down forgets: the jobs and the gate.  The lines and
\* the claims stay as history; the id counter is taken to have been saved.
Forgotten ==
    /\ gate' = EmptyGate
    /\ jobsHighWater' = 0 /\ entries' = {}
    /\ UNCHANGED <<nextId, jobEvents, claims>>

\* finish_trusted.  The record is written first: if that fails the job stays
\* claimed.  If the baseline moved the job is refused.  If the ledger line
\* cannot be written, all is taken back.  A crash leaves the record without, or
\* with, its line.
FinishTrusted(t, p, id, accepted, refused, silent) ==
    LET j == JobsAt(gate, t)
        claimed == {e \in ClaimedTrust(id) : e.project = p}
        line == TrustLine("trusted", p, id)
        idle == Leaves(j) /\ UNCHANGED <<nextId, claims, registryPart>>
        answer(a) == \/ a /\ UNCHANGED <<ledgerFailed, faults>>
                     \/ silent /\ Fault /\ UNCHANGED ledgerFailed
    IN  \/ ~Serves(TRUE) /\ silent /\ UNCHANGED trustVars
        \/ Serves(TRUE) /\ AlreadyTrusted(p, id) /\ idle /\ answer(accepted)
        \/ Serves(TRUE) /\ ~AlreadyTrusted(p, id) /\ claimed = {} /\ idle /\ answer(refused)
        \/ /\ Serves(TRUE) /\ ~AlreadyTrusted(p, id)
           /\ \E e \in claimed :
               \/ \* the request is lost, or update_trusted fails
                  /\ Fault /\ silent
                  /\ UNCHANGED <<jobsPart, registryPart, ledgerFailed>>
               \/ /\ BaselineMoved(e)
                  /\ Leaves(Ended(j, e, "refused", "refused"))
                  /\ UNCHANGED <<nextId, claims, registryPart>>
                  /\ \/ answer(refused)
                     \/ Fault /\ ledgerFailed' = TRUE /\ silent
               \/ /\ ~BaselineMoved(e)
                  /\ Leaves(Ended(j, e, "trusted", "trusted"))
                  /\ Registers([registry EXCEPT ![p] = RecordOf(e)])
                  /\ trustLines' = trustLines \cup {line}
                  /\ UNCHANGED <<nextId, claims, untrusting, up>>
                  /\ answer(accepted)
               \/ /\ ~BaselineMoved(e) /\ faults < MaxFaults
                  /\ Reopened(j)
                  /\ trustLines' \in {trustLines, trustLines \cup {line}}
                  /\ UndoTrust(e)
                  /\ ledgerFailed' = TRUE /\ silent
                  /\ UNCHANGED <<nextId, claims, up>>
               \/ /\ ~BaselineMoved(e) /\ Fault /\ silent
                  /\ Forgotten /\ up' = FALSE /\ ledgerFailed' = FALSE
                  /\ Registers([registry EXCEPT ![p] = RecordOf(e)])
                  /\ trustLines' \in {trustLines, trustLines \cup {line}}
                  /\ UNCHANGED untrusting

----------------------------------------------------------------------------
(* `shoephoned untrust`: the record is removed, then the line is written,  *)
(* unless the process dies or fails in between.                            *)

Untrust(p) ==
    /\ registry[p] # None
    /\ Registers([registry EXCEPT ![p] = None])
    /\ untrusting' = untrusting \cup {TrustLine("untrusted", p, registry[p].job)}
    /\ UNCHANGED <<jobsPart, trustLines, up, ledgerFailed, faults>>

UntrustLine(l) ==
    /\ untrusting' = untrusting \ {l}
    /\ \/ trustLines' = trustLines \cup {l} /\ UNCHANGED faults
       \/ Fault /\ UNCHANGED trustLines
    /\ UNCHANGED <<jobsPart, registry, trusted, up, ledgerFailed>>

----------------------------------------------------------------------------
(* Crash and restart.                                                      *)

\* The daemon goes down.  An operator restarts one whose ledger has failed;
\* any other crash is a fault.
DaemonDown ==
    /\ up /\ up' = FALSE
    /\ Forgotten /\ ledgerFailed' = FALSE
    /\ UNCHANGED <<registry, trusted, trustLines, untrusting>>
    /\ \/ ledgerFailed /\ UNCHANGED faults
       \/ Fault

\* reconcile_trusted: a record without a line in the ledger is dropped.
Reconciled ==
    [p \in Projects |->
        IF registry[p] # None /\ TrustLine("trusted", p, registry[p].job) \in trustLines
        THEN registry[p] ELSE None]

DaemonBoot ==
    /\ ~up /\ up' = TRUE
    /\ Registers(Reconciled)
    /\ UNCHANGED <<jobsPart, trustLines, untrusting, ledgerFailed, faults>>

----------------------------------------------------------------------------
TrustInit ==
    /\ gate = EmptyGate /\ nextId = 1
    /\ jobsHighWater = 0 /\ entries = {} /\ jobEvents = {} /\ claims = {}
    /\ registry \in [Projects -> [digest: Digests, schema: Schemas, job: {0}] \cup {None}]
    /\ trusted = TrustedNow
    /\ trustLines = {TrustLine("trusted", p, 0) : p \in {q \in Projects : registry[q] # None}}
    /\ untrusting = {} /\ up = TRUE /\ ledgerFailed = FALSE /\ faults = 0

Readings == {t \in Time : t >= jobsHighWater}

\* What others than the runners do.
TrustOthers ==
    \/ \E t \in Readings :
        \/ \E p \in Projects, kind \in {"trust", "apply"} : FileJob(t, p, kind)
        \/ \E e \in {x \in entries : x.state = "waiting"} :
              ApproveJob(t, e) \/ DeclineJob(t, e.id)
        \/ \E p \in Projects : KillProject(t, p)
        \/ ShowStatus(t)
    \/ \E p \in Projects : Untrust(p)
    \/ \E l \in untrusting : UntrustLine(l)
    \/ DaemonDown \/ DaemonBoot

----------------------------------------------------------------------------
(* Properties *)

TrustTypeOK ==
    /\ JobsTypeOK
    /\ registry \in [Projects -> TrustRecords \cup {None}]
    /\ trustLines \subseteq TrustLines /\ untrusting \subseteq TrustLines
    /\ up \in BOOLEAN /\ ledgerFailed \in BOOLEAN
    /\ faults \in 0..MaxFaults

\* While the daemon runs and its ledger has not failed, every revision it
\* trusts can be shown: the ledger has the line for the job that trusted it.
\* A crash or a failed append between the record and its line never leaves
\* a trust that is acted on without one.
RecordsAreAudited ==
    up /\ ~ledgerFailed =>
        \A p \in Projects : registry[p] # None =>
            TrustLine("trusted", p, registry[p].job) \in trustLines

\* A record was approved for exactly what it says and replaced exactly the
\* baseline the approver was shown, whatever `untrust` did in the meantime.
RecordsReplaceTheirBaseline ==
    [][\A p \in Projects :
          LET new == registry'[p] IN
          new # None /\ new # registry[p] =>
              \E c \in claims :
                  /\ c.id = new.job /\ c.scope.kind = "trust" /\ c.scope.project = p
                  /\ c.scope.candidate = new.digest /\ c.scope.schema = new.schema
                  /\ c.scope.baseline = DigestOf(registry[p])]_trustVars
============================================================================
