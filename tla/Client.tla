------------------------------ MODULE Client ------------------------------
(***************************************************************************)
(* The `shoephone` command an agent runs (src/bin/shoephone.rs, client.rs, *)
(* session.rs, exit.rs).  `trust` and `apply` file a job and poll it until *)
(* it is done; `request` files an SSH request, polls it and then loads a   *)
(* certificate as `renew` does; `disavow` unloads it and closes the        *)
(* window.  Each ends with one exit status, which is all the agent that    *)
(* drives the command goes by.                                             *)
(*                                                                         *)
(* The daemon and the runner are here only as far as one job and one       *)
(* request of each command can tell: a job's states and results are those  *)
(* of Jobs, and a restart of the daemon forgets them all.                  *)
(***************************************************************************)
EXTENDS Naturals, FiniteSets

CONSTANTS
    Commands,      \* the commands that may be run, each once
    Mixes,         \* what they may be: functions from Commands to CommandKinds
    PollFailures,  \* failed polls in a row that a wait for a job survives
    NoCert         \* no certificate

VARIABLES
    kind,       \* command -> what it is, "none" when it is not run
    cli,        \* command -> the step it is at and what it keeps
    job,        \* command -> its job, or request, in the daemon's memory
    claim,      \* command -> how far the runner is with a claim of its job
    effect,     \* command -> what the job has changed: none, partly, changed
    keyFiles,   \* the session's key files: "none", "private", "both"
    certFile,   \* the certificate beside the session key
    agent,      \* the certificates the ssh-agent holds
    crowded     \* history: two commands worked on the certificate at a time,
                \* or ssh-add -d failed

jobVars == <<job, claim, effect>>
certVars == <<keyFiles, certFile, agent, crowded>>
clientVars == <<kind, cli, jobVars, certVars>>

CommandKinds == {"none", "trust", "apply", "request", "renew", "disavow"}
ASSUME ClientAssumption ==
    /\ Mixes \subseteq [Commands -> CommandKinds]
    /\ PollFailures \in Nat

JobCommands == {c \in Commands : kind[c] \in {"trust", "apply"}}
CertCommands == {c \in Commands : kind[c] \in {"request", "renew", "disavow"}}

Statuses == {"Ok", "Empty", "Precondition", "Unreachable", "AuthRemediable",
             "AuthNeedsHuman", "AuthDenied", "RetryClean", "RetryUnknown",
             "RetryLater", "Permanent", "PlanFailed", "ApplyFailed", "OutcomeUnknown"}
Steps == {"start", "wait", "file", "asked", "issue", "unload", "write", "add",
          "drop", "remove", "kill", "end"}
Started == [step |-> "start", failures |-> 0, late |-> FALSE, mayHaveRun |-> FALSE,
            turn |-> FALSE, status |-> "running", said |-> "nothing", cert |-> NoCert]
States == {"none", "forgotten", "queued", "waiting", "approved", "claimed"}
Claims == {"none", "held", "failed", "undoing", "reported"}
Results == {"trusted", "applied", "refused", "plan_failed", "apply_failed",
            "outcome_unknown", "declined", "timed_out", "killed"}

Goes(c, d) == cli' = [cli EXCEPT ![c] = d]
To(c, step) == Goes(c, [cli[c] EXCEPT !.step = step])
Exit(c, status) == Goes(c, [cli[c] EXCEPT !.step = "end", !.status = status])
At(c, step) == cli[c].step = step

\* What a call that got no answer, or no answer it can read, exits with: the
\* daemon was not reached, or it may have acted, or it failed inside.
NoAnswer == {"Unreachable", "RetryUnknown"}
\* What a refused filing exits with (client::Error::status).
Refusals == {"RetryClean", "RetryLater", "Permanent", "RetryUnknown"}

----------------------------------------------------------------------------
(* Filing a job and waiting for it.                                        *)

\* trust, apply: POST.  The job may be filed though no answer comes.
FileJob(c) ==
    /\ c \in JobCommands /\ At(c, "start")
    /\ \/ job' = [job EXCEPT ![c] = "queued"] /\ (To(c, "wait") \/ Exit(c, "RetryUnknown"))
       \/ UNCHANGED job /\ \E s \in Refusals \cup NoAnswer : Exit(c, s)
    /\ UNCHANGED <<claim, effect, certVars>>

\* report_job.
ReportedBluntly(result) ==   \* wrong: unknown is told like a refusal
    CASE result \in {"trusted", "applied"} -> "Ok"
      [] result \in {"declined", "timed_out", "killed"} -> "AuthDenied"
      [] result \in {"refused", "outcome_unknown"} -> "Permanent"
      [] result = "plan_failed" -> "PlanFailed"
      [] result = "apply_failed" -> "ApplyFailed"
Reported(result) ==
    CASE result \in {"trusted", "applied"} -> "Ok"
      [] result \in {"declined", "timed_out", "killed"} -> "AuthDenied"
      [] result = "refused" -> "Permanent"
      [] result = "plan_failed" -> "PlanFailed"
      [] result = "apply_failed" -> "ApplyFailed"
      [] result = "outcome_unknown" -> "OutcomeUnknown"

\* (`turn` tells one poll that settled nothing from the next.)
\* wait_for_job, after a poll that settled nothing: the 8 hours are a backstop.
Endless(c, d) == Goes(c, d)   \* wrong: waits as long as the job does
Backstop(c, d) ==
    IF d.late THEN Goes(c, [d EXCEPT !.step = "end", !.status = "RetryUnknown"])
    ELSE Goes(c, d)

\* wait_for_job, one poll.
JobPolled(c) ==
    /\ c \in JobCommands /\ At(c, "wait")
    /\ \/ job[c] \in Results /\ Exit(c, Reported(job[c]))
       \/ /\ job[c] \in States \ {"forgotten"}
          /\ Backstop(c, [cli[c] EXCEPT !.failures = 0, !.turn = ~@,
                             !.mayHaveRun = @ \/ job[c] \in {"approved", "claimed"}])
       \/ /\ job[c] = "forgotten"
          /\ IF cli[c].mayHaveRun THEN Exit(c, "OutcomeUnknown")
             ELSE Goes(c, [cli[c] EXCEPT !.step = "end", !.status = "RetryUnknown",
                                         !.said = "nothing ran"])
       \/ /\ cli[c].failures < PollFailures
          /\ Backstop(c, [cli[c] EXCEPT !.failures = @ + 1])
       \/ cli[c].failures >= PollFailures /\ \E s \in NoAnswer : Exit(c, s)
       \/ Exit(c, "RetryUnknown")   \* a 5xx, or an answer it cannot read
    /\ UNCHANGED <<jobVars, certVars>>

\* The wait has lasted 8 hours, or a request's pending_ttl and 30 s.
Late(c) ==
    /\ cli[c].step \in {"wait", "asked"} /\ ~cli[c].late
    /\ Goes(c, [cli[c] EXCEPT !.late = TRUE])
    /\ UNCHANGED <<jobVars, certVars>>

----------------------------------------------------------------------------
(* The job, in the daemon and the runner.                                  *)

Becomes(c, from, to) == job[c] \in from /\ job' = [job EXCEPT ![c] = to]

JobMoves(c) ==
    /\ \/ Becomes(c, {"queued"}, "waiting")
       \/ Becomes(c, {"waiting"}, "approved")
       \/ Becomes(c, {"queued"}, "plan_failed")
       \/ Becomes(c, {"waiting"}, "declined")
       \/ Becomes(c, {"waiting", "approved"}, "timed_out")
       \/ Becomes(c, {"queued", "waiting", "approved"}, "killed")
       \/ Becomes(c, {"queued", "waiting", "approved"}, "refused")
       \/ Becomes(c, {"claimed"}, "outcome_unknown")
    /\ UNCHANGED <<claim, effect, cli, certVars>>

\* The runner claims an approval, and works from then on whatever becomes of
\* the daemon.
ClaimJob(c) ==
    /\ Becomes(c, {"approved"}, "claimed")
    /\ claim' = [claim EXCEPT ![c] = "held"]
    /\ UNCHANGED <<effect, cli, certVars>>
Work(c) ==
    /\ claim[c] = "held"
    /\ effect' = [effect EXCEPT ![c] =
                     IF @ = "none" THEN "partly" ELSE "changed"]
    /\ effect[c] # "changed"
    /\ UNCHANGED <<job, claim, cli, certVars>>

\* The runner's report, taken only while the daemon has the job as claimed.  A
\* trust that was installed the daemon may still refuse, when the record it was
\* planned against is no longer there (finish_trusted).
Report(c) ==
    /\ claim[c] \in {"held", "failed"}
    /\ \E result \in {"trusted", "applied", "apply_failed", "outcome_unknown", "refused"} :
          /\ result \in {"trusted", "refused"} => kind[c] = "trust"
          /\ result \in {"applied", "outcome_unknown"} => kind[c] = "apply"
          /\ result \in {"trusted", "applied", "refused"} => effect[c] = "changed"
          /\ kind[c] = "trust" /\ effect[c] # "none" /\ result = "apply_failed"
                => claim[c] = "failed"
          /\ claim[c] = "failed" => result = "apply_failed"
          /\ job' = IF job[c] = "claimed" THEN [job EXCEPT ![c] = result] ELSE job
          /\ claim' = [claim EXCEPT ![c] =
                IF kind[c] = "apply" \/ effect[c] = "none" \/ job'[c] = "trusted"
                THEN "reported" ELSE "undoing"]
    /\ UNCHANGED <<effect, cli, certVars>>

\* install_undo.  An install that failed, or that a restart finds open, is
\* undone before the report; one that the daemon did not record, after the
\* answer to it.  It may fail, and is tried again when the runner starts.
Undo(c) ==
    /\ kind[c] = "trust" /\ effect[c] # "none"
    /\ \E left \in {"none", "partly", effect[c]} :
          /\ effect' = [effect EXCEPT ![c] = left]
          /\ \/ claim[c] = "held" /\ claim' = [claim EXCEPT ![c] = "failed"]
             \/ /\ claim[c] = "undoing"
                /\ claim' = [claim EXCEPT ![c] = IF left = "none" THEN "reported" ELSE @]
    /\ UNCHANGED <<job, cli, certVars>>

\* The daemon restarts: it knows no job and no request.
Forgets ==
    /\ job' = [c \in Commands |-> IF job[c] = "none" THEN "none" ELSE "forgotten"]
    /\ job' # job
    /\ UNCHANGED <<claim, effect, cli, certVars>>

----------------------------------------------------------------------------
(* SSH: a request, its window (the request `approved`), and the session's  *)
(* key, certificate file and agent.                                        *)

\* Session::public_key: the key is made once, the private half first; a
\* private half alone is never completed.
HaveKey(c, next) ==
    \/ keyFiles = "both" /\ To(c, next) /\ UNCHANGED keyFiles
    \/ keyFiles = "none" /\ keyFiles' = "both" /\ To(c, next)
    \/ keyFiles = "none" /\ keyFiles' \in {"none", "private"} /\ Exit(c, "Precondition")
    \/ keyFiles = "private" /\ Exit(c, "Precondition") /\ UNCHANGED keyFiles

Begin(c) ==
    /\ c \in CertCommands /\ At(c, "start")
    /\ CASE kind[c] = "request" -> HaveKey(c, "file")
         [] kind[c] = "renew"   -> HaveKey(c, "issue")
         [] kind[c] = "disavow" -> To(c, "drop") /\ UNCHANGED keyFiles
    /\ UNCHANGED <<jobVars, certFile, agent, crowded>>

FileRequest(c) ==
    /\ At(c, "file")
    /\ \/ job' = [job EXCEPT ![c] = "waiting"] /\ (To(c, "asked") \/ Exit(c, "RetryUnknown"))
       \/ UNCHANGED job /\ \E s \in Refusals \cup NoAnswer : Exit(c, s)
    /\ UNCHANGED <<claim, effect, certVars>>

\* request, one poll: no failure is forgiven here.
RequestPolled(c) ==
    /\ At(c, "asked")
    /\ \/ job[c] = "approved" /\ To(c, "issue")
       \/ job[c] = "waiting" /\ IF cli[c].late THEN Exit(c, "AuthDenied")
                                ELSE Goes(c, [cli[c] EXCEPT !.turn = ~@])
       \/ job[c] \in {"declined", "forgotten"} /\ Exit(c, "AuthDenied")
       \/ \E s \in NoAnswer : Exit(c, s)
    /\ UNCHANGED <<jobVars, certVars>>

\* The request is answered, lapses, or its window ends.
RequestMoves(c) ==
    /\ \/ Becomes(c, {"waiting"}, "approved")
       \/ Becomes(c, {"waiting", "approved"}, "declined")
    /\ UNCHANGED <<claim, effect, cli, certVars>>

\* load: the certificate, then the agent and the file, then the agent again.
Loading(c) == cli[c].step \in {"unload", "write", "add", "drop", "remove"}
Crowds(c) == crowded' = (crowded \/ \E d \in Commands \ {c} : Loading(d))

AskForCert(c) ==
    /\ At(c, "issue")
    /\ \/ /\ Goes(c, [cli[c] EXCEPT !.step = "unload", !.cert = c])
          /\ Crowds(c)
       \/ (\E s \in {"AuthNeedsHuman", "AuthDenied", "Permanent"} \cup NoAnswer :
              Exit(c, s)) /\ UNCHANGED crowded
    /\ UNCHANGED <<jobVars, keyFiles, certFile, agent>>

\* Session::remove_from_agent: ssh-add -d removes the key and the certificate
\* in the file; its failure is not looked at.
UnloadsNothing(c, next) == To(c, next) /\ UNCHANGED <<agent, crowded>>   \* wrong
Unloads(c, next) ==
    /\ \/ agent' = agent \ {certFile} /\ UNCHANGED crowded
       \/ UNCHANGED agent /\ crowded' = TRUE
    /\ To(c, next)
Unload(c) ==
    /\ At(c, "unload") /\ Unloads(c, "write")
    /\ UNCHANGED <<jobVars, keyFiles, certFile>>

WriteCert(c) ==
    /\ At(c, "write")
    /\ \/ certFile' = cli[c].cert /\ To(c, "add")
       \/ Exit(c, "Precondition") /\ UNCHANGED certFile
    /\ UNCHANGED <<jobVars, keyFiles, agent, crowded>>

\* ssh-add takes up whatever certificate the file holds by then.
AddToAgent(c) ==
    /\ At(c, "add")
    /\ \/ agent' = agent \cup ({certFile} \ {NoCert}) /\ Exit(c, "Ok")
       \/ UNCHANGED agent /\ Exit(c, "AuthRemediable")
    /\ UNCHANGED <<jobVars, keyFiles, certFile, crowded>>

\* disavow: here first, whatever the daemon answers afterwards.
Drop(c) ==
    /\ At(c, "drop")
    /\ \/ agent' = agent \ {certFile} /\ Crowds(c)
       \/ UNCHANGED agent /\ crowded' = TRUE
    /\ To(c, "remove")
    /\ UNCHANGED <<jobVars, keyFiles, certFile>>
RemoveFile(c) ==
    /\ At(c, "remove")
    /\ certFile' = NoCert
    /\ To(c, "kill")
    /\ UNCHANGED <<jobVars, keyFiles, agent, crowded>>
KillWindow(c) ==
    /\ At(c, "kill")
    /\ LET open == {d \in CertCommands : job[d] \in {"waiting", "approved"}}
       IN  \/ open # {} /\ Exit(c, "Ok")
              /\ job' = [d \in Commands |-> IF d \in open THEN "declined" ELSE job[d]]
           \/ open = {} /\ Exit(c, "Empty") /\ UNCHANGED job
           \/ (\E s \in NoAnswer : Exit(c, s)) /\ UNCHANGED job
    /\ UNCHANGED <<claim, effect, certVars>>

\* The agent lets go of a certificate at the end of its lifetime.
Expire ==
    /\ \E cert \in agent : agent' = agent \ {cert}
    /\ UNCHANGED <<cli, jobVars, keyFiles, certFile, crowded>>

\* The command is interrupted wherever it is.
Interrupt(c) ==
    /\ ~At(c, "end") /\ Exit(c, "interrupted")
    /\ UNCHANGED <<jobVars, certVars>>

----------------------------------------------------------------------------
ClientInit ==
    /\ kind \in Mixes
    /\ cli = [c \in Commands |-> IF kind[c] = "none" THEN [Started EXCEPT !.step = "end"]
                               ELSE Started]
    /\ job = [c \in Commands |-> "none"]
    /\ claim = [c \in Commands |-> "none"]
    /\ effect = [c \in Commands |-> "none"]
    /\ keyFiles = "none"
    /\ certFile = NoCert
    /\ agent = {}
    /\ crowded = FALSE

\* What a command does next by itself.
Proceed(c) ==
    \/ FileJob(c) \/ JobPolled(c)
    \/ Begin(c) \/ FileRequest(c) \/ RequestPolled(c)
    \/ AskForCert(c) \/ Unload(c) \/ WriteCert(c) \/ AddToAgent(c)
    \/ Drop(c) \/ RemoveFile(c) \/ KillWindow(c)

ClientActs ==
    \/ \E c \in Commands : Proceed(c) \/ Late(c) \/ Interrupt(c)
    \/ \E c \in JobCommands : JobMoves(c) \/ ClaimJob(c) \/ Work(c) \/ Report(c) \/ Undo(c)
    \/ \E c \in CertCommands : RequestMoves(c)
    \/ Forgets \/ Expire

ClientNext == ClientActs /\ UNCHANGED kind

ClientSpec == ClientInit /\ [][ClientNext]_clientVars

\* The command's own loop goes on and its deadline passes; the daemon, the
\* runner and the person owe it nothing.
ClientFairness ==
    \A c \in Commands : /\ WF_clientVars(Proceed(c) /\ UNCHANGED kind)
                        /\ WF_clientVars(Late(c) /\ UNCHANGED kind)
ClientFairSpec == ClientSpec /\ ClientFairness

----------------------------------------------------------------------------
(* Properties.                                                             *)

\* The types of the variables.
ClientTypeOK ==
    /\ kind \in Mixes
    /\ cli \in [Commands -> [step: Steps, failures: 0..PollFailures, late: BOOLEAN,
                             mayHaveRun: BOOLEAN, turn: BOOLEAN,
                             status: Statuses \cup {"running", "interrupted"},
                             said: {"nothing", "nothing ran"},
                             cert: Commands \cup {NoCert}]]
    /\ job \in [Commands -> States \cup Results]
    /\ claim \in [Commands -> Claims]
    /\ effect \in [Commands -> {"none", "partly", "changed"}]
    /\ keyFiles \in {"none", "private", "both"}
    /\ certFile \in Commands \cup {NoCert}
    /\ agent \subseteq Commands
    /\ crowded \in BOOLEAN

\* What an exit status tells the agent about its job is so, then and ever
\* after, whatever restarts, lost answers and failed polls came before: Ok means
\* the change was made, and a status that rules the job out (denied, refused,
\* plan failed, nothing was done) means nothing was changed and nothing will be.
\* But for one: a trust that the daemon refuses when it is reported is already
\* installed, and Permanent may be told before the runner has taken it back.
StatusIsTrue ==
    \A c \in JobCommands :
        /\ cli[c].status = "Ok" => effect[c] = "changed"
        /\ cli[c].status \in {"AuthDenied", "PlanFailed", "RetryClean", "RetryLater"}
              => effect[c] = "none"
        /\ cli[c].status = "Permanent"
              => effect[c] = "none" \/ (kind[c] = "trust" /\ claim[c] = "undoing")

\* The agent holds no certificate but the one in the session's file, so that
\* the next load or disavow can take it out ("a second ssh-add would leave it in
\* the agent as a separate identity"): once no command is at work on them,
\* unless two worked at a time or ssh-add -d failed.
AgentFollowsFile ==
    ~crowded /\ (\A c \in Commands : ~Loading(c)) => agent \subseteq {certFile}

\* Every command ends, though the daemon, the runner and the person may each
\* do nothing for ever.
EveryCommandEnds == <>(\A c \in Commands : At(c, "end"))

\* "Never approved here, so nothing ran on its strength" (bin/shoephone.rs in
\* wait_for_job): when the command says that nothing ran, nothing did.
NothingRanIsTrue ==
    \A c \in JobCommands : cli[c].said = "nothing ran" => effect[c] = "none"
============================================================================
