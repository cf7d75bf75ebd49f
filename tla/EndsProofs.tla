----------------------------- MODULE EndsProofs -----------------------------
(***************************************************************************)
(* Proofs about the two ends of the daemon's calls: the commands of an     *)
(* agent (Client), for every set of commands, every mix of them and every  *)
(* number of polls that may fail, and what the phones are told (Pushes),   *)
(* for every set of phones, whatever each wants.                           *)
(***************************************************************************)
EXTENDS Client, Pushes, FiniteSetTheorems, TLAPS


Records == [step: Steps, failures: 0..PollFailures, late: BOOLEAN,
            mayHaveRun: BOOLEAN, turn: BOOLEAN,
            status: Statuses \cup {"running", "interrupted"},
            said: {"nothing", "nothing ran"},
            cert: Commands \cup {NoCert}]

Ahead == {"queued", "waiting", "approved"}
Stopped == {"plan_failed", "declined", "timed_out", "killed"}
Done == {"trusted", "applied"}
RulesOut == {"AuthDenied", "PlanFailed", "RetryClean", "RetryLater"}

\* Nothing was changed, or the change was made, and no runner is at work.
AtRest == {"none", "reported"}
Untouched(c) == effect[c] = "none" /\ claim[c] \in AtRest
Made(c) == effect[c] = "changed" /\ claim[c] \in AtRest
\* The runner has yet to take back what the daemon refused.
TakingBack(c) == kind[c] = "trust" /\ claim[c] = "undoing"

\* Why a status stays true: a job that a status speaks of is neither held by
\* the runner nor on its way to it.
CommandInv(c) ==
    /\ cli[c].step \in {"start", "wait", "end"}
    /\ cli[c].step # "end" => cli[c].status = "running"
    /\ cli[c].step = "start" => job[c] = "none"
    /\ job[c] \in Ahead \cup {"none"} => effect[c] = "none" /\ claim[c] = "none"
    /\ job[c] \in Stopped => Untouched(c)
    /\ job[c] = "refused" => Untouched(c) \/ TakingBack(c)
    /\ job[c] \in Done => Made(c)
    /\ cli[c].status = "Ok" => Made(c) /\ job[c] \notin Ahead
    /\ cli[c].status \in RulesOut => Untouched(c) /\ job[c] \notin Ahead
    /\ cli[c].status = "Permanent" =>
          (Untouched(c) \/ TakingBack(c)) /\ job[c] \notin Ahead

ClientInv == ClientTypeOK /\ \A c \in JobCommands : CommandInv(c)

(***************************************************************************)
(* What a step of a command does to the record of it and of the others.    *)
(***************************************************************************)
LEMMA GoesTo ==
    ASSUME ClientTypeOK, NEW c \in Commands, NEW d \in Records, Goes(c, d)
    PROVE  /\ cli' \in [Commands -> Records]
           /\ cli'[c] = d
           /\ \A e \in Commands \ {c} : cli'[e] = cli[e]
<1>1. cli \in [Commands -> Records]
  BY DEF ClientTypeOK, Records
<1> QED
  BY <1>1 DEF Goes

LEMMA ToStep ==
    ASSUME ClientTypeOK, NEW c \in Commands, NEW step \in Steps, To(c, step)
    PROVE  /\ cli' \in [Commands -> Records]
           /\ cli'[c].step = step /\ cli'[c].status = cli[c].status
           /\ \A e \in Commands \ {c} : cli'[e] = cli[e]
<1> DEFINE d == [cli[c] EXCEPT !.step = step]
<1>1. cli[c] \in Records
  BY DEF ClientTypeOK, Records
<1>2. d \in Records /\ d.step = step /\ d.status = cli[c].status
  BY <1>1 DEF Records
<1>3. Goes(c, d)
  BY DEF To
<1> HIDE DEF d
<1> QED
  BY <1>2, <1>3, GoesTo

LEMMA ExitWith ==
    ASSUME ClientTypeOK, NEW c \in Commands,
           NEW status \in Statuses \cup {"interrupted"}, Exit(c, status)
    PROVE  /\ cli' \in [Commands -> Records]
           /\ cli'[c].step = "end" /\ cli'[c].status = status
           /\ \A e \in Commands \ {c} : cli'[e] = cli[e]
<1> DEFINE d == [cli[c] EXCEPT !.step = "end", !.status = status]
<1>1. cli[c] \in Records
  BY DEF ClientTypeOK, Records
<1>2. d \in Records /\ d.step = "end" /\ d.status = status
  BY <1>1 DEF Records, Steps
<1>3. Goes(c, d)
  BY DEF Exit
<1> HIDE DEF d
<1> QED
  BY <1>2, <1>3, GoesTo

\* A job command that nothing touches keeps its part of the invariant.
LEMMA Kept ==
    ASSUME NEW c, CommandInv(c), cli'[c] = cli[c],
           UNCHANGED <<kind, job[c], claim[c], effect[c]>>
    PROVE  CommandInv(c)'
BY DEF CommandInv, Untouched, Made, TakingBack, AtRest

\* A step that concerns one command alone.
LEMMA OneMoves ==
    ASSUME ClientInv, NEW c \in Commands, UNCHANGED kind, ClientTypeOK',
           \A e \in Commands \ {c} :
               cli'[e] = cli[e] /\ UNCHANGED <<job[e], claim[e], effect[e]>>,
           c \in JobCommands => CommandInv(c)'
    PROVE  ClientInv'
<1>1. JobCommands' = JobCommands /\ JobCommands \subseteq Commands
  BY DEF JobCommands
<1>2. ASSUME NEW e \in JobCommands PROVE CommandInv(e)'
  <2>1. CASE e = c
    BY <2>1
  <2>2. CASE e # c
    <3>1. CommandInv(e)
      BY DEF ClientInv
    <3> QED
      BY <2>2, <3>1, <1>1, Kept
  <2> QED
    BY <2>1, <2>2
<1> QED
  BY <1>1, <1>2 DEF ClientInv

\* A step of a command that has no job.
LEMMA CertMoves ==
    ASSUME ClientInv, NEW c \in Commands \ JobCommands, UNCHANGED kind, ClientTypeOK',
           \A e \in Commands \ {c} : cli'[e] = cli[e],
           \A e \in JobCommands : UNCHANGED <<job[e], claim[e], effect[e]>>
    PROVE  ClientInv'
<1>1. JobCommands' = JobCommands /\ JobCommands \subseteq Commands
  BY DEF JobCommands
<1>2. ASSUME NEW e \in JobCommands PROVE CommandInv(e)'
  <2>1. CommandInv(e)
    BY DEF ClientInv
  <2> QED
    BY <2>1, <1>1, Kept
<1> QED
  BY <1>1, <1>2 DEF ClientInv

(***************************************************************************)
(* One lemma per action of a command with a job.                           *)
(***************************************************************************)
\* The state and the part of the invariant of a command with a job.
LEMMA JobFacts ==
    ASSUME ClientInv, NEW c \in JobCommands
    PROVE  c \in Commands /\ CommandInv(c) /\ ClientTypeOK /\ cli[c] \in Records
BY DEF ClientInv, JobCommands, ClientTypeOK, Records

\* A job record changes in the daemon or the runner, the command does not.
LEMMA JobChanges ==
    ASSUME ClientInv, NEW c \in JobCommands, UNCHANGED <<kind, cli, certVars>>,
           NEW j \in States \cup Results, job' = [job EXCEPT ![c] = j],
           NEW k \in Claims, claim' = [claim EXCEPT ![c] = k],
           NEW f \in {"none", "partly", "changed"}, effect' = [effect EXCEPT ![c] = f],
           j = "none" => job[c] = "none",
           j \in Ahead \cup {"none"} => f = "none" /\ k = "none",
           j \in Stopped => f = "none" /\ k \in AtRest,
           j = "refused" =>
               (f = "none" /\ k \in AtRest) \/ (kind[c] = "trust" /\ k = "undoing"),
           j \in Done => f = "changed" /\ k \in AtRest,
           job[c] # "none",
           cli[c].status = "Ok" => f = "changed" /\ k \in AtRest /\ j \notin Ahead,
           cli[c].status \in RulesOut => f = "none" /\ k \in AtRest /\ j \notin Ahead,
           cli[c].status = "Permanent" =>
               /\ (f = "none" /\ k \in AtRest) \/ (kind[c] = "trust" /\ k = "undoing")
               /\ j \notin Ahead
    PROVE  ClientInv'
<1>1. c \in Commands /\ CommandInv(c) /\ ClientTypeOK
  BY JobFacts
<1>2. /\ job \in [Commands -> States \cup Results]
      /\ claim \in [Commands -> Claims]
      /\ effect \in [Commands -> {"none", "partly", "changed"}]
  BY <1>1 DEF ClientTypeOK
<1>3. /\ job' \in [Commands -> States \cup Results]
      /\ claim' \in [Commands -> Claims]
      /\ effect' \in [Commands -> {"none", "partly", "changed"}]
  BY <1>1, <1>2
<1>4. job'[c] = j /\ claim'[c] = k /\ effect'[c] = f
  BY <1>1, <1>2
<1>5. \A e \in Commands \ {c} : UNCHANGED <<job[e], claim[e], effect[e]>>
  BY <1>1, <1>2
<1>6. ClientTypeOK'
  BY <1>1, <1>3 DEF ClientTypeOK, certVars
<1>7. CommandInv(c)'
  BY <1>1, <1>4 DEF CommandInv, Untouched, Made, TakingBack, AtRest
<1> QED
  BY <1>1, <1>5, <1>6, <1>7, OneMoves

\* A command with a job goes on, and nothing else does.
LEMMA CommandGoesOn ==
    ASSUME ClientInv, NEW c \in JobCommands, UNCHANGED <<kind, jobVars, certVars>>,
           NEW d \in Records, Goes(c, d), cli[c].step = "wait",
           d.step \in {"wait", "end"},
           d.step = "wait" => d.status = "running",
           d.status = "Ok" => Made(c) /\ job[c] \notin Ahead,
           d.status \in RulesOut => Untouched(c) /\ job[c] \notin Ahead,
           d.status = "Permanent" => (Untouched(c) \/ TakingBack(c)) /\ job[c] \notin Ahead
    PROVE  ClientInv'
<1>1. c \in Commands /\ CommandInv(c) /\ ClientTypeOK
  BY JobFacts
<1>2. /\ cli' \in [Commands -> Records] /\ cli'[c] = d
      /\ \A e \in Commands \ {c} : cli'[e] = cli[e]
  BY <1>1, GoesTo
<1>3. ClientTypeOK'
  BY <1>1, <1>2 DEF ClientTypeOK, Records, jobVars, certVars
<1>4. CommandInv(c)'
  BY <1>1, <1>2 DEF CommandInv, Untouched, Made, TakingBack, AtRest, jobVars
<1> QED
  BY <1>1, <1>2, <1>3, <1>4, OneMoves DEF jobVars

\* A wait that ends with a status.
LEMMA WaitEnds ==
    ASSUME ClientInv, NEW c \in JobCommands, UNCHANGED <<kind, jobVars, certVars>>,
           NEW status \in Statuses, Exit(c, status), cli[c].step = "wait",
           status = "Ok" => Made(c) /\ job[c] \notin Ahead,
           status \in RulesOut => Untouched(c) /\ job[c] \notin Ahead,
           status = "Permanent" => (Untouched(c) \/ TakingBack(c)) /\ job[c] \notin Ahead
    PROVE  ClientInv'
<1> DEFINE d == [cli[c] EXCEPT !.step = "end", !.status = status]
<1>1. cli[c] \in Records
  BY JobFacts
<1>2. d \in Records /\ d.step = "end" /\ d.status = status
  BY <1>1 DEF Records, Steps
<1>3. Goes(c, d)
  BY DEF Exit
<1> HIDE DEF d
<1> QED
  BY <1>2, <1>3, CommandGoesOn

\* A filed job is as yet untouched, and one that was refused stays unfiled.
LEMMA FileJobStep ==
    ASSUME ClientInv, NEW c \in Commands, FileJob(c), UNCHANGED kind
    PROVE  ClientInv'
<1>1. c \in JobCommands /\ cli[c].step = "start"
  BY DEF FileJob, At
<1>2. c \in Commands /\ CommandInv(c) /\ ClientTypeOK
  BY <1>1, JobFacts
<1>3. job[c] = "none" /\ claim[c] = "none" /\ effect[c] = "none" /\ cli[c].status = "running"
  BY <1>1, <1>2 DEF CommandInv
<1>4. UNCHANGED <<claim, effect, certVars>>
  BY DEF FileJob
<1>5. job \in [Commands -> States \cup Results]
  BY <1>2 DEF ClientTypeOK
<1>6. CASE job' = [job EXCEPT ![c] = "queued"] /\ To(c, "wait")
  <2>1. /\ cli' \in [Commands -> Records]
        /\ cli'[c].step = "wait" /\ cli'[c].status = "running"
        /\ \A e \in Commands \ {c} : cli'[e] = cli[e]
    BY <1>2, <1>3, <1>6, ToStep DEF Steps
  <2>2. /\ job' \in [Commands -> States \cup Results] /\ job'[c] = "queued"
        /\ \A e \in Commands \ {c} : job'[e] = job[e]
    BY <1>2, <1>5, <1>6 DEF States
  <2>3. ClientTypeOK'
    BY <1>2, <1>4, <2>1, <2>2 DEF ClientTypeOK, Records, certVars
  <2>4. CommandInv(c)'
    BY <1>3, <1>4, <2>1, <2>2
    DEF CommandInv, Untouched, Made, TakingBack, AtRest, Ahead, Stopped, Done, RulesOut
  <2> QED
    BY <1>4, <2>1, <2>2, <2>3, <2>4, OneMoves
<1>7. CASE job' = [job EXCEPT ![c] = "queued"] /\ Exit(c, "RetryUnknown")
  <2>1. /\ cli' \in [Commands -> Records]
        /\ cli'[c].step = "end" /\ cli'[c].status = "RetryUnknown"
        /\ \A e \in Commands \ {c} : cli'[e] = cli[e]
    BY <1>2, <1>7, ExitWith DEF Statuses
  <2>2. /\ job' \in [Commands -> States \cup Results] /\ job'[c] = "queued"
        /\ \A e \in Commands \ {c} : job'[e] = job[e]
    BY <1>2, <1>5, <1>7 DEF States
  <2>3. ClientTypeOK'
    BY <1>2, <1>4, <2>1, <2>2 DEF ClientTypeOK, Records, certVars
  <2>4. CommandInv(c)'
    BY <1>3, <1>4, <2>1, <2>2
    DEF CommandInv, Untouched, Made, TakingBack, AtRest, Ahead, Stopped, Done, RulesOut
  <2> QED
    BY <1>4, <2>1, <2>2, <2>3, <2>4, OneMoves
<1>8. ASSUME UNCHANGED job, NEW s \in Refusals \cup NoAnswer, Exit(c, s)
      PROVE  ClientInv'
  <2>1. s \in Statuses /\ s # "Ok"
    BY DEF Refusals, NoAnswer, Statuses
  <2>2. /\ cli' \in [Commands -> Records]
        /\ cli'[c].step = "end" /\ cli'[c].status = s
        /\ \A e \in Commands \ {c} : cli'[e] = cli[e]
    BY <1>2, <1>8, <2>1, ExitWith
  <2>3. ClientTypeOK'
    BY <1>2, <1>4, <1>8, <2>2 DEF ClientTypeOK, Records, certVars
  <2>4. CommandInv(c)'
    BY <1>3, <1>4, <1>8, <2>1, <2>2
    DEF CommandInv, Untouched, Made, TakingBack, AtRest, Ahead, Stopped, Done, RulesOut
  <2> QED
    BY <1>2, <1>4, <1>8, <2>2, <2>3, <2>4, OneMoves
<1> QED
  BY <1>6, <1>7, <1>8 DEF FileJob

\* A poll that settles nothing, or finds the wait over, rules nothing out.
LEMMA BackstopStep ==
    ASSUME ClientInv, NEW c \in JobCommands, UNCHANGED <<kind, jobVars, certVars>>,
           cli[c].step = "wait", NEW d \in Records, Backstop(c, d),
           d.step = "wait", d.status = "running"
    PROVE  ClientInv'
<1>1. CASE d.late
  <2> DEFINE e == [d EXCEPT !.step = "end", !.status = "RetryUnknown"]
  <2>1. e \in Records /\ e.step = "end" /\ e.status = "RetryUnknown"
    BY DEF Records, Steps, Statuses
  <2>2. Goes(c, e)
    BY <1>1 DEF Backstop
  <2> HIDE DEF e
  <2> QED
    BY <2>1, <2>2, CommandGoesOn DEF RulesOut
<1>2. CASE ~d.late
  BY <1>2, CommandGoesOn DEF Backstop, RulesOut
<1> QED
  BY <1>1, <1>2

\* One poll: a result is reported as it is.
LEMMA JobPolledStep ==
    ASSUME ClientInv, NEW c \in Commands, JobPolled(c), UNCHANGED kind
    PROVE  ClientInv'
<1>1. c \in JobCommands /\ cli[c].step = "wait" /\ UNCHANGED <<jobVars, certVars>>
  BY DEF JobPolled, At
<1>2. CommandInv(c) /\ cli[c] \in Records
  BY <1>1, JobFacts
<1>3. cli[c].status = "running"
  BY <1>1, <1>2 DEF CommandInv
<1>4. CASE job[c] \in Results /\ Exit(c, Reported(job[c]))
  <2>1. Reported(job[c]) \in Statuses /\ job[c] \notin Ahead
    BY <1>4 DEF Reported, Results, Statuses, Ahead
  <2>2. Reported(job[c]) = "Ok" => Made(c)
    BY <1>2, <1>4 DEF CommandInv, Reported, Results, Done
  <2>3. Reported(job[c]) \in RulesOut => Untouched(c)
    BY <1>2, <1>4 DEF CommandInv, Reported, Results, Stopped, RulesOut
  <2>4. Reported(job[c]) = "Permanent" => Untouched(c) \/ TakingBack(c)
    BY <1>2, <1>4 DEF CommandInv, Reported, Results
  <2> QED
    BY <1>1, <1>4, <2>1, <2>2, <2>3, <2>4, WaitEnds
<1>5. CASE Backstop(c, [cli[c] EXCEPT !.failures = 0, !.turn = ~@,
                           !.mayHaveRun = @ \/ job[c] \in {"approved", "claimed"}])
  <2> DEFINE d == [cli[c] EXCEPT !.failures = 0, !.turn = ~cli[c].turn,
                      !.mayHaveRun = cli[c].mayHaveRun \/ job[c] \in {"approved", "claimed"}]
  <2>1. 0 \in 0..PollFailures
    BY ClientAssumption
  <2>2. d \in Records /\ d.step = "wait" /\ d.status = "running"
    BY <1>1, <1>2, <1>3, <2>1 DEF Records
  <2>3. Backstop(c, d)
    BY <1>5
  <2> HIDE DEF d
  <2> QED
    BY <1>1, <2>2, <2>3, BackstopStep
<1>6. CASE Exit(c, "OutcomeUnknown") \/ Exit(c, "RetryUnknown")
  BY <1>1, <1>6, WaitEnds DEF Statuses, RulesOut
<1>7. CASE Goes(c, [cli[c] EXCEPT !.step = "end", !.status = "RetryUnknown",
                                   !.said = "nothing ran"])
  <2> DEFINE d == [cli[c] EXCEPT !.step = "end", !.status = "RetryUnknown",
                                 !.said = "nothing ran"]
  <2>1. d \in Records /\ d.step = "end" /\ d.status = "RetryUnknown"
    BY <1>2 DEF Records, Steps, Statuses
  <2>2. Goes(c, d)
    BY <1>7
  <2> HIDE DEF d
  <2> QED
    BY <1>1, <2>1, <2>2, CommandGoesOn DEF RulesOut
<1>8. CASE cli[c].failures < PollFailures /\ Backstop(c, [cli[c] EXCEPT !.failures = @ + 1])
  <2> DEFINE d == [cli[c] EXCEPT !.failures = cli[c].failures + 1]
  <2>1. cli[c].failures \in 0..PollFailures
    BY <1>2 DEF Records
  <2>2. cli[c].failures + 1 \in 0..PollFailures
    BY <1>8, <2>1, ClientAssumption
  <2>3. d \in Records /\ d.step = "wait" /\ d.status = "running"
    BY <1>1, <1>2, <1>3, <2>2 DEF Records
  <2>4. Backstop(c, d)
    BY <1>8
  <2> HIDE DEF d
  <2> QED
    BY <1>1, <2>3, <2>4, BackstopStep
<1>9. ASSUME NEW s \in NoAnswer, Exit(c, s) PROVE ClientInv'
  BY <1>1, <1>9, WaitEnds DEF NoAnswer, Statuses, RulesOut
<1> QED
  BY <1>4, <1>5, <1>6, <1>7, <1>8, <1>9 DEF JobPolled

\* The daemon's own steps of a job: before a claim nothing has been done, and
\* after one only the claim's report says so.
LEMMA JobMovesStep ==
    ASSUME ClientInv, NEW c \in JobCommands, JobMoves(c), UNCHANGED kind
    PROVE  ClientInv'
<1>1. UNCHANGED <<claim, effect, cli, certVars>>
  BY DEF JobMoves
<1>2. CommandInv(c) /\ ClientTypeOK /\ c \in Commands
  BY JobFacts
<1>3. /\ claim[c] \in Claims /\ claim' = [claim EXCEPT ![c] = claim[c]]
      /\ effect[c] \in {"none", "partly", "changed"}
      /\ effect' = [effect EXCEPT ![c] = effect[c]]
  BY <1>1, <1>2 DEF ClientTypeOK
<1>4. ASSUME NEW to \in {"waiting", "approved", "plan_failed", "declined", "timed_out",
                         "killed", "refused"},
             Becomes(c, Ahead, to)
      PROVE  ClientInv'
  <2>1. job[c] \in Ahead /\ job' = [job EXCEPT ![c] = to] /\ job[c] # "none"
    BY <1>4 DEF Becomes, Ahead
  <2>2. effect[c] = "none" /\ claim[c] = "none"
    BY <1>2, <2>1 DEF CommandInv
  <2>3. cli[c].status \notin RulesOut \cup {"Ok", "Permanent"}
    BY <1>2, <2>1 DEF CommandInv
  <2>4. to \in States \cup Results /\ to # "none" /\ to \notin Done
    BY DEF States, Results, Done
  <2> QED
    BY <1>1, <1>3, <2>1, <2>2, <2>3, <2>4, JobChanges DEF AtRest
<1>5. CASE Becomes(c, {"claimed"}, "outcome_unknown")
  <2>1. job[c] = "claimed" /\ job' = [job EXCEPT ![c] = "outcome_unknown"]
    BY <1>5 DEF Becomes
  <2>2. /\ "outcome_unknown" \in States \cup Results
        /\ "outcome_unknown" \notin Ahead \cup {"none", "refused"} \cup Stopped \cup Done
    BY DEF Results, Ahead, Stopped, Done
  <2>3. /\ cli[c].status = "Ok" => effect[c] = "changed" /\ claim[c] \in AtRest
        /\ cli[c].status \in RulesOut => effect[c] = "none" /\ claim[c] \in AtRest
        /\ cli[c].status = "Permanent" =>
              \/ effect[c] = "none" /\ claim[c] \in AtRest
              \/ kind[c] = "trust" /\ claim[c] = "undoing"
    BY <1>2 DEF CommandInv, Made, Untouched, TakingBack
  <2> QED
    BY <1>1, <1>3, <2>1, <2>2, <2>3, JobChanges
<1>6. \A from, to : from \subseteq Ahead /\ Becomes(c, from, to) => Becomes(c, Ahead, to)
  BY DEF Becomes
<1>7. /\ {"queued"} \subseteq Ahead /\ {"waiting"} \subseteq Ahead
      /\ {"waiting", "approved"} \subseteq Ahead
      /\ {"queued", "waiting", "approved"} \subseteq Ahead
  BY DEF Ahead
<1> QED
  BY <1>4, <1>5, <1>6, <1>7 DEF JobMoves

\* A deadline passes: what the command keeps of the job is as it was.
LEMMA LateStep ==
    ASSUME ClientInv, NEW c \in Commands, Late(c), UNCHANGED kind
    PROVE  ClientInv'
<1> DEFINE d == [cli[c] EXCEPT !.late = TRUE]
<1>1. ClientTypeOK /\ cli[c] \in Records /\ UNCHANGED <<jobVars, certVars>>
  BY DEF ClientInv, ClientTypeOK, Records, Late
<1>2. d \in Records /\ d.step = cli[c].step /\ d.status = cli[c].status
  BY <1>1 DEF Records
<1>3. Goes(c, d)
  BY DEF Late
<1> HIDE DEF d
<1>4. /\ cli' \in [Commands -> Records] /\ cli'[c] = d
      /\ \A e \in Commands \ {c} : cli'[e] = cli[e]
  BY <1>1, <1>2, <1>3, GoesTo
<1>5. ClientTypeOK'
  BY <1>1, <1>4 DEF ClientTypeOK, Records, jobVars, certVars
<1>6. ASSUME c \in JobCommands PROVE CommandInv(c)'
  BY <1>1, <1>2, <1>4, <1>6
  DEF ClientInv, CommandInv, Untouched, Made, TakingBack, AtRest, jobVars
<1> QED
  BY <1>1, <1>4, <1>5, <1>6, OneMoves DEF jobVars

\* An interrupted command says nothing of its job.
LEMMA InterruptStep ==
    ASSUME ClientInv, NEW c \in Commands, Interrupt(c), UNCHANGED kind
    PROVE  ClientInv'
<1>1. ClientTypeOK /\ UNCHANGED <<jobVars, certVars>>
  BY DEF ClientInv, Interrupt
<1>2. /\ cli' \in [Commands -> Records]
      /\ cli'[c].step = "end" /\ cli'[c].status = "interrupted"
      /\ \A e \in Commands \ {c} : cli'[e] = cli[e]
  BY <1>1, ExitWith DEF Interrupt
<1>3. ClientTypeOK'
  BY <1>1, <1>2 DEF ClientTypeOK, Records, jobVars, certVars
<1>4. ASSUME c \in JobCommands PROVE CommandInv(c)'
  BY <1>1, <1>2, <1>4
  DEF ClientInv, CommandInv, Untouched, Made, TakingBack, AtRest, RulesOut, jobVars
<1> QED
  BY <1>1, <1>2, <1>3, <1>4, OneMoves DEF jobVars

\* Only commands with jobs have claims, and an approval is none of theirs
\* once a status rules the job out.
LEMMA ClaimJobStep ==
    ASSUME ClientInv, NEW c \in JobCommands, ClaimJob(c), UNCHANGED kind
    PROVE  ClientInv'
<1>1. CommandInv(c) /\ ClientTypeOK /\ c \in Commands
  BY JobFacts
<1>2. /\ job[c] = "approved" /\ job' = [job EXCEPT ![c] = "claimed"]
      /\ claim' = [claim EXCEPT ![c] = "held"] /\ UNCHANGED <<effect, cli, certVars>>
  BY DEF ClaimJob, Becomes
<1>3. /\ effect[c] \in {"none", "partly", "changed"}
      /\ effect' = [effect EXCEPT ![c] = effect[c]]
  BY <1>1, <1>2 DEF ClientTypeOK
<1>4. cli[c].status \notin RulesOut \cup {"Ok", "Permanent"}
  BY <1>1, <1>2 DEF CommandInv, Ahead
<1>5. /\ "claimed" \in States \cup Results /\ "held" \in Claims
      /\ "claimed" \notin Ahead \cup {"none", "refused"} \cup Stopped \cup Done
  BY DEF States, Claims, Ahead, Stopped, Done
<1> QED
  BY <1>2, <1>3, <1>4, <1>5, JobChanges

\* The runner works only while it holds the claim.
LEMMA WorkStep ==
    ASSUME ClientInv, NEW c \in JobCommands, Work(c), UNCHANGED kind
    PROVE  ClientInv'
<1>1. CommandInv(c) /\ ClientTypeOK /\ c \in Commands
  BY JobFacts
<1>2. claim[c] = "held" /\ UNCHANGED <<job, claim, cli, certVars>>
  BY DEF Work
<1>3. PICK f \in {"none", "partly", "changed"} : effect' = [effect EXCEPT ![c] = f]
  BY <1>1 DEF Work, ClientTypeOK
<1>4. /\ job[c] \in States \cup Results /\ job' = [job EXCEPT ![c] = job[c]]
      /\ claim' = [claim EXCEPT ![c] = "held"]
  BY <1>1, <1>2 DEF ClientTypeOK
<1>5. /\ job[c] \notin Ahead \cup {"none", "refused"} \cup Stopped \cup Done
      /\ "held" \in Claims
  BY <1>1, <1>2 DEF CommandInv, Untouched, Made, TakingBack, AtRest, Claims
<1>6. cli[c].status \notin RulesOut \cup {"Ok", "Permanent"}
  BY <1>1, <1>2 DEF CommandInv, Untouched, Made, TakingBack, AtRest
<1> QED
  BY <1>2, <1>3, <1>4, <1>5, <1>6, JobChanges

\* A report ends the claim with what was done; of an install that the daemon
\* did not record it leaves the runner one to take back.
LEMMA ReportStep ==
    ASSUME ClientInv, NEW c \in JobCommands, Report(c), UNCHANGED kind
    PROVE  ClientInv'
<1>1. CommandInv(c) /\ ClientTypeOK /\ c \in Commands
  BY JobFacts
<1>2. claim[c] \in {"held", "failed"} /\ UNCHANGED <<effect, cli, certVars>>
  BY DEF Report
<1> DEFINE given(result) == IF job[c] = "claimed" THEN result ELSE job[c]
           left(result) == IF kind[c] = "apply" \/ effect[c] = "none"
                              \/ given(result) = "trusted"
                           THEN "reported" ELSE "undoing"
<1>3. PICK result \in {"trusted", "applied", "apply_failed", "outcome_unknown", "refused"} :
        /\ result \in {"trusted", "refused"} => kind[c] = "trust"
        /\ result \in {"trusted", "applied", "refused"} => effect[c] = "changed"
        /\ result = "applied" => kind[c] = "apply"
        /\ job' = IF job[c] = "claimed" THEN [job EXCEPT ![c] = result] ELSE job
        /\ claim' = [claim EXCEPT ![c] =
              IF kind[c] = "apply" \/ effect[c] = "none" \/ job'[c] = "trusted"
              THEN "reported" ELSE "undoing"]
  BY DEF Report
<1>4. job[c] \notin Ahead \cup {"none", "refused"} \cup Stopped \cup Done
  BY <1>1, <1>2 DEF CommandInv, Untouched, Made, TakingBack, AtRest
<1>5. cli[c].status \notin RulesOut \cup {"Ok", "Permanent"}
  BY <1>1, <1>2 DEF CommandInv, Untouched, Made, TakingBack, AtRest
<1>6. /\ given(result) \in States \cup Results
      /\ job' = [job EXCEPT ![c] = given(result)] /\ job'[c] = given(result)
      /\ effect[c] \in {"none", "partly", "changed"}
      /\ effect' = [effect EXCEPT ![c] = effect[c]]
  <2>1. job \in [Commands -> States \cup Results]
        /\ effect \in [Commands -> {"none", "partly", "changed"}]
    BY <1>1 DEF ClientTypeOK
  <2> QED
    BY <1>1, <1>2, <1>3, <2>1 DEF Results
<1>7. claim' = [claim EXCEPT ![c] = left(result)] /\ left(result) \in {"reported", "undoing"}
  BY <1>3, <1>6
<1>8. kind[c] \in {"trust", "apply"}
  BY DEF JobCommands
<1>9. /\ given(result) \notin Ahead \cup {"none"} \cup Stopped
      /\ given(result) = "refused" => kind[c] = "trust" /\ left(result) = "undoing"
      /\ given(result) \in Done => effect[c] = "changed" /\ left(result) = "reported"
  <2>1. CASE job[c] = "claimed"
    BY <1>3, <1>8, <2>1 DEF Ahead, Stopped, Done
  <2>2. CASE job[c] # "claimed"
    BY <1>4, <2>2
  <2> QED
    BY <2>1, <2>2
<1> HIDE DEF given, left
<1>10. left(result) \in Claims /\ (left(result) = "reported" => left(result) \in AtRest)
  BY <1>7 DEF Claims, AtRest
<1> QED
  BY <1>2, <1>4, <1>5, <1>6, <1>7, <1>9, <1>10, JobChanges

\* What is taken back is not what a status says was made, and once it is all
\* taken back nothing was changed.
LEMMA UndoStep ==
    ASSUME ClientInv, NEW c \in JobCommands, Undo(c), UNCHANGED kind
    PROVE  ClientInv'
<1>1. CommandInv(c) /\ ClientTypeOK /\ c \in Commands
  BY JobFacts
<1>2. kind[c] = "trust" /\ UNCHANGED <<job, cli, certVars>>
  BY DEF Undo
<1>3. PICK left \in {"none", "partly", effect[c]} :
        /\ effect' = [effect EXCEPT ![c] = left]
        /\ \/ claim[c] = "held" /\ claim' = [claim EXCEPT ![c] = "failed"]
           \/ /\ claim[c] = "undoing"
              /\ claim' = [claim EXCEPT ![c] = IF left = "none" THEN "reported"
                                               ELSE "undoing"]
  <2>1. claim \in [Commands -> Claims]
    BY <1>1 DEF ClientTypeOK
  <2> QED
    BY <1>1, <2>1 DEF Undo
<1>4. left \in {"none", "partly", "changed"}
  BY <1>1, <1>3 DEF ClientTypeOK
<1>5. job[c] \in States \cup Results /\ job' = [job EXCEPT ![c] = job[c]]
  BY <1>1, <1>2 DEF ClientTypeOK
<1>6. job[c] \notin Ahead \cup {"none"} \cup Stopped \cup Done
  BY <1>1, <1>3 DEF CommandInv, Untouched, Made, AtRest
<1>7. cli[c].status \notin RulesOut \cup {"Ok"}
  BY <1>1, <1>3 DEF CommandInv, Untouched, Made, AtRest
<1>8. CASE claim[c] = "held" /\ claim' = [claim EXCEPT ![c] = "failed"]
  <2>1. job[c] # "refused" /\ cli[c].status # "Permanent"
    BY <1>1, <1>8 DEF CommandInv, Untouched, TakingBack, AtRest
  <2>2. "failed" \in Claims
    BY DEF Claims
  <2> QED
    BY <1>2, <1>3, <1>4, <1>5, <1>6, <1>7, <1>8, <2>1, <2>2, JobChanges
<1>9. CASE claim[c] = "undoing"
  <2> DEFINE k == IF left = "none" THEN "reported" ELSE "undoing"
  <2>1. claim' = [claim EXCEPT ![c] = k] /\ k \in Claims
    BY <1>3, <1>9 DEF Claims
  <2>2. (left = "none" /\ k \in AtRest) \/ (kind[c] = "trust" /\ k = "undoing")
    BY <1>2 DEF AtRest
  <2>3. cli[c].status = "Permanent" => job[c] \notin Ahead
    BY <1>1 DEF CommandInv
  <2> HIDE DEF k
  <2> QED
    BY <1>2, <1>3, <1>4, <1>5, <1>6, <1>7, <2>1, <2>2, <2>3, JobChanges
<1> QED
  BY <1>3, <1>8, <1>9

\* A restart forgets jobs; what was done and who is at work stay as they are.
LEMMA ForgetsStep ==
    ASSUME ClientInv, Forgets, UNCHANGED kind
    PROVE  ClientInv'
<1>1. ClientTypeOK /\ UNCHANGED <<claim, effect, cli, certVars>>
  BY DEF ClientInv, Forgets
<1>2. job' \in [Commands -> States \cup Results]
  BY DEF Forgets, States
<1>3. ClientTypeOK'
  BY <1>1, <1>2 DEF ClientTypeOK, certVars
<1>4. ASSUME NEW c \in JobCommands PROVE CommandInv(c)'
  <2>1. c \in Commands /\ CommandInv(c)
    BY JobFacts
  <2>2. job'[c] = IF job[c] = "none" THEN "none" ELSE "forgotten"
    BY <2>1 DEF Forgets
  <2>3. "forgotten" \notin Ahead \cup {"none"} \cup Stopped \cup Done
    BY DEF Ahead, Stopped, Done
  <2>4. CASE job[c] = "none"
    BY <1>1, <2>1, <2>2, <2>4 DEF CommandInv, Untouched, Made, TakingBack, AtRest
  <2>5. CASE job[c] # "none"
    BY <1>1, <2>1, <2>2, <2>3, <2>5 DEF CommandInv, Untouched, Made, TakingBack, AtRest
  <2> QED
    BY <2>4, <2>5
<1> QED
  BY <1>3, <1>4 DEF ClientInv, JobCommands

(***************************************************************************)
(* The commands that work on the certificate have no job, and leave those  *)
(* of the others alone.                                                    *)
(***************************************************************************)
LEMMA NoJob ==
    ASSUME ClientInv, NEW c \in Commands,
           \/ c \in CertCommands
           \/ cli[c].step \in {"file", "asked", "issue", "unload", "write", "add",
                               "drop", "remove", "kill"}
    PROVE  c \in Commands \ JobCommands
<1>1. c \in JobCommands => cli[c].step \in {"start", "wait", "end"}
  BY DEF ClientInv, CommandInv
<1>2. c \in CertCommands => c \notin JobCommands
  BY DEF CertCommands, JobCommands
<1> QED
  BY <1>1, <1>2

\* A command on the certificate takes a step of its own; another's job stays.
LEMMA CertStep ==
    ASSUME ClientInv, NEW c \in Commands \ JobCommands, UNCHANGED <<kind, claim, effect>>,
           cli' \in [Commands -> Records], \A e \in Commands \ {c} : cli'[e] = cli[e],
           job' \in [Commands -> States \cup Results],
           \A e \in JobCommands : job'[e] = job[e],
           keyFiles' \in {"none", "private", "both"}, certFile' \in Commands \cup {NoCert},
           agent' \subseteq Commands, crowded' \in BOOLEAN
    PROVE  ClientInv'
<1>1. ClientTypeOK'
  BY DEF ClientInv, ClientTypeOK, Records
<1> QED
  BY <1>1, CertMoves

\* What the types say of the certificate's state.
LEMMA CertFacts ==
    ASSUME ClientInv
    PROVE  /\ ClientTypeOK /\ cli \in [Commands -> Records]
           /\ job \in [Commands -> States \cup Results]
           /\ keyFiles \in {"none", "private", "both"} /\ certFile \in Commands \cup {NoCert}
           /\ agent \subseteq Commands /\ crowded \in BOOLEAN
BY DEF ClientInv, ClientTypeOK, Records

\* A command goes on to a step or ends with a status, its record well typed.
LEMMA Onward ==
    ASSUME ClientInv, NEW c \in Commands,
           \/ \E step \in Steps : To(c, step)
           \/ \E status \in Statuses : Exit(c, status)
    PROVE  cli' \in [Commands -> Records] /\ \A e \in Commands \ {c} : cli'[e] = cli[e]
<1>1. ClientTypeOK
  BY DEF ClientInv
<1>2. ASSUME NEW step \in Steps, To(c, step)
      PROVE  cli' \in [Commands -> Records] /\ \A e \in Commands \ {c} : cli'[e] = cli[e]
  BY <1>1, <1>2, ToStep
<1>3. ASSUME NEW status \in Statuses, Exit(c, status)
      PROVE  cli' \in [Commands -> Records] /\ \A e \in Commands \ {c} : cli'[e] = cli[e]
  BY <1>1, <1>3, ExitWith
<1> QED
  BY <1>2, <1>3

\* The steps of `request`, `renew` and `disavow`.
LEMMA CertCommandStep ==
    ASSUME ClientInv, NEW c \in Commands, UNCHANGED kind,
           \/ Begin(c) \/ FileRequest(c) \/ RequestPolled(c) \/ AskForCert(c) \/ Unload(c)
           \/ WriteCert(c) \/ AddToAgent(c) \/ Drop(c) \/ RemoveFile(c) \/ KillWindow(c)
    PROVE  ClientInv'
<1>1. c \in Commands \ JobCommands
  BY NoJob DEF Begin, FileRequest, RequestPolled, AskForCert, Unload, WriteCert, AddToAgent,
     Drop, RemoveFile, KillWindow, At
<1>2. UNCHANGED <<claim, effect>>
  BY DEF Begin, FileRequest, RequestPolled, AskForCert, Unload, WriteCert, AddToAgent,
     Drop, RemoveFile, KillWindow, jobVars, certVars
<1>3. /\ {"file", "issue", "drop"} \subseteq Steps /\ "asked" \in Steps /\ "unload" \in Steps
      /\ "write" \in Steps /\ "add" \in Steps /\ "remove" \in Steps /\ "kill" \in Steps
      /\ Refusals \cup NoAnswer \subseteq Statuses
      /\ {"Ok", "Empty", "Precondition", "AuthRemediable", "AuthDenied", "AuthNeedsHuman",
          "Permanent", "RetryUnknown"} \subseteq Statuses
  BY DEF Steps, Statuses, Refusals, NoAnswer
<1>4. CASE Begin(c)
  <2>1. /\ \/ \E step \in Steps : To(c, step)
           \/ \E status \in Statuses : Exit(c, status)
        /\ keyFiles' \in {"none", "private", "both"}
    <3>1. CASE HaveKey(c, "file") \/ HaveKey(c, "issue")
      BY <3>1, <1>3, CertFacts DEF HaveKey
    <3>2. CASE To(c, "drop") /\ UNCHANGED keyFiles
      BY <3>2, <1>3, CertFacts
    <3>3. kind[c] \in {"request", "renew", "disavow"}
      BY <1>4 DEF Begin, CertCommands
    <3> QED
      BY <1>4, <3>1, <3>2, <3>3 DEF Begin
  <2>2. UNCHANGED <<jobVars, certFile, agent, crowded>>
    BY <1>4 DEF Begin
  <2> QED
    BY <1>1, <1>2, <2>1, <2>2, Onward, CertFacts, CertStep DEF jobVars
<1>5. CASE FileRequest(c)
  <2>1. \/ \E step \in Steps : To(c, step)
        \/ \E status \in Statuses : Exit(c, status)
    BY <1>3, <1>5 DEF FileRequest
  <2>2. /\ job' \in [Commands -> States \cup Results]
        /\ \A e \in JobCommands : job'[e] = job[e]
    <3>1. job' = [job EXCEPT ![c] = "waiting"] \/ UNCHANGED job
      BY <1>5 DEF FileRequest
    <3> QED
      BY <1>1, <3>1, CertFacts DEF States, JobCommands
  <2>3. UNCHANGED certVars
    BY <1>5 DEF FileRequest
  <2> QED
    BY <1>1, <1>2, <2>1, <2>2, <2>3, Onward, CertFacts, CertStep DEF certVars
<1>6. CASE RequestPolled(c)
  <2>1. UNCHANGED <<jobVars, certVars>>
    BY <1>6 DEF RequestPolled
  <2>2. CASE \/ \E step \in Steps : To(c, step)
             \/ \E status \in Statuses : Exit(c, status)
    BY <1>1, <2>1, <2>2, Onward, CertFacts, CertStep DEF jobVars, certVars
  <2>3. CASE Goes(c, [cli[c] EXCEPT !.turn = ~@])
    <3> DEFINE d == [cli[c] EXCEPT !.turn = ~cli[c].turn]
    <3>1. d \in Records
      BY CertFacts DEF Records
    <3>2. Goes(c, d)
      BY <2>3
    <3> HIDE DEF d
    <3>3. cli' \in [Commands -> Records] /\ \A e \in Commands \ {c} : cli'[e] = cli[e]
      BY <3>1, <3>2, CertFacts, GoesTo
    <3> QED
      BY <1>1, <2>1, <3>3, CertFacts, CertStep DEF jobVars, certVars
  <2> QED
    BY <1>3, <1>6, <2>2, <2>3 DEF RequestPolled
<1>7. CASE AskForCert(c)
  <2>1. UNCHANGED <<jobVars, keyFiles, certFile, agent>>
    BY <1>7 DEF AskForCert
  <2>2. crowded' \in BOOLEAN
    BY <1>7, CertFacts DEF AskForCert, Crowds
  <2>3. CASE \E status \in Statuses : Exit(c, status)
    BY <1>1, <2>1, <2>2, <2>3, Onward, CertFacts, CertStep DEF jobVars
  <2>4. CASE Goes(c, [cli[c] EXCEPT !.step = "unload", !.cert = c])
    <3> DEFINE d == [cli[c] EXCEPT !.step = "unload", !.cert = c]
    <3>1. d \in Records
      BY <1>3, CertFacts DEF Records
    <3>2. Goes(c, d)
      BY <2>4
    <3> HIDE DEF d
    <3>3. cli' \in [Commands -> Records] /\ \A e \in Commands \ {c} : cli'[e] = cli[e]
      BY <3>1, <3>2, CertFacts, GoesTo
    <3> QED
      BY <1>1, <2>1, <2>2, <3>3, CertFacts, CertStep DEF jobVars
  <2> QED
    BY <1>3, <1>7, <2>3, <2>4 DEF AskForCert
<1>8. CASE Unload(c)
  <2>1. UNCHANGED <<jobVars, keyFiles, certFile>> /\ Unloads(c, "write")
    BY <1>8 DEF Unload
  <2>2. agent' \subseteq Commands /\ crowded' \in BOOLEAN
    BY <2>1, CertFacts DEF Unloads
  <2>3. \E step \in Steps : To(c, step)
    BY <1>3, <2>1 DEF Unloads
  <2> QED
    BY <1>1, <2>1, <2>2, <2>3, Onward, CertFacts, CertStep DEF jobVars
<1>9. CASE WriteCert(c)
  <2>1. UNCHANGED <<jobVars, keyFiles, agent, crowded>>
    BY <1>9 DEF WriteCert
  <2>2. certFile' \in Commands \cup {NoCert}
    BY <1>9, CertFacts DEF WriteCert, Records
  <2>3. \/ \E step \in Steps : To(c, step)
        \/ \E status \in Statuses : Exit(c, status)
    BY <1>3, <1>9 DEF WriteCert
  <2> QED
    BY <1>1, <2>1, <2>2, <2>3, Onward, CertFacts, CertStep DEF jobVars
<1>10. CASE AddToAgent(c)
  <2>1. UNCHANGED <<jobVars, keyFiles, certFile, crowded>>
    BY <1>10 DEF AddToAgent
  <2>2. agent' \subseteq Commands
    BY <1>10, CertFacts DEF AddToAgent
  <2>3. \E status \in Statuses : Exit(c, status)
    BY <1>3, <1>10 DEF AddToAgent
  <2> QED
    BY <1>1, <2>1, <2>2, <2>3, Onward, CertFacts, CertStep DEF jobVars
<1>11. CASE Drop(c)
  <2>1. UNCHANGED <<jobVars, keyFiles, certFile>>
    BY <1>11 DEF Drop
  <2>2. agent' \subseteq Commands /\ crowded' \in BOOLEAN
    BY <1>11, CertFacts DEF Drop, Crowds
  <2>3. \E step \in Steps : To(c, step)
    BY <1>3, <1>11 DEF Drop
  <2> QED
    BY <1>1, <2>1, <2>2, <2>3, Onward, CertFacts, CertStep DEF jobVars
<1>12. CASE RemoveFile(c)
  <2>1. UNCHANGED <<jobVars, keyFiles, agent, crowded>> /\ certFile' = NoCert
    BY <1>12 DEF RemoveFile
  <2>2. \E step \in Steps : To(c, step)
    BY <1>3, <1>12 DEF RemoveFile
  <2> QED
    BY <1>1, <2>1, <2>2, Onward, CertFacts, CertStep DEF jobVars
<1>13. CASE KillWindow(c)
  <2>1. UNCHANGED certVars
    BY <1>13 DEF KillWindow
  <2>2. \E status \in Statuses : Exit(c, status)
    BY <1>3, <1>13 DEF KillWindow
  <2>3. /\ job' \in [Commands -> States \cup Results]
        /\ \A e \in JobCommands : job'[e] = job[e]
    <3> DEFINE those == {d \in CertCommands : job[d] \in {"waiting", "approved"}}
    <3>1. \/ job' = [d \in Commands |-> IF d \in those THEN "declined" ELSE job[d]]
          \/ UNCHANGED job
      BY <1>13 DEF KillWindow
    <3>2. \A e \in JobCommands : e \in Commands /\ e \notin those
      BY DEF JobCommands, CertCommands
    <3>3. "declined" \in States \cup Results
      BY DEF Results
    <3> HIDE DEF those
    <3> QED
      BY <3>1, <3>2, <3>3, CertFacts
  <2> QED
    BY <1>1, <1>2, <2>1, <2>2, <2>3, Onward, CertFacts, CertStep DEF certVars
<1> QED
  BY <1>4, <1>5, <1>6, <1>7, <1>8, <1>9, <1>10, <1>11, <1>12, <1>13

\* A request is answered, and jobs are not.
LEMMA RequestMovesStep ==
    ASSUME ClientInv, NEW c \in CertCommands, RequestMoves(c), UNCHANGED kind
    PROVE  ClientInv'
<1>1. c \in Commands \ JobCommands
  BY NoJob DEF CertCommands
<1>2. PICK to \in {"approved", "declined"} : job' = [job EXCEPT ![c] = to]
  BY DEF RequestMoves, Becomes
<1>3. /\ job' \in [Commands -> States \cup Results]
      /\ \A e \in JobCommands : job'[e] = job[e]
  BY <1>1, <1>2, CertFacts DEF States, Results, JobCommands
<1>4. UNCHANGED <<claim, effect, cli, certVars>>
  BY DEF RequestMoves
<1> QED
  BY <1>1, <1>3, <1>4, CertFacts, CertStep DEF certVars

\* A certificate's lifetime ends.
LEMMA ExpireStep ==
    ASSUME ClientInv, Expire, UNCHANGED kind
    PROVE  ClientInv'
<1>1. UNCHANGED <<cli, jobVars, keyFiles, certFile, crowded>> /\ agent' \subseteq agent
  BY DEF Expire
<1>2. ClientTypeOK'
  BY <1>1 DEF ClientInv, ClientTypeOK, jobVars
<1>3. ASSUME NEW c \in JobCommands PROVE CommandInv(c)'
  BY <1>1, <1>3 DEF ClientInv, CommandInv, Untouched, Made, TakingBack, AtRest, jobVars
<1> QED
  BY <1>2, <1>3 DEF ClientInv, JobCommands

LEMMA ClientStutter == ClientInv /\ UNCHANGED clientVars => ClientInv'
<1> SUFFICES ASSUME ClientInv, UNCHANGED clientVars PROVE ClientInv'
  OBVIOUS
<1>1. ClientTypeOK'
  BY DEF ClientInv, ClientTypeOK, clientVars, jobVars, certVars
<1>2. ASSUME NEW c \in JobCommands PROVE CommandInv(c)'
  BY <1>2 DEF ClientInv, CommandInv, Untouched, Made, TakingBack, AtRest, clientVars, jobVars
<1> QED
  BY <1>1, <1>2 DEF ClientInv, JobCommands, clientVars

LEMMA ClientStarts == ClientInit => ClientInv
<1> SUFFICES ASSUME ClientInit PROVE ClientInv
  OBVIOUS
<1> DEFINE unrun == [Started EXCEPT !.step = "end"]
<1>1. Started \in Records
  <2>1. 0 \in 0..PollFailures /\ "start" \in Steps
    BY ClientAssumption DEF Steps
  <2> QED
    BY <2>1 DEF Started, Records
<1>2. unrun \in Records
  <2>1. "end" \in Steps
    BY DEF Steps
  <2> QED
    BY <1>1, <2>1 DEF Records
<1>3. ClientTypeOK
  <2>1. cli = [c \in Commands |-> IF kind[c] = "none" THEN unrun ELSE Started]
    BY DEF ClientInit
  <2> HIDE DEF unrun
  <2>2. cli \in [Commands -> Records]
    BY <1>1, <1>2, <2>1
  <2>3. /\ job \in [Commands -> States \cup Results]
        /\ claim \in [Commands -> Claims]
        /\ effect \in [Commands -> {"none", "partly", "changed"}]
    BY DEF ClientInit, States, Claims
  <2>4. /\ kind \in Mixes /\ keyFiles \in {"none", "private", "both"}
        /\ certFile \in Commands \cup {NoCert} /\ agent \subseteq Commands
        /\ crowded \in BOOLEAN
    BY DEF ClientInit
  <2> QED
    BY <2>2, <2>3, <2>4 DEF ClientTypeOK, Records
<1>4. ASSUME NEW c \in JobCommands PROVE CommandInv(c)
  <2>1. c \in Commands /\ kind[c] # "none"
    BY DEF JobCommands
  <2>2. cli[c] = Started /\ job[c] = "none" /\ claim[c] = "none" /\ effect[c] = "none"
    BY <2>1 DEF ClientInit
  <2> QED
    BY <2>2 DEF CommandInv, Started, Ahead, Stopped, Done, RulesOut, Untouched, Made,
       TakingBack, AtRest
<1> QED
  BY <1>3, <1>4 DEF ClientInv

LEMMA ClientNextStep == ClientInv /\ [ClientNext]_clientVars => ClientInv'
<1> SUFFICES ASSUME ClientInv, [ClientNext]_clientVars PROVE ClientInv'
  OBVIOUS
<1>1. CASE UNCHANGED clientVars
  BY <1>1, ClientStutter
<1>2. CASE ClientNext
  <2>1. UNCHANGED kind
    BY <1>2 DEF ClientNext
  <2>2. ASSUME NEW c \in Commands, Proceed(c) PROVE ClientInv'
    BY <2>1, <2>2, FileJobStep, JobPolledStep, CertCommandStep DEF Proceed
  <2>3. ASSUME NEW c \in Commands, Late(c) \/ Interrupt(c) PROVE ClientInv'
    BY <2>1, <2>3, LateStep, InterruptStep
  <2>4. ASSUME NEW c \in JobCommands, JobMoves(c) \/ ClaimJob(c) \/ Work(c) \/ Report(c)
                                   \/ Undo(c)
        PROVE  ClientInv'
    BY <2>1, <2>4, JobMovesStep, ClaimJobStep, WorkStep, ReportStep, UndoStep
  <2>5. ASSUME NEW c \in CertCommands, RequestMoves(c) PROVE ClientInv'
    BY <2>1, <2>5, RequestMovesStep
  <2>6. CASE Forgets \/ Expire
    BY <2>1, <2>6, ForgetsStep, ExpireStep
  <2> QED
    BY <1>2, <2>2, <2>3, <2>4, <2>5, <2>6 DEF ClientNext, ClientActs
<1> QED
  BY <1>1, <1>2

\* The state of the commands, their jobs and the agent is well typed.
THEOREM ClientTypes == ClientSpec => []ClientTypeOK
<1>1. ClientInv => ClientTypeOK
  BY DEF ClientInv
<1> QED
  BY <1>1, ClientStarts, ClientNextStep, PTL DEF ClientSpec

\* What an exit status says of the job stays so, for any number of commands in
\* any mix and however many polls fail, whatever restarts and lost answers come
\* between (wait_for_job, report_job and exit.rs); but that Permanent may be told
\* of a trust the daemon refused at finish before the runner has taken its
\* install back (run.rs deliver, install_undo).
THEOREM StatusStaysTrue == ClientSpec => []StatusIsTrue
<1>1. ClientInv => StatusIsTrue
  BY DEF ClientInv, CommandInv, StatusIsTrue, Made, Untouched, TakingBack,
        RulesOut
<1> QED
  BY <1>1, ClientStarts, ClientNextStep, PTL DEF ClientSpec

(***************************************************************************)
(* The agent and the certificate file.                                     *)
(***************************************************************************)
\* The steps from a certificate to its end, in the file or the agent.
Working == {"unload", "write", "add", "remove"}
Unloaded == {"write", "add", "remove"}

\* One command works on the certificate at a time, and the agent is empty from
\* when it unloads the old one until it has added the new.
AgentAlone ==
    /\ agent \subseteq {certFile}
    /\ \A c \in Commands : cli[c].step \in Unloaded => agent = {}
    /\ \A c, d \in Commands : cli[c].step \in Working /\ cli[d].step \in Working => c = d
AgentInv == ~crowded => AgentAlone

LEMMA RecordGoes ==
    ASSUME ClientTypeOK, NEW c \in Commands
    PROVE  /\ \A d : Goes(c, d) =>
                cli'[c] = d /\ \A e \in Commands \ {c} : cli'[e] = cli[e]
           /\ \A step : To(c, step) =>
                cli'[c].step = step /\ \A e \in Commands \ {c} : cli'[e] = cli[e]
           /\ \A status : Exit(c, status) =>
                cli'[c].step = "end" /\ \A e \in Commands \ {c} : cli'[e] = cli[e]
<1>1. cli \in [Commands -> Records] /\ cli[c] \in Records
  BY DEF ClientTypeOK, Records
<1>2. ASSUME NEW d, Goes(c, d)
      PROVE  cli'[c] = d /\ \A e \in Commands \ {c} : cli'[e] = cli[e]
  BY <1>1, <1>2 DEF Goes
<1>3. \A step : [cli[c] EXCEPT !.step = step].step = step
  BY <1>1 DEF Records
<1>4. \A status : [cli[c] EXCEPT !.step = "end", !.status = status].step = "end"
  BY <1>1 DEF Records
<1> QED
  BY <1>2, <1>3, <1>4 DEF To, Exit

\* What takes up no work on the certificate leaves it as it is.
LEMMA AgentLeft ==
    ASSUME ClientTypeOK, AgentInv, UNCHANGED <<crowded, certFile>>, agent' \subseteq agent,
           \A c \in Commands :
               cli'[c].step \in Working => cli[c].step = cli'[c].step
    PROVE  AgentInv'
BY DEF AgentInv, AgentAlone, Working, Unloaded

LEMMA OneLeaves ==
    ASSUME ClientTypeOK, AgentInv, UNCHANGED <<crowded, certFile>>, agent' \subseteq agent,
           NEW c \in Commands, \A e \in Commands \ {c} : cli'[e] = cli[e],
           cli'[c].step \notin Working
    PROVE  AgentInv'
BY AgentLeft

\* A poll, its deadline and its backstop, and an interrupt.
LEMMA AgentPolled ==
    ASSUME ClientTypeOK, AgentInv, NEW c \in Commands,
           FileJob(c) \/ JobPolled(c) \/ Late(c) \/ Interrupt(c)
    PROVE  AgentInv'
<1>0. cli[c] \in Records
  BY DEF ClientTypeOK, Records
<1>1. UNCHANGED certVars
  BY DEF FileJob, JobPolled, Late, Interrupt
<1>2. CASE FileJob(c) \/ Interrupt(c)
  <2>1. To(c, "wait") \/ \E s : Exit(c, s)
    BY <1>2 DEF FileJob, Interrupt
  <2> QED
    BY <1>1, <2>1, RecordGoes, OneLeaves DEF Working, certVars
<1>3. CASE Late(c)
  <2>1. Goes(c, [cli[c] EXCEPT !.late = TRUE]) /\ cli[c].step \in {"wait", "asked"}
    BY <1>3 DEF Late
  <2>2. [cli[c] EXCEPT !.late = TRUE].step = cli[c].step
    BY <1>0 DEF Records
  <2> QED
    BY <1>1, <2>1, <2>2, RecordGoes, OneLeaves DEF Working, certVars
<1>4. CASE JobPolled(c)
  <2> DEFINE turned == [cli[c] EXCEPT !.failures = 0, !.turn = ~@,
                                      !.mayHaveRun = @ \/ job[c] \in {"approved", "claimed"}]
             struck == [cli[c] EXCEPT !.failures = @ + 1]
             gone == [cli[c] EXCEPT !.step = "end", !.status = "RetryUnknown",
                                    !.said = "nothing ran"]
  <2>1. /\ turned.step = "wait" /\ struck.step = "wait" /\ gone.step = "end"
        /\ \A f : f = turned \/ f = struck =>
              [f EXCEPT !.step = "end", !.status = "RetryUnknown"].step = "end"
    BY <1>0, <1>4 DEF JobPolled, At, Records
  <2>2. (\E s : Exit(c, s)) \/ Backstop(c, turned) \/ Backstop(c, struck) \/ Goes(c, gone)
    BY <1>4 DEF JobPolled
  <2> HIDE DEF turned, struck, gone
  <2>3. ASSUME NEW f, f.step = "wait", Backstop(c, f),
               [f EXCEPT !.step = "end", !.status = "RetryUnknown"].step = "end"
        PROVE  cli'[c].step \in {"wait", "end"} /\ \A e \in Commands \ {c} : cli'[e] = cli[e]
    BY <2>3, RecordGoes DEF Backstop
  <2>4. ASSUME NEW s, Exit(c, s)
        PROVE  cli'[c].step = "end" /\ \A e \in Commands \ {c} : cli'[e] = cli[e]
    BY <2>4, RecordGoes
  <2>5. Goes(c, gone) => cli'[c].step = "end" /\ \A e \in Commands \ {c} : cli'[e] = cli[e]
    BY <2>1, RecordGoes
  <2>6. cli'[c].step \in {"wait", "end"} /\ \A e \in Commands \ {c} : cli'[e] = cli[e]
    BY <2>1, <2>2, <2>3, <2>4, <2>5
  <2> QED
    BY <1>1, <2>6, OneLeaves DEF Working, certVars
<1> QED
  BY <1>2, <1>3, <1>4

\* A certificate command that is not at work on the certificate.
LEMMA AgentAsked ==
    ASSUME ClientTypeOK, AgentInv, NEW c \in Commands,
           Begin(c) \/ FileRequest(c) \/ RequestPolled(c) \/ KillWindow(c)
    PROVE  AgentInv'
<1>0. cli[c] \in Records
  BY DEF ClientTypeOK, Records
<1>1. UNCHANGED <<certFile, agent, crowded>>
  BY DEF Begin, FileRequest, RequestPolled, KillWindow, certVars
<1>2. CASE Begin(c)
  <2>1. kind[c] \in {"request", "renew", "disavow"}
    BY <1>2 DEF Begin, CertCommands
  <2>2. (\E step \in {"file", "issue", "drop"} : To(c, step)) \/ \E s : Exit(c, s)
    BY <1>2, <2>1 DEF Begin, HaveKey
  <2>3. /\ cli'[c].step \in {"file", "issue", "drop", "end"}
        /\ \A e \in Commands \ {c} : cli'[e] = cli[e]
    BY <2>2, RecordGoes
  <2> QED
    BY <1>1, <2>3, OneLeaves DEF Working
<1>3. CASE FileRequest(c) \/ KillWindow(c)
  <2>1. To(c, "asked") \/ \E s : Exit(c, s)
    BY <1>3 DEF FileRequest, KillWindow
  <2>2. cli'[c].step \in {"asked", "end"} /\ \A e \in Commands \ {c} : cli'[e] = cli[e]
    BY <2>1, RecordGoes
  <2> QED
    BY <1>1, <2>2, OneLeaves DEF Working
<1>4. CASE RequestPolled(c)
  <2>1. \/ To(c, "issue") \/ \E s : Exit(c, s)
        \/ Goes(c, [cli[c] EXCEPT !.turn = ~@])
    BY <1>4 DEF RequestPolled
  <2>2. [cli[c] EXCEPT !.turn = ~@].step = "asked"
    BY <1>0, <1>4 DEF RequestPolled, At, Records
  <2>3. /\ cli'[c].step \in {"issue", "asked", "end"}
        /\ \A e \in Commands \ {c} : cli'[e] = cli[e]
    BY <2>1, <2>2, RecordGoes
  <2> QED
    BY <1>1, <2>3, OneLeaves DEF Working
<1> QED
  BY <1>2, <1>3, <1>4

\* The way of a certificate into the file and the agent, and out of them.
LEMMA AgentWorked ==
    ASSUME ClientTypeOK, AgentInv, NEW c \in Commands,
           \/ AskForCert(c) \/ Unload(c) \/ WriteCert(c) \/ AddToAgent(c)
           \/ Drop(c) \/ RemoveFile(c)
    PROVE  AgentInv'
<1>0. crowded \in BOOLEAN
  BY DEF ClientTypeOK
<1>1. CASE AskForCert(c)
  <2>1. CASE \E s : Exit(c, s) /\ UNCHANGED crowded
    BY <1>1, <2>1, RecordGoes, OneLeaves DEF AskForCert, Working
  <2>2. CASE Goes(c, [cli[c] EXCEPT !.step = "unload", !.cert = c]) /\ Crowds(c)
    <3>1. [cli[c] EXCEPT !.step = "unload", !.cert = c].step = "unload"
      BY DEF ClientTypeOK
    <3>2. cli'[c].step = "unload" /\ \A e \in Commands \ {c} : cli'[e] = cli[e]
      BY <2>2, <3>1, RecordGoes
    <3>3. ~crowded' => ~crowded /\ \A d \in Commands \ {c} : cli[d].step \notin Working
      BY <2>2 DEF Crowds, Loading, Working
    <3>4. UNCHANGED <<agent, certFile>>
      BY <1>1 DEF AskForCert
    <3> QED
      BY <3>2, <3>3, <3>4 DEF AgentInv, AgentAlone, Working, Unloaded
  <2> QED
    BY <1>1, <2>1, <2>2 DEF AskForCert
<1>2. CASE Unload(c)
  <2>1. cli'[c].step = "write" /\ \A e \in Commands \ {c} : cli'[e] = cli[e]
    BY <1>2, RecordGoes DEF Unload, Unloads
  <2>2. /\ cli[c].step = "unload" /\ UNCHANGED certFile
        /\ \/ agent' = agent \ {certFile} /\ UNCHANGED crowded
           \/ crowded' = TRUE
    BY <1>2 DEF Unload, Unloads, At
  <2> QED
    BY <2>1, <2>2 DEF AgentInv, AgentAlone, Working, Unloaded
<1>3. CASE WriteCert(c)
  <2>1. CASE \E s : Exit(c, s) /\ UNCHANGED certFile
    BY <1>3, <2>1, RecordGoes, OneLeaves DEF WriteCert, Working
  <2>2. CASE To(c, "add")
    <3>1. cli'[c].step = "add" /\ \A e \in Commands \ {c} : cli'[e] = cli[e]
      BY <2>2, RecordGoes
    <3>2. cli[c].step = "write" /\ UNCHANGED <<agent, crowded>>
      BY <1>3 DEF WriteCert, At
    <3> QED
      BY <3>1, <3>2 DEF AgentInv, AgentAlone, Working, Unloaded
  <2> QED
    BY <1>3, <2>1, <2>2 DEF WriteCert
<1>4. CASE AddToAgent(c)
  <2>1. cli'[c].step = "end" /\ \A e \in Commands \ {c} : cli'[e] = cli[e]
    BY <1>4, RecordGoes DEF AddToAgent
  <2>2. /\ cli[c].step = "add" /\ UNCHANGED <<certFile, crowded>>
        /\ agent' \subseteq agent \cup {certFile}
    BY <1>4 DEF AddToAgent, At
  <2> QED
    BY <2>1, <2>2 DEF AgentInv, AgentAlone, Working, Unloaded
<1>5. CASE Drop(c)
  <2>1. cli'[c].step = "remove" /\ \A e \in Commands \ {c} : cli'[e] = cli[e]
    BY <1>5, RecordGoes DEF Drop
  <2>2. /\ UNCHANGED certFile
        /\ \/ agent' = agent \ {certFile} /\ Crowds(c)
           \/ crowded' = TRUE
    BY <1>5 DEF Drop
  <2>3. ~crowded' => /\ ~crowded /\ agent' = agent \ {certFile}
                     /\ \A d \in Commands \ {c} : cli[d].step \notin Working
    BY <2>2 DEF Crowds, Loading, Working
  <2> QED
    BY <2>1, <2>2, <2>3 DEF AgentInv, AgentAlone, Working, Unloaded
<1>6. CASE RemoveFile(c)
  <2>1. cli'[c].step = "kill" /\ \A e \in Commands \ {c} : cli'[e] = cli[e]
    BY <1>6, RecordGoes DEF RemoveFile
  <2>2. cli[c].step = "remove" /\ UNCHANGED <<agent, crowded>>
    BY <1>6 DEF RemoveFile, At
  <2> QED
    BY <2>1, <2>2 DEF AgentInv, AgentAlone, Working, Unloaded
<1> QED
  BY <1>1, <1>2, <1>3, <1>4, <1>5, <1>6

LEMMA AgentStep == ClientTypeOK /\ AgentInv /\ [ClientNext]_clientVars => AgentInv'
<1> SUFFICES ASSUME ClientTypeOK, AgentInv, [ClientNext]_clientVars PROVE AgentInv'
  OBVIOUS
<1>1. CASE UNCHANGED clientVars
  BY <1>1, AgentLeft DEF clientVars, certVars
<1>2. ASSUME NEW c \in Commands, Proceed(c) \/ Late(c) \/ Interrupt(c) PROVE AgentInv'
  BY <1>2, AgentPolled, AgentAsked, AgentWorked DEF Proceed
<1>3. ASSUME NEW c \in Commands,
             JobMoves(c) \/ ClaimJob(c) \/ Work(c) \/ Report(c) \/ Undo(c)
             \/ RequestMoves(c)
      PROVE  AgentInv'
  <2>1. UNCHANGED <<cli, certVars>>
    BY <1>3 DEF JobMoves, ClaimJob, Work, Report, Undo, RequestMoves
  <2> QED
    BY <2>1, AgentLeft DEF certVars
<1>4. CASE Forgets \/ Expire
  <2>1. UNCHANGED <<cli, certFile, crowded>> /\ agent' \subseteq agent
    BY <1>4 DEF Forgets, Expire, certVars
  <2> QED
    BY <2>1, AgentLeft
<1>5. JobCommands \subseteq Commands /\ CertCommands \subseteq Commands
  BY DEF JobCommands, CertCommands
<1> QED
  BY <1>1, <1>2, <1>3, <1>4, <1>5 DEF ClientNext, ClientActs

\* The ssh-agent holds the certificate of the session's file or none, so that the
\* next load or disavow takes it out, for any mix of commands interrupted anywhere,
\* as long as one works on it at a time and ssh-add -d does not fail (load,
\* remove_from_agent and disavow).
THEOREM AgentKeepsToFile == ClientSpec => []AgentFollowsFile
<1>1. ClientInit => AgentInv
  <2> SUFFICES ASSUME ClientInit PROVE AgentInv
    OBVIOUS
  <2>1. \A c \in Commands : cli[c].step \notin Working
    <3> SUFFICES ASSUME NEW c \in Commands PROVE cli[c].step \notin Working
      OBVIOUS
    <3>1. cli[c] = Started \/ cli[c] = [Started EXCEPT !.step = "end"]
      BY DEF ClientInit
    <3> QED
      BY <3>1 DEF Started, Working
  <2> QED
    BY <2>1 DEF ClientInit, AgentInv, AgentAlone, Working, Unloaded
<1>2. AgentInv => AgentFollowsFile
  BY DEF AgentInv, AgentAlone, AgentFollowsFile
<1> QED
  BY <1>1, <1>2, AgentStep, ClientTypes, PTL DEF ClientSpec

(***************************************************************************)
(* What the phones are told.                                               *)
(***************************************************************************)
AskedOf == {"waiting", "opened", "issued"}
Alerts == [n : Nat, kind : Kinds]
Cards == [window : Nat, phone : Phones]
Messages == [place : Places, alert : Alerts]
CardEnds == [place : Phones, ends : Cards]

\* A task has something to deliver; what it says is in the ledger, if that is
\* asked of its kind; and what was delivered is kept.
OnLedger(alert, lines) == alert.kind \in AskedOf => alert \in lines
Truthful(d, lines) == d \in CardEnds \/ (d \in Messages /\ OnLedger(d.alert, lines))
TaskTrue(task, lines) ==
    /\ task \in Seq(Messages \cup CardEnds) /\ task # <<>>
    /\ \A i \in 1..Len(task) : Truthful(task[i], lines)
PushTyped ==
    /\ activities \subseteq Cards /\ IsFiniteSet(activities)
    /\ cards \subseteq Cards
    /\ open \subseteq Nat /\ windowCount \in Nat /\ alertCount \in Nat
    /\ inbox \in [Places -> SUBSET Alerts]
    /\ delivered \subseteq Places \X Alerts
PushInv ==
    /\ PushTyped
    /\ \A task \in tasks : TaskTrue(task, recorded)
    /\ \A d \in delivered : OnLedger(d[2], recorded)
    /\ RecordsStay

\* The community modules' sequence of a finite set's elements is one.
LEMMA SetToSeqIsASeq ==
    ASSUME NEW S, IsFiniteSet(S)
    PROVE  /\ SetToSeq(S) \in Seq(S)
           /\ Len(SetToSeq(S)) = Cardinality(S)
<1>1. Cardinality(S) \in Nat /\ ExistsBijection(1..Cardinality(S), S)
  BY FS_CardinalityType
<1>2. \E f \in [1..Cardinality(S) -> S] : IsInjective(f)
  BY <1>1 DEF ExistsBijection, Bijection, Injection, IsInjective
<1>3. SetToSeq(S) \in [1..Cardinality(S) -> S]
  BY <1>2 DEF SetToSeq
<1> QED
  BY <1>1, <1>3

\* The deliveries a call hands to tasks are true of what it recorded.
LEMMA DeliveriesAreTrue ==
    ASSUME NEW alert \in Alerts, NEW lines, OnLedger(alert, lines),
           NEW task \in Deliveries(alert)
    PROVE  TaskTrue(task, lines)
<1> DEFINE wanted == {p \in Phones : alert.kind \in Wants[p]}
           wanting == SetToSeq(wanted)
           toTopic == <<[place |-> Topic, alert |-> alert]>>
           toPhones == [i \in 1..Len(wanting) |-> [place |-> wanting[i], alert |-> alert]]
<1>1. wanting \in Seq(wanted) /\ Len(wanting) \in Nat
  <2>1. IsFiniteSet(wanted)
    BY PushesAssumption, FS_Subset
  <2> QED
    BY <2>1, SetToSeqIsASeq
<1>2. \A i \in 1..Len(wanting) : wanting[i] \in Phones
  BY <1>1
<1>3. \A p \in Places : /\ [place |-> p, alert |-> alert] \in Messages
                        /\ Truthful([place |-> p, alert |-> alert], lines)
  BY DEF Messages, Truthful
<1>4. task # <<>> /\ (task = toTopic \/ task = toPhones)
  BY DEF Deliveries
<1> HIDE DEF wanting, wanted
<1>5. CASE task = toTopic
  BY <1>3, <1>5 DEF TaskTrue, Places
<1>6. CASE task = toPhones
  <2>1. toPhones \in Seq(Messages) /\ Len(toPhones) = Len(wanting)
    BY <1>1, <1>2, <1>3 DEF Places
  <2>2. \A i \in 1..Len(toPhones) : Truthful(toPhones[i], lines)
    BY <1>1, <1>2, <1>3, <2>1 DEF Places
  <2>3. toPhones \in Seq(Messages \cup CardEnds)
    BY <2>1
  <2> HIDE DEF toPhones
  <2> QED
    BY <1>4, <1>6, <2>1, <2>2, <2>3 DEF TaskTrue
<1> QED
  BY <1>4, <1>5, <1>6

\* The task of the cards' ends.
LEMMA EndsAreTrue ==
    ASSUME NEW gone \in SUBSET Cards, IsFiniteSet(gone), NEW task \in EndsOf(gone), NEW lines
    PROVE  TaskTrue(task, lines)
<1> DEFINE end == [c \in gone |-> [place |-> c.phone, ends |-> c]]
           ends == {[place |-> c.phone, ends |-> c] : c \in gone}
<1>1. gone # {} /\ task = SetToSeq(ends)
  BY DEF EndsOf
<1>2. ends \subseteq CardEnds /\ ends # {}
  <2>1. \A c \in gone : [place |-> c.phone, ends |-> c] \in CardEnds
    BY DEF CardEnds, Cards
  <2> QED
    BY <1>1, <2>1
<1>3. IsFiniteSet(ends)
  <2>1. end \in Surjection(gone, ends)
    BY DEF Surjection
  <2> HIDE DEF end, ends
  <2> QED
    BY <2>1, FS_Surjection
<1>4. Cardinality(ends) \in Nat /\ Cardinality(ends) # 0
  <2> HIDE DEF ends
  <2> QED
    BY <1>2, <1>3, FS_EmptySet, FS_CardinalityType
<1> HIDE DEF ends
<1>5. task \in Seq(ends) /\ Len(task) = Cardinality(ends)
  BY <1>1, <1>3, SetToSeqIsASeq
<1>6. \A i \in 1..Len(task) : task[i] \in CardEnds
  BY <1>2, <1>5
<1>7. task \in Seq(Messages \cup CardEnds)
  BY <1>2, <1>5
<1> QED
  BY <1>4, <1>5, <1>6, <1>7 DEF TaskTrue, Truthful

\* What is true stays so as the ledger grows.
LEMMA LedgerGrows ==
    ASSUME NEW lines, NEW more, lines \subseteq more
    PROVE  /\ \A alert : OnLedger(alert, lines) => OnLedger(alert, more)
           /\ \A task : TaskTrue(task, lines) => TaskTrue(task, more)
BY DEF OnLedger, TaskTrue, Truthful

LEMMA AnnounceKeeps ==
    ASSUME PushInv, NEW what \in Kinds, NEW audited \in BOOLEAN, NEW windows \in SUBSET Nat,
           Announce(what, audited, windows), what \in AskedOf => audited,
           windowCount' \in Nat
    PROVE  PushInv'
<1> DEFINE alert == [n |-> alertCount + 1, kind |-> what]
           gone == Closed(windows)
<1>1. PICK written \in BOOLEAN :
          /\ alertCount' = alertCount + 1
          /\ recorded' = IF written THEN recorded \cup {alert} ELSE recorded
          /\ open' = windows
          /\ activities' = activities \ gone
          /\ tasks' = tasks \cup EndsOf(gone)
                      \cup (IF Sent(audited, written) THEN Deliveries(alert) ELSE {})
          /\ UNCHANGED <<inbox, cards, delivered>>
  BY DEF Announce
<1>2. alert \in Alerts /\ alert.kind = what
  BY DEF PushInv, PushTyped, Alerts
<1>3. gone \subseteq Cards /\ IsFiniteSet(gone) /\ IsFiniteSet(activities \ gone)
  <2>1. gone \in SUBSET activities
    BY DEF Closed
  <2> HIDE DEF gone
  <2> QED
    BY <2>1, FS_Subset, FS_Difference DEF PushInv, PushTyped
<1> HIDE DEF alert, gone
<1>4. PushTyped'
  BY <1>1, <1>3 DEF PushInv, PushTyped
<1>5. recorded \subseteq recorded'
  BY <1>1
<1>6. ASSUME NEW task \in tasks' PROVE TaskTrue(task, recorded')
  <2>1. CASE task \in tasks
    BY <2>1, <1>5, LedgerGrows DEF PushInv
  <2>2. CASE task \in EndsOf(gone)
    BY <2>2, <1>3, EndsAreTrue
  <2>3. CASE Sent(audited, written) /\ task \in Deliveries(alert)
    <3>1. OnLedger(alert, recorded')
      BY <1>1, <1>2, <2>3 DEF OnLedger, Sent
    <3> QED
      BY <1>2, <2>3, <3>1, DeliveriesAreTrue
  <2> QED
    BY <1>1, <2>1, <2>2, <2>3
<1>7. \A d \in delivered' : OnLedger(d[2], recorded')
  BY <1>1, <1>5, LedgerGrows DEF PushInv
<1>8. RecordsStay'
  BY <1>1 DEF PushInv, RecordsStay
<1> QED
  BY <1>4, <1>6, <1>7, <1>8 DEF PushInv

\* What the calls that send nothing leave.
LEMMA QuietKeeps ==
    ASSUME PushInv, PushTyped', tasks' \subseteq tasks,
           UNCHANGED <<recorded, inbox, delivered>>
    PROVE  PushInv'
BY DEF PushInv, RecordsStay

LEMMA CallKeeps ==
    ASSUME PushInv, AskPerson \/ Approve \/ Decline \/ Issue \/ Kill
    PROVE  PushInv'
<1>1. windowCount \in Nat /\ windowCount + 1 \in Nat
  BY DEF PushInv, PushTyped
<1>10. StillOpen \subseteq Nat
  BY DEF PushInv, PushTyped, StillOpen
<1>11. StillOpen \cup {windowCount + 1} \subseteq Nat /\ \A w : StillOpen \ {w} \subseteq Nat
  BY <1>1, <1>10
<1>2. AskedOf \subseteq Kinds /\ {"declined", "killed"} \subseteq Kinds
  BY DEF AskedOf, Kinds
<1>3. "waiting" \in Kinds /\ "opened" \in Kinds /\ "issued" \in Kinds
  BY DEF Kinds
<1>4. "declined" \notin AskedOf /\ "killed" \notin AskedOf
  BY DEF AskedOf
<1>5. CASE AskPerson
  BY <1>1, <1>10, <1>11, <1>3, <1>5, AnnounceKeeps DEF AskPerson
<1>6. CASE Approve
  BY <1>1, <1>10, <1>11, <1>3, <1>6, AnnounceKeeps DEF Approve
<1>7. CASE Decline
  BY <1>1, <1>10, <1>11, <1>2, <1>4, <1>7, AnnounceKeeps DEF Decline
<1>8. CASE Issue
  BY <1>1, <1>10, <1>11, <1>3, <1>8, AnnounceKeeps DEF Issue
<1>9. CASE Kill
  BY <1>1, <1>10, <1>11, <1>2, <1>4, <1>9, AnnounceKeeps DEF Kill
<1> QED
  BY <1>5, <1>6, <1>7, <1>8, <1>9

\* The tasks that end cards.
LEMMA EndingKeeps ==
    ASSUME PushInv, (\E card \in cards : PushActivity(card)) \/ Reap
    PROVE  PushInv'
<1> DEFINE gone == Closed(StillOpen)
<1>1. /\ tasks' = tasks \cup EndsOf(gone) /\ open' = StillOpen
      /\ UNCHANGED <<inbox, cards, windowCount, alertCount, recorded, delivered>>
      /\ \/ activities' = activities \ gone
         \/ \E card \in cards :
               activities' = {c \in activities \ gone : c.window # card.window} \cup {card}
  BY DEF PushActivity, Reap, Reaped
<1>2. gone \subseteq activities
  BY DEF Closed
<1>3. /\ gone \in SUBSET Cards /\ IsFiniteSet(gone)
      /\ StillOpen \subseteq Nat
  BY <1>2, FS_Subset DEF PushInv, PushTyped, StillOpen
<1> HIDE DEF gone
<1>4. activities' \subseteq Cards /\ IsFiniteSet(activities')
  <2>1. \A S \in SUBSET activities : IsFiniteSet(S) /\ \A c : IsFiniteSet(S \cup {c})
    <3>1. \A S \in SUBSET activities : IsFiniteSet(S)
      BY FS_Subset DEF PushInv, PushTyped
    <3> QED
      BY <3>1, FS_AddElement
  <2>2. CASE activities' = activities \ gone
    BY <2>1, <2>2 DEF PushInv, PushTyped
  <2>3. ASSUME NEW card \in cards,
               activities' = {c \in activities \ gone : c.window # card.window} \cup {card}
        PROVE  activities' \subseteq Cards /\ IsFiniteSet(activities')
    <3>1. {c \in activities \ gone : c.window # card.window} \in SUBSET activities
      OBVIOUS
    <3> QED
      BY <2>1, <2>3, <3>1 DEF PushInv, PushTyped
  <2> QED
    BY <1>1, <2>2, <2>3
<1>5. PushTyped'
  BY <1>1, <1>3, <1>4 DEF PushInv, PushTyped
<1>6. \A task \in tasks' : TaskTrue(task, recorded)
  BY <1>1, <1>3, EndsAreTrue DEF PushInv
<1> QED
  BY <1>1, <1>5, <1>6 DEF PushInv, RecordsStay

\* A delivery takes nothing but what waited on the person off a phone, and shows
\* what it brings.
LEMMA ShownKeeps ==
    ASSUME NEW alert \in Alerts, NEW place \in Places, inbox \in [Places -> SUBSET Alerts]
    PROVE  /\ Shown(alert, place) \in SUBSET Alerts /\ alert \in Shown(alert, place)
           /\ \A a \in inbox[place] : IsRecord(a.kind) => a \in Shown(alert, place)
BY DEF Shown, Collapses

LEMMA DeliverKeeps ==
    ASSUME PushInv, NEW task \in tasks, Deliver(task)
    PROVE  PushInv'
<1> DEFINE d == Head(task)
<1>1. /\ TaskTrue(task, recorded) /\ tasks' = (tasks \ {task}) \cup ({Tail(task)} \ {<<>>})
      /\ UNCHANGED <<open, activities, windowCount, alertCount, recorded>>
  BY DEF PushInv, Deliver
<1>2. task \in Seq(Messages \cup CardEnds) /\ Len(task) \in Nat \ {0}
  BY <1>1 DEF TaskTrue
<1>3. Truthful(d, recorded)
  <2>1. d = task[1] /\ 1 \in 1..Len(task)
    BY <1>2
  <2> QED
    BY <1>1, <2>1 DEF TaskTrue
<1>4. Tail(task) # <<>> => TaskTrue(Tail(task), recorded)
  <2>1. Tail(task) \in Seq(Messages \cup CardEnds) /\ Len(Tail(task)) = Len(task) - 1
    BY <1>1, <1>2 DEF TaskTrue
  <2>2. \A i \in 1..Len(Tail(task)) : Tail(task)[i] = task[i + 1] /\ i + 1 \in 1..Len(task)
    BY <1>2, <2>1
  <2> QED
    BY <1>1, <2>1, <2>2 DEF TaskTrue
<1>5. \A t \in tasks' : TaskTrue(t, recorded')
  BY <1>1, <1>4 DEF PushInv
<1>6. CASE /\ "alert" \in DOMAIN d
           /\ inbox' = [inbox EXCEPT ![d.place] = Shown(d.alert, d.place)]
           /\ delivered' = delivered \cup {<<d.place, d.alert>>}
           /\ UNCHANGED cards
  <2>1. d \in Messages /\ OnLedger(d.alert, recorded) /\ d.alert \in Alerts /\ d.place \in Places
    <3>1. d \notin CardEnds
      BY <1>6 DEF CardEnds
    <3> QED
      BY <1>3, <3>1 DEF Truthful, Messages
  <2> HIDE DEF d
  <2>2. inbox \in [Places -> SUBSET Alerts]
    BY DEF PushInv, PushTyped
  <2>3. /\ inbox'[d.place] = Shown(d.alert, d.place)
        /\ \A p \in Places : p # d.place => inbox'[p] = inbox[p]
        /\ inbox' \in [Places -> SUBSET Alerts]
    BY <1>6, <2>1, <2>2, ShownKeeps
  <2>4. PushTyped'
    BY <1>1, <1>6, <2>1, <2>3 DEF PushInv, PushTyped
  <2>5. \A e \in delivered' : OnLedger(e[2], recorded')
    BY <1>1, <1>6, <2>1 DEF PushInv
  <2>6. ASSUME NEW e \in delivered', IsRecord(e[2].kind) PROVE e[2] \in inbox'[e[1]]
    <3>1. CASE e \in delivered
      <4>1. e[1] \in Places /\ e[2] \in inbox[e[1]]
        BY <2>6, <3>1 DEF PushInv, PushTyped, RecordsStay
      <4> QED
        BY <2>1, <2>2, <2>3, <2>6, <4>1, ShownKeeps
    <3>2. CASE e = <<d.place, d.alert>>
      BY <2>1, <2>2, <2>3, <3>2, ShownKeeps
    <3> QED
      BY <1>6, <3>1, <3>2
  <2> QED
    BY <1>5, <2>4, <2>5, <2>6 DEF PushInv, RecordsStay
<1>7. CASE UNCHANGED <<inbox, delivered>> /\ cards' \subseteq cards
  BY <1>1, <1>5, <1>7 DEF PushInv, PushTyped, RecordsStay
<1>8. \/ /\ "alert" \in DOMAIN d
         /\ inbox' = [inbox EXCEPT ![d.place] = Shown(d.alert, d.place)]
         /\ delivered' = delivered \cup {<<d.place, d.alert>>}
         /\ UNCHANGED cards
      \/ UNCHANGED <<inbox, delivered>> /\ cards' \subseteq cards
  BY DEF Deliver
<1> QED
  BY <1>6, <1>7, <1>8

LEMMA PushStep == PushInv /\ [PushNext]_pushVars => PushInv'
<1> SUFFICES ASSUME PushInv, [PushNext]_pushVars PROVE PushInv'
  OBVIOUS
<1>1. CASE AskPerson \/ Approve \/ Decline \/ Issue \/ Kill
  BY <1>1, CallKeeps
<1>2. CASE (\E card \in cards : PushActivity(card)) \/ Reap
  BY <1>2, EndingKeeps
<1>3. ASSUME NEW task \in tasks, Deliver(task) PROVE PushInv'
  BY <1>3, DeliverKeeps
<1>4. ASSUME NEW phone \in Phones, NEW window \in open, StartCard(phone, window)
      PROVE  PushInv'
  BY <1>4, QuietKeeps DEF StartCard, PushInv, PushTyped, Cards
<1>5. CASE Restart
  <2>1. PushTyped'
    BY <1>5, FS_EmptySet DEF Restart, PushInv, PushTyped
  <2> QED
    BY <1>5, <2>1, QuietKeeps DEF Restart
<1>6. CASE Lapse \/ UNCHANGED pushVars
  <2>1. UNCHANGED <<open, activities, tasks, inbox, cards, windowCount, alertCount,
                    recorded, delivered>>
    BY <1>6 DEF Lapse, pushVars
  <2> QED
    BY <2>1, QuietKeeps DEF PushInv, PushTyped
<1> QED
  BY <1>1, <1>2, <1>3, <1>4, <1>5, <1>6 DEF PushNext

\* Nobody is told of a request, a window or a certificate that is not in the
\* ledger, and no later push takes a record off a phone, in whatever order the
\* tasks run and whichever of them fail (audited_or_undo, dispatch and
\* collapse_id).
THEOREM ToldIsKept == PushSpec => []ToldAndKept
<1>1. PushInit => PushInv
  BY FS_EmptySet DEF PushInit, PushInv, PushTyped, RecordsStay
<1>2. PushInv => ToldAndKept
  BY DEF PushInv, PushTyped, OnLedger, AskedOf, ToldAndKept, ToldIsRecorded
<1> QED
  BY <1>1, <1>2, PushStep, PTL DEF PushSpec
=============================================================================
