------------------------------- MODULE MCEnds -------------------------------
(***************************************************************************)
(* Small instances, side by side, of what must come to an end: the         *)
(* commands of an agent (Client), what is pushed to the phones (Pushes),   *)
(* and calls of the issue handler (IssueCache).  A behaviour is one of one *)
(* of them, which `part` names; the others stay as they begin, where no    *)
(* fair action of theirs is enabled.                                       *)
(***************************************************************************)
EXTENDS Client, Pushes, IssueCache

CONSTANTS Horizon, p1, p2

VARIABLE part

endsVars == <<part, clientVars, pushVars, issueVars>>

\* Client: a job of each kind; two renewals; and a renewal or a request beside
\* a disavow.
Mix(a, b) == [command \in Commands |-> IF command = "a" THEN a ELSE b]
NothingRuns == Mix("none", "none")
MCMixes ==
    {NothingRuns, Mix("trust", "none"), Mix("apply", "none"), Mix("renew", "renew"),
     Mix("renew", "disavow"), Mix("request", "disavow")}

\* Pushes: one phone wants two kinds, the other nothing but its cards' ends.
OneListens == p1 :> {"waiting", "issued"} @@ p2 :> {}

\* IssueCache.
Clock == 0..Horizon

EndsInit ==
    /\ part \in {"client", "pushes", "issue"}
    /\ ClientInit /\ (part = "client") = (kind # NothingRuns)
    /\ PushInit
    /\ IssueInit

ClientPart == part = "client" /\ ClientNext /\ UNCHANGED <<part, pushVars, issueVars>>
PushPart == part = "pushes" /\ PushNext /\ UNCHANGED <<part, clientVars, issueVars>>
IssuePart == part = "issue" /\ IssueNext /\ UNCHANGED <<part, clientVars, pushVars>>

EndsNext == ClientPart \/ PushPart \/ IssuePart

EndsSpec ==
    /\ EndsInit /\ [][EndsNext]_endsVars
    /\ ClientFairness /\ PushFairness /\ IssueFairness
============================================================================
