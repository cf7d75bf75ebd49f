----------------------------- MODULE Approvals -----------------------------
(***************************************************************************)
(* What the daemon promises of a person's approvals, whatever they are of. *)
(* A person is asked one question at a time and never the same one twice.  *)
(* Only the question that is open is granted, and only what was granted,   *)
(* and has not been taken back since, is used, within what it covers.  A   *)
(* question and a grant may lapse at any moment: they run out, are         *)
(* declined, withdrawn, killed or pushed aside.                            *)
(*                                                                         *)
(* Grants implements it for SSH windows, used for one certificate after    *)
(* another, Jobs for Terraform scopes, used once, and Daemon for the two   *)
(* together: they ask one person.                                          *)
(***************************************************************************)
CONSTANTS
    Covers(_, _),   \* whether a scope covers a use
    Once(_)         \* whether a grant of a scope is used up by its first use

VARIABLES
    past,      \* the ids of the questions asked so far
    open,      \* the question a person is asked: none or one
    granted,   \* the grants that stand
    uses       \* what was done on the strength of a grant

vars == <<past, open, granted, uses>>

Init == past = {} /\ open = {} /\ granted = {} /\ uses = {}

\* A new question takes the place of the one that was open, if any.
Ask ==
    /\ \E q \in open' :
           q.id \notin past /\ open' = {q} /\ past' = past \cup {q.id}
    /\ granted' \subseteq granted
    /\ UNCHANGED uses

Grant ==
    /\ open' = {}
    /\ \E q \in open : granted' \subseteq granted \cup {q}
    /\ UNCHANGED <<past, uses>>

Use ==
    /\ open' \subseteq open
    /\ \E q \in granted, u \in uses' :
           /\ u.id = q.id /\ Covers(q.scope, u.act)
           /\ uses' = uses \cup {u}
           /\ granted' \subseteq IF Once(q.scope) THEN granted \ {q} ELSE granted
    /\ UNCHANGED past

Lapse ==
    /\ open' \subseteq open
    /\ granted' \subseteq granted
    /\ UNCHANGED <<past, uses>>

Next == Lapse \/ Ask \/ Grant \/ Use

Spec == Init /\ [][Next]_vars
============================================================================
