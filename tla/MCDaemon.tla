----------------------------- MODULE MCDaemon -----------------------------
(* Small instances of Daemon for TLC. *)
EXTENDS Daemon, TLC

CONSTANTS Horizon, p1, r1, h1

Clock == 0..Horizon
OneRunner == p1 :> r1

\* A state directory that is new, or one whose ledger an earlier version left
\* behind without a next_id file: a request, its approval and one certificate.
EitherLedger == {{}, {Line("requested", 1, h1, 0),
                      [kind |-> "approved", id |-> 1, host |-> h1, endsAt |-> 1, at |-> 0],
                      [kind |-> "issued", id |-> 1, serial |-> 2, host |-> h1,
                       validBefore |-> 1, at |-> 0]}}
NoLedger == {{}}

\* Crashes, failed writes, torn appends of other programs.
NoFaults == {<<0, 0, 0>>}
OneCrash == {0, 1} \X {0} \X {0}
SomeFaults == {0, 1} \X {0, 1} \X {0} \cup {0} \X {0, 1} \X {1}
============================================================================
