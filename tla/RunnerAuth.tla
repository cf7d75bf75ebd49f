----------------------------- MODULE RunnerAuth -----------------------------
(***************************************************************************)
(* How the daemon authenticates a runner's request (src/runner_auth.rs,    *)
(* `Verifier`; src/server.rs, `authenticate`).  A request carries a signed *)
(* timestamp and a nonce; the network and the runner's retries may bring   *)
(* the same request any number of times.  A nonce is remembered until two  *)
(* clocks agree that it is old: the monotonic clock, and the wall clock,   *)
(* which may be set forward or back.                                       *)
(*                                                                         *)
(* `accepted` keeps every request this process has accepted, oldest first; *)
(* Verifier::seen is what of it has not been popped off the front.         *)
(***************************************************************************)
EXTENDS Integers, Sequences

CONSTANTS
    Requests,      \* signed requests, each with a runner, a nonce and a stamp
    KnownRunners,  \* Verifier::keys
    MaxSkew,       \* MAX_SKEW_SECS
    NonceTTL,      \* NONCE_TTL
    MaxNonces,     \* MAX_NONCES
    Steps,         \* by how much the wall clock may be set forward or back
    AuthTime,      \* bound: the clocks' readings
    MaxAccepted    \* bound: requests accepted by one process

VARIABLES
    wallClock,     \* SystemTime::now
    monoClock,     \* Instant::now
    accepted,      \* history: every [request, mono, wall, back] accepted
    popped,        \* how many of them are no longer in Verifier::seen
    back           \* history: how far the wall clock was set back altogether

authVars == <<wallClock, monoClock, accepted, popped, back>>

ASSUME AuthAssumption ==
    /\ \A r \in Requests : r.stamp \in Nat
    /\ {MaxSkew, NonceTTL, MaxNonces, MaxAccepted} \subseteq Nat
    /\ AuthTime \subseteq Nat /\ Steps \subseteq Nat

\* An entry is old when both clocks say so; a wall clock that reads earlier
\* than the entry gives no age at all.
OldOnEither(entry) ==   \* wrong: one clock is enough
    monoClock - entry.mono > NonceTTL \/ wallClock - entry.wall > NonceTTL
Old(entry) ==
    /\ monoClock - entry.mono > NonceTTL
    /\ wallClock - entry.wall > NonceTTL

\* Entries leave from the front, up to the first that is not old.
Evicts(n) ==
    /\ n \in popped..Len(accepted)
    /\ \A i \in popped + 1 .. n : Old(accepted[i])
    /\ n < Len(accepted) => ~Old(accepted[n + 1])

Fresh(request) ==
    /\ wallClock - request.stamp <= MaxSkew
    /\ request.stamp - wallClock <= MaxSkew

\* The nonce is looked up under the runner's name among what is left.
Seen(request, n) ==
    \E i \in n + 1 .. Len(accepted) :
        /\ accepted[i].request.runner = request.runner
        /\ accepted[i].request.nonce = request.nonce
HasRoom(n) == Len(accepted) - n < MaxNonces

\* verify: the eviction comes first, whatever becomes of the request.
Verify(request, intact) ==
    /\ \E n \in popped..Len(accepted) : Evicts(n) /\ popped' = n
    /\ \/ /\ request.runner \in KnownRunners
          /\ Fresh(request)
          /\ intact                      \* well formed, and the signature verifies
          /\ ~Seen(request, popped') /\ HasRoom(popped')
          /\ Len(accepted) < MaxAccepted
          /\ accepted' = Append(accepted, [request |-> request, mono |-> monoClock,
                                           wall |-> wallClock, back |-> back])
       \/ /\ \/ request.runner \notin KnownRunners
             \/ ~Fresh(request)
             \/ ~intact
             \/ Seen(request, popped')
             \/ ~HasRoom(popped')
          /\ UNCHANGED accepted
    /\ UNCHANGED <<wallClock, monoClock, back>>

\* A new process knows nothing of the old one's nonces.
AuthRestart ==
    /\ accepted' = <<>>
    /\ popped' = 0
    /\ UNCHANGED <<wallClock, monoClock, back>>

AuthTick ==
    /\ wallClock' = wallClock + 1 /\ monoClock' = monoClock + 1
    /\ {wallClock', monoClock'} \subseteq AuthTime
    /\ UNCHANGED <<accepted, popped, back>>

SetForward(step) ==
    /\ wallClock' = wallClock + step
    /\ wallClock' \in AuthTime
    /\ UNCHANGED <<monoClock, accepted, popped, back>>

SetBack(step) ==
    /\ wallClock >= step
    /\ wallClock' = wallClock - step
    /\ back' = back + step
    /\ back' \in AuthTime
    /\ UNCHANGED <<monoClock, accepted, popped>>

AuthInit ==
    /\ wallClock \in AuthTime
    /\ monoClock = 0
    /\ accepted = <<>>
    /\ popped = 0
    /\ back = 0

AuthNext ==
    \/ \E request \in Requests, intact \in BOOLEAN : Verify(request, intact)
    \/ AuthRestart
    \/ AuthTick
    \/ \E step \in Steps : SetForward(step) \/ SetBack(step)

AuthSpec == AuthInit /\ [][AuthNext]_authVars

----------------------------------------------------------------------------
(* Properties.                                                             *)

AuthEntries == [request : Requests, mono : Nat, wall : Nat, back : Nat]
AuthTypeOK ==
    /\ wallClock \in Nat /\ monoClock \in Nat /\ back \in Nat
    /\ accepted \in Seq(AuthEntries)
    /\ popped \in 0..Len(accepted)

\* "cannot be replayed", "a jump of either clock cannot evict it early",
\* "a nonce cannot be evicted while its timestamp is still acceptable": a
\* process accepts a request again only if more than NONCE_TTL has passed on
\* the monotonic clock and, meanwhile, the wall clock was set back by more
\* than the slack the TTL has over twice the skew.
AcceptedOnce ==
    \A i, j \in 1..Len(accepted) :
        i < j /\ accepted[i].request = accepted[j].request =>
            /\ accepted[j].mono - accepted[i].mono > NonceTTL
            /\ accepted[j].back - accepted[i].back > NonceTTL - 2 * MaxSkew

\* What AcceptedOnce rests on: the popped entries are old on the monotonic
\* clock, and on the wall clock but for what it was set back since.
PoppedAreOld ==
    \A i \in 1..popped :
        /\ monoClock - accepted[i].mono > NonceTTL
        /\ wallClock + (back - accepted[i].back) - accepted[i].wall > NonceTTL
AcceptedInTime ==
    \A i \in 1..Len(accepted) :
        /\ accepted[i].wall - accepted[i].request.stamp <= MaxSkew
        /\ accepted[i].request.stamp - accepted[i].wall <= MaxSkew
        /\ accepted[i].back <= back /\ accepted[i].mono <= monoClock
AuthInv == AuthTypeOK /\ PoppedAreOld /\ AcceptedInTime /\ AcceptedOnce
============================================================================
