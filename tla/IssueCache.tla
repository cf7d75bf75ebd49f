---------------------------- MODULE IssueCache ----------------------------
(***************************************************************************)
(* The issue handler of shoephoned (src/server.rs, `issue`).  It takes the *)
(* lock up to three times: to ask Grants, to look up or mint again, and to *)
(* cache what it signed.  Signing happens between, without the lock, so    *)
(* the calls of several agents, kills and approvals come in between.       *)
(*                                                                         *)
(* Each hold of the lock ends with the badge, which ticks the grants at a  *)
(* new reading of the clock (Daemon::with): `locked` until then.           *)
(***************************************************************************)
EXTENDS Grants

CONSTANT Callers   \* the agents calling issue, one call each at a time

VARIABLES
    locked,    \* TRUE from a handler's work to the end of its hold of the lock
    cache,     \* Inner::issued: window id -> the signed certificate
    doing      \* caller -> the step of its call and what it carries

cacheVars == <<locked, cache, doing>>
issueVars == <<grantsVars, cacheVars>>

Idle == [step |-> "idle"]
Holds == ~locked /\ locked' = TRUE
Does(c, d) == doing' = [doing EXCEPT ![c] = d]

----------------------------------------------------------------------------
\* window_id_for a fresh certificate: the first window - the windows are in
\* the order of their ids - for the host and key that ends when `w` does.
WindowIdFor(w, open) ==
    LET alike == {v \in Candidates(open, w.scope.host, w.scope.key) :
                     v.scope.endsAt = w.scope.endsAt}
    IN  CHOOSE id \in {v.id : v \in alike} : \A v \in alike : id <= v.id

\* prune_issued_cache.
PrunedCache(open) ==
    LET live == {v.id : v \in open}
    IN  [id \in DOMAIN cache \cap live |-> cache[id]]

\* What Grants picks for the host and key, and what it picks again for a call
\* that found no certificate.
Picked(s, h, k) == {w \in Candidates(s.windows, h, k) : Chosen(w, s.windows)}
PickedAgain(s, d) == Picked(s, d.w.scope.host, d.w.scope.key)

\* What a call carries from a fresh certificate to the cache.
ToSign(s, w, id) ==
    [step |-> "sign", id |-> id,
     cert |-> [serial |-> nextId, validAfter |-> s.now, validBefore |-> Expiry(s.now, w)]]

\* Ids enough for the calls under way, each of which may have to mint one.
IdsLeft == nextId + Cardinality(Callers) <= MaxId

\* The first hold of the lock: a certificate to sign, one to look up, or a
\* refusal.
Ask(c, t, h, k) ==
    LET s == Ticked(gate, t)
        picked == Picked(s, h, k)
    IN  /\ doing[c] = Idle /\ IdsLeft /\ Holds
        /\ \/ \E w \in picked :
                 /\ ~Reusable(w, s.now) /\ Fresh(s, w)
                 /\ Does(c, ToSign(s, w, WindowIdFor(w, s.windows)))
                 /\ cache' = PrunedCache(s.windows)
           \/ \E w \in picked :
                 /\ Reusable(w, s.now) /\ OnlyTicked(s)
                 /\ Does(c, [step |-> "lookup", w |-> w])
                 /\ cache' = PrunedCache(s.windows)
           \/ picked = {} /\ OnlyTicked(s) /\ UNCHANGED <<doing, cache>>

\* A reuse: the certificate cached for the window, or none.
Lookup(c) ==
    /\ doing[c].step = "lookup" /\ Holds
    /\ LET w == doing[c].w
       IN  \/ /\ w.id \in DOMAIN cache
              /\ Does(c, Idle)
           \/ /\ w.id \notin DOMAIN cache
              /\ Does(c, [doing[c] EXCEPT !.step = "force"])
    /\ UNCHANGED <<grantsVars, cache>>

\* No certificate to reuse: mint one whatever its age.  It is cached for the
\* window Grants named before, whichever window it is minted in now.
AskAgain(c, t) ==   \* wrong: asks as before, and may be sent to look again
    LET s == Ticked(gate, t)
        d == doing[c]
    IN  /\ d.step = "force" /\ Holds
        /\ \/ \E w \in PickedAgain(s, d) :
                 ~Reusable(w, s.now) /\ Fresh(s, w) /\ Does(c, ToSign(s, w, d.w.id))
           \/ \E w \in PickedAgain(s, d) :
                 Reusable(w, s.now) /\ OnlyTicked(s) /\ Does(c, [step |-> "lookup", w |-> w])
           \/ PickedAgain(s, d) = {} /\ OnlyTicked(s) /\ Does(c, Idle)
        /\ UNCHANGED cache
Force(c, t) ==
    LET s == Ticked(gate, t)
        d == doing[c]
    IN  /\ d.step = "force" /\ Holds
        /\ \/ \E w \in PickedAgain(s, d) : Fresh(s, w) /\ Does(c, ToSign(s, w, d.w.id))
           \/ PickedAgain(s, d) = {} /\ OnlyTicked(s) /\ Does(c, Idle)
        /\ UNCHANGED cache

\* Signed, outside the lock; then cached and answered.
Insert(c) ==
    LET d == doing[c]
    IN  /\ d.step = "sign" /\ Holds
        /\ cache' = [id \in DOMAIN cache \cup {d.id} |->
                        IF id = d.id THEN d.cert ELSE cache[id]]
        /\ Does(c, Idle)
        /\ UNCHANGED grantsVars

\* The end of a hold of the lock.
Badge(t) ==
    /\ locked /\ locked' = FALSE
    /\ SshTick(Ticked(gate, t))
    /\ UNCHANGED <<cache, doing>>

\* The other handlers that move the windows meanwhile.
Others(t) ==
    LET s == Ticked(gate, t)
    IN  /\ Holds /\ UNCHANGED <<cache, doing>>
        /\ \/ \E h \in Hosts, k \in Keys, d \in Wanted :
                 IdsLeft /\ SshRequest(s, h, k, d)
           \/ pending # None /\ SshApprove(s, pending.id, pending.nonce, pending.scope)
           \/ \E h \in Hosts : SshKill(s, h)

----------------------------------------------------------------------------
IssueInit ==
    /\ GrantsInit
    /\ locked = FALSE
    /\ cache = <<>>
    /\ doing = [c \in Callers |-> Idle]

IssueNext ==
    \/ \E t \in Readings :
          \/ \E c \in Callers :
                Force(c, t) \/ \E h \in Hosts, k \in Keys : Ask(c, t, h, k)
          \/ Badge(t) \/ Others(t)
    \/ \E c \in Callers : Lookup(c) \/ Insert(c)

IssueSpec == IssueInit /\ [][IssueNext]_issueVars

\* A call goes on once the lock is free, however many others take it first,
\* and whoever holds the lock lets it go.
IssueFairness ==
    /\ WF_issueVars(\E t \in Readings : Badge(t))
    /\ \A c \in Callers :
          /\ SF_issueVars(Lookup(c))
          /\ SF_issueVars(\E t \in Readings : Force(c, t))
          /\ SF_issueVars(Insert(c))
IssueFairSpec == IssueSpec /\ IssueFairness

----------------------------------------------------------------------------
(* Properties.                                                             *)

\* Every call is answered: the second ask, forced, cannot send the caller back
\* to a cache that will never hold the certificate (of two windows that end
\* together Grants names the later one and the cache is filled under the
\* earlier one).
EveryCallEnds == \A c \in Callers : doing[c] # Idle ~> doing[c] = Idle

\* With the calls overlapping, whatever is minted lies within a window as it was
\* signed, and each call ends: a handler that used after an unlock what it read
\* before would break the one, one that waited for it the other.
CallsEndInScope == []CertsWithinSignedScope /\ EveryCallEnds
============================================================================
