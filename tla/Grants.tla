------------------------------ MODULE Grants ------------------------------
(***************************************************************************)
(* SSH grants for one approver (src/grant.rs, `Grants`): one request may   *)
(* wait for a verdict, an approval opens a window, and inside the window   *)
(* certificates are issued until it ends or is killed.                     *)
(*                                                                         *)
(* Every public method reads a wall clock that may step backward, so each  *)
(* action works on s = Ticked(gate, t) for some t in Time: what the        *)
(* private `tick` makes of the state before the method's own work.  A      *)
(* refused call changes no more than its tick did, so a refusal of         *)
(* malformed input (no reason, unknown host, bad key) is an SshTick.       *)
(***************************************************************************)
EXTENDS Gate, FiniteSets

CONSTANTS
    Hosts,        \* the hosts with a principal
    Keys,         \* public keys a requester may name
    Wanted,       \* window lengths a request may ask for, the default included
    MaxWindow,    \* Policy::max_window
    PendingTTL,   \* Policy::pending_ttl
    CertTTL       \* Policy::cert_ttl

VARIABLES
    highWater,    \* the latest time a Grants method has seen
    pending,      \* the request awaiting a verdict, or None
    windows,      \* the open windows
    events,       \* the ledger lines recorded, drained or not
    signed,       \* history: the approvals accepted, as they were signed
    certs         \* history: the certificates handed out for signing

sshVars == <<highWater, pending, windows, events, signed, certs>>
grantsVars == <<gate, nextId, sshVars>>

Scopes == [host: Hosts, key: Keys, endsAt: Nat]
Requests == [id: Nat, nonce: Nat, scope: Scopes, created: Nat]
LastIssued == [serial: Nat, validAfter: Nat, validBefore: Nat]
Windows == [id: Nat, scope: Scopes, started: Nat, last: LastIssued \cup {None}]

ASSUME GrantsAssumption ==
    /\ Wanted \subseteq Nat
    /\ {MaxWindow, PendingTTL, CertTTL} \subseteq Nat
    /\ None \notin Requests
    /\ None \notin LastIssued

Verdicts == {"approved", "declined", "timed_out"}
Lines == [kind: {"requested", "declined", "timed_out", "killed"},
          id: Nat, host: Hosts, at: Nat]
    \cup [kind: {"approved"}, id: Nat, host: Hosts, endsAt: Nat, at: Nat]
    \cup [kind: {"issued"}, id: Nat, serial: Nat, host: Hosts,
          validBefore: Nat, at: Nat]
Line(kind, id, host, at) == [kind |-> kind, id |-> id, host |-> host, at |-> at]

----------------------------------------------------------------------------
\* Grants::tick at clock reading t.  A pending request whose time is up is
\* timed out, and struck, as of the moment it expired.  `g` is the gate as the
\* caller left it: a handler may have moved it under the same lock.
Lapsed(now) == pending # None /\ pending.created + PendingTTL <= now
ExpiredAt == pending.created + PendingTTL
Clamped(t) == Later(t, highWater)
NoTimeoutLines(now) == {}   \* wrong: a timeout is not recorded
TimeoutLines(now) ==
    IF Lapsed(now) THEN {Line("timed_out", pending.id, pending.scope.host, ExpiredAt)}
    ELSE {}
Ticked(g, t) ==
    LET now == Clamped(t)
    IN  [now     |-> now,
         pending |-> IF Lapsed(now) THEN None ELSE pending,
         windows |-> {w \in windows : w.scope.endsAt > now},
         gate    |-> GateTicked(
                        IF Lapsed(now)
                        THEN StruckAt(Released(g, <<"ssh", pending.id>>), ExpiredAt)
                        ELSE g,
                        now),
         events  |-> events \cup TimeoutLines(now)]

\* The step of a call that does nothing after its tick.
OnlyTicked(s) ==
    /\ highWater' = s.now
    /\ pending' = s.pending
    /\ windows' = s.windows
    /\ gate' = s.gate
    /\ events' = s.events
    /\ UNCHANGED <<nextId, signed, certs>>

\* pending(), windows(), outstanding(), pending_count().
SshTick(s) == OnlyTicked(s)

\* Grants::request.  The nonce drawn for a request is new; the id stands for it.
SshRequest(s, host, key, wanted) ==
    LET scope == [host |-> host, key |-> key,
                  endsAt |-> s.now + Earlier(wanted, MaxWindow)]
    IN  \/ /\ Admits(s.gate, s.now)
           /\ nextId <= MaxId /\ s.now <= LastRequest
           /\ highWater' = s.now
           /\ AllocateId
           /\ pending' = [id |-> nextId, nonce |-> nextId,
                          scope |-> scope, created |-> s.now]
           /\ windows' = s.windows
           /\ gate' = Admitted(s.gate, s.now, <<"ssh", nextId>>)
           /\ events' = s.events \cup {Line("requested", nextId, host, s.now)}
           /\ UNCHANGED <<signed, certs>>
        \/ ~Admits(s.gate, s.now) /\ OnlyTicked(s)

\* Grants::approve: what was signed must be what is pending.  Nothing looks
\* at the end of the window again.
Matches(s, id, nonce, scope) ==
    /\ s.pending # None
    /\ s.pending.id = id
    /\ s.pending.nonce = nonce
    /\ s.pending.scope = scope
SshApprove(s, id, nonce, scope) ==
    LET granted == s.pending.scope
    IN  \/ /\ Matches(s, id, nonce, scope)
           /\ highWater' = s.now
           /\ pending' = None
           /\ windows' = s.windows \cup
                  {[id |-> id, scope |-> granted, started |-> s.now, last |-> None]}
           /\ gate' = Forgiven(Released(s.gate, <<"ssh", id>>))
           /\ events' = s.events \cup
                  {[kind |-> "approved", id |-> id, host |-> granted.host,
                    endsAt |-> granted.endsAt, at |-> s.now]}
           /\ signed' = signed \cup {[id |-> id, nonce |-> nonce, scope |-> scope]}
           /\ UNCHANGED <<nextId, certs>>
        \/ ~Matches(s, id, nonce, scope) /\ OnlyTicked(s)

\* Grants::decline.
SshDecline(s, id) ==
    LET matches == s.pending # None /\ s.pending.id = id
    IN  \/ /\ matches
           /\ highWater' = s.now
           /\ pending' = None
           /\ windows' = s.windows
           /\ gate' = StruckAt(Released(s.gate, <<"ssh", id>>), s.now)
           /\ events' = s.events \cup
                  {Line("declined", id, s.pending.scope.host, s.now)}
           /\ UNCHANGED <<nextId, signed, certs>>
        \/ ~matches /\ OnlyTicked(s)

----------------------------------------------------------------------------
\* The window Grants::issue picks among those for this host and key: the one
\* that ends last, and of two that end together the one opened later.
Candidates(open, host, key) ==
    {w \in open : w.scope.host = host /\ w.scope.key = key}
Chosen(w, open) ==
    \A v \in Candidates(open, w.scope.host, w.scope.key) :
        \/ v.scope.endsAt < w.scope.endsAt
        \/ v.scope.endsAt = w.scope.endsAt /\ v.id <= w.id

\* Whether the window's last certificate is handed out again: it is less than
\* half a TTL old (2 * age < CertTTL, exact where CertTTL \div 2 is not) and
\* still has time left.
Reusable(w, now) ==
    /\ w.last # None
    /\ 2 * (now - w.last.validAfter) < CertTTL
    /\ w.last.validBefore > now

\* When a certificate minted now in window w ends.
ExpiryUncapped(now, w) == now + CertTTL   \* wrong: outlives its window
Expiry(now, w) == Earlier(now + CertTTL, w.scope.endsAt)

\* Grants::issue.  A reuse answer, like a refusal, changes nothing.
Fresh(s, w) ==
    LET last == [serial |-> nextId, validAfter |-> s.now,
                 validBefore |-> Expiry(s.now, w)]
    IN  /\ nextId <= MaxId
        /\ highWater' = s.now
        /\ AllocateId
        /\ pending' = s.pending
        /\ windows' = (s.windows \ {w}) \cup {[w EXCEPT !.last = last]}
        /\ gate' = s.gate
        /\ events' = s.events \cup
               {[kind |-> "issued", id |-> w.id, serial |-> last.serial,
                 host |-> w.scope.host, validBefore |-> last.validBefore,
                 at |-> s.now]}
        /\ certs' = certs \cup {[window |-> w.id, host |-> w.scope.host,
                                 key |-> w.scope.key, cert |-> last]}
        /\ UNCHANGED signed
SshIssue(s, host, key, forceFresh) ==
    LET chosen == {w \in Candidates(s.windows, host, key) : Chosen(w, s.windows)}
    IN  \/ \E w \in chosen : (forceFresh \/ ~Reusable(w, s.now)) /\ Fresh(s, w)
        \/ /\ \A w \in chosen : ~forceFresh /\ Reusable(w, s.now)
           /\ OnlyTicked(s)

\* Grants::kill: every window of the host is closed and its pending request
\* is declined.  With neither it is refused (NoWindow), and only ticks.
SparesPending(s, host) == FALSE   \* wrong: closes the windows only
StopsPending(s, host) == s.pending # None /\ s.pending.scope.host = host
SshKill(s, host) ==
    LET closed == {w \in s.windows : w.scope.host = host}
        stopped == StopsPending(s, host)
    IN  /\ highWater' = s.now
        /\ windows' = s.windows \ closed
        /\ pending' = IF stopped THEN None ELSE s.pending
        /\ gate' = IF stopped
                   THEN StruckAt(Released(s.gate, <<"ssh", s.pending.id>>), s.now)
                   ELSE s.gate
        /\ events' = s.events
               \cup {Line("killed", w.id, host, s.now) : w \in closed}
               \cup IF stopped THEN {Line("declined", s.pending.id, host, s.now)} ELSE {}
        /\ UNCHANGED <<nextId, signed, certs>>

----------------------------------------------------------------------------
GrantsInit ==
    /\ gate = EmptyGate
    /\ nextId = 1
    /\ highWater = 0
    /\ pending = None
    /\ windows = {}
    /\ events = {}
    /\ signed = {}
    /\ certs = {}

\* The approvals presented while a request waits: the one signed over what is
\* pending, and ones that differ from it in one field.  An approval presented
\* when nothing waits is refused like any other.
Presented ==
    LET right == [id |-> pending.id, nonce |-> pending.nonce, scope |-> pending.scope]
    IN  IF pending = None THEN {}
        ELSE {right, [right EXCEPT !.id = @ - 1], [right EXCEPT !.nonce = @ - 1],
              [right EXCEPT !.scope.endsAt = @ + 1]}
             \cup {[right EXCEPT !.scope.host = h] : h \in Hosts}

\* The clock readings worth a step: how far behind highWater one lies makes
\* no difference, every method clamps it.
Readings == {t \in Time : t + 1 >= highWater}

GrantsNext ==
    \E t \in Readings : LET s == Ticked(gate, t) IN
        \/ SshTick(s)
        \/ \E h \in Hosts, k \in Keys, d \in Wanted : SshRequest(s, h, k, d)
        \/ \E a \in Presented : SshApprove(s, a.id, a.nonce, a.scope)
        \/ \E id \in Ids : SshDecline(s, id)
        \/ \E h \in Hosts, k \in Keys, f \in BOOLEAN : SshIssue(s, h, k, f)
        \/ \E h \in Hosts : SshKill(s, h)

GrantsSpec == GrantsInit /\ [][GrantsNext]_grantsVars

----------------------------------------------------------------------------
(* Properties *)

\* Type invariant of the state Grants holds and of its histories.
SshTypeOK ==
    /\ gate \in Gates
    /\ nextId \in Nat
    /\ highWater \in Nat
    /\ pending \in Requests \cup {None}
    /\ windows \subseteq Windows
    /\ events \subseteq Lines
    /\ signed \subseteq [id: Nat, nonce: Nat, scope: Scopes]
    /\ certs \subseteq [window: Nat, host: Hosts, key: Keys, cert: LastIssued]

Requested == {e \in events : e.kind = "requested"}
Answers == {e \in events : e.kind \in Verdicts}
Unapproved == {e \in events : e.kind \in {"declined", "timed_out"}}
Killed == {e \in events : e.kind = "killed"}

\* Every request the ledger shows is either the one still waiting or has
\* exactly one verdict line, for its own host and not dated before it: a
\* timeout found by a late tick, a decline, a kill and an approval never both
\* answer one request, and none is dropped without an answer.
EveryRequestAnsweredOnce ==
    /\ \A e \in Answers : \E r \in Requested :
           r.id = e.id /\ r.host = e.host /\ r.at <= e.at
    /\ \A e, f \in Answers : e.id = f.id => e = f
    /\ \A r \in Requested :
           (\A e \in Answers : e.id # r.id)
               <=> (pending # None /\ pending.id = r.id)

\* The slot is held exactly while a request waits, by that request: no path
\* that ends a request leaks the slot, and none frees it early.
SlotIsHeldByPending ==
    gate.occupant = IF pending = None THEN {} ELSE {<<"ssh", pending.id>>}

\* A request is asked once, answered once, and holds the slot just until then.
RequestsAreAnswered == EveryRequestAnsweredOnce /\ SlotIsHeldByPending

\* An open window is one approval, signed over exactly the window's scope,
\* written to the ledger and not killed since; two windows are two approvals.
OpenWindowsStand ==
    /\ \A w \in windows :
           /\ \E a \in signed : a.id = w.id /\ a.scope = w.scope
           /\ \E e \in Answers : e.kind = "approved" /\ e.id = w.id
                                  /\ e.host = w.scope.host
           /\ \A k \in Killed : k.id # w.id
    /\ \A v, w \in windows : v.id = w.id => v = w

\* A certificate is only for a host and key somebody signed for, lives no
\* longer than the signed end and one TTL, starts before that end, and is never
\* issued after the kill switch closed its window.
CertsWithinSignedScope ==
    \A c \in certs :
        /\ \E a \in signed :
               /\ a.id = c.window
               /\ a.scope.host = c.host /\ a.scope.key = c.key
               /\ c.cert.validBefore <= a.scope.endsAt
               /\ c.cert.validAfter < a.scope.endsAt
        /\ c.cert.validBefore <= c.cert.validAfter + CertTTL
        /\ \A k \in Killed : k.id = c.window => c.cert.validAfter <= k.at

\* Serials and request ids come from one counter and never collide, and a
\* later serial never starts before an earlier one, whatever the wall clock
\* does ("a clock that steps backward cannot hand out a certificate whose
\* valid_after precedes one already issued", grant.rs on high_water).
SerialsFollowTime ==
    /\ \A c, d \in certs :
           /\ c.cert.serial = d.cert.serial => c = d
           /\ c.cert.serial < d.cert.serial => c.cert.validAfter <= d.cert.validAfter
    /\ \A c \in certs, r \in Requested : c.cert.serial # r.id

\* What an approval opens, what is issued in it and in what order: as it was
\* signed, until its end or its kill.
ApprovalsStand == OpenWindowsStand /\ CertsWithinSignedScope /\ SerialsFollowTime

\* How many requests in a row, ending with the one `e` answers, ended without
\* an approval, read off the ledger.
InARow(e) ==
    Cardinality({f \in Unapproved :
        /\ f.id <= e.id
        /\ \A a \in Answers : a.kind = "approved" => ~(f.id < a.id /\ a.id < e.id)})

\* After a request that ended without an approval, no request is accepted
\* before the cooldown has passed, and the n-th such end in a row costs the
\* n-th cooldown, counted from when it really ended.
CooldownBacksOff ==
    \A e \in Unapproved, r \in Requested :
        r.id > e.id => r.at >= e.at + Cooldown(InARow(e))

\* "What Gate::admit would say" (gate.rs on check): the forecast an agent is
\* given before it sends its payload is the verdict the gate then gives.
ForecastIsRight ==
    \A t \in Time : t >= highWater =>
        (CheckPasses(gate, t) <=> Admits(GateTicked(gate, t), t))

\* No hour, wherever it starts, holds more accepted requests than the cap.
HourlyCap ==
    \A r \in Requested :
        Cardinality({q \in Requested : q.at <= r.at /\ q.at + Hour > r.at})
            <= MaxRequestsPerHour

\* How often a person may be asked, and what an agent is told of it.
RequestsAreLimited == CooldownBacksOff /\ HourlyCap /\ ForecastIsRight

\* The kill switch leaves nothing of the host standing, not the windows and
\* not a request a tap could still approve, and leaves the other hosts'
\* unexpired windows alone.
KillStopsHost ==
    [][\A e \in events' \ events :
          e.kind = "killed" =>
              /\ \A w \in windows' : w.scope.host # e.host
              /\ pending' # None => pending'.scope.host # e.host
              /\ \A w \in windows :
                    w.scope.host # e.host /\ w.scope.endsAt > highWater' => w \in windows'
      ]_grantsVars

\* The requests, windows and certificates as questions, grants and uses.
SshCovers(scope, act) ==
    act.host = scope.host /\ act.key = scope.key /\ act.until <= scope.endsAt
SshOnce(scope) == FALSE
SshQuestion(x) == [id |-> x.id, scope |-> x.scope]
SshPast == {r.id : r \in Requested}
SshOpen == IF pending = None THEN {} ELSE {SshQuestion(pending)}
SshGranted == {SshQuestion(w) : w \in windows}
SshUse(c) == [id |-> c.window,
              act |-> [host |-> c.host, key |-> c.key, until |-> c.cert.validBefore]]
SshUses == {SshUse(c) : c \in certs}

SshApprovals == INSTANCE Approvals WITH
    Covers <- SshCovers, Once <- SshOnce,
    past <- SshPast, open <- SshOpen, granted <- SshGranted, uses <- SshUses

\* A window opens only for the request that waits, and no certificate is handed
\* out but in a window that is open at that moment, within what was asked: not
\* after the window ended or was killed, and not in one that never was asked for.
SshIsAnApproval == SshApprovals!Spec
============================================================================
