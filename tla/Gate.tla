------------------------------- MODULE Gate -------------------------------
(***************************************************************************)
(* The slot, the hourly cap and the cooldown that every kind of request    *)
(* for one approver shares (src/gate.rs).                              *)
(*                                                                         *)
(* A gate is a record:                                                     *)
(*   occupant       the holders of the slot: a set, empty when it is free; *)
(*                  admit puts one in an empty set, release takes exactly  *)
(*                  its own out.  A holder is <<"ssh", id>> or             *)
(*                  <<"job", id>>.                                         *)
(*   accepted       the times of the accepted requests, a sequence that    *)
(*                  grows at its end and is popped at its front.           *)
(*   cooldownUntil  when the cooldown ends; 0 is "no cooldown", which no   *)
(*                  clock reading is before.                               *)
(*   strikes        requests in a row that ended without an approval.      *)
(*                                                                         *)
(* The operators are functions of a gate, so that a caller can apply       *)
(* several under one lock.  Grants owns the gate and the id counter, and   *)
(* Jobs is lent both (Grants::gate_mut, Grants::allocate_id).              *)
(***************************************************************************)
EXTENDS Integers, Sequences, FiniteSets

CONSTANTS
    MaxRequestsPerHour,  \* Policy::max_requests_per_hour
    Hour,                \* gate.rs HOUR, in ticks of the model's clock
    BaseCooldown,        \* Policy::base_cooldown
    MaxCooldown,         \* Policy::max_cooldown
    MaxDoublings,        \* the `.min(16)` of Gate::strike_at
    Time,                \* what the wall clock may read
    None,                \* an absent value
    LastRequest,         \* bound: no request is accepted after this time
    MaxId                \* bound: the highest id handed out

VARIABLES
    gate,    \* the record described above
    nextId   \* the one counter behind request ids, serials and job ids

ASSUME GateAssumption ==
    /\ MaxRequestsPerHour \in Nat
    /\ Hour \in Nat \ {0}
    /\ BaseCooldown \in Nat
    /\ MaxCooldown \in Nat
    /\ BaseCooldown <= MaxCooldown
    /\ MaxDoublings \in Nat
    /\ Time \subseteq Nat
    /\ {LastRequest, MaxId} \subseteq Nat

\* The powers of two the cooldown is multiplied by are positive numbers.
ASSUME DoublingAssumption == \A k \in 0..MaxDoublings : 2^k \in Nat \ {0}

----------------------------------------------------------------------------
Earlier(a, b) == IF a <= b THEN a ELSE b
Later(a, b) == IF a <= b THEN b ELSE a

\* The ids handed out.
Ids == 1..MaxId

Occupants == {"ssh", "job"} \X Nat

Gates == [occupant: SUBSET Occupants, accepted: Seq(Nat),
          cooldownUntil: Nat, strikes: Nat]

EmptyGate == [occupant |-> {}, accepted |-> <<>>, cooldownUntil |-> 0, strikes |-> 0]

\* Gate::admit lets a request in: the slot is free, no cooldown runs, and the
\* cap is not spent.  It counts what `accepted` holds, expired or not.
AdmitsASecond(g, now) ==   \* wrong: no look at the slot
    /\ g.cooldownUntil <= now
    /\ Len(g.accepted) < MaxRequestsPerHour
Admits(g, now) ==
    /\ g.occupant = {}
    /\ g.cooldownUntil <= now
    /\ Len(g.accepted) < MaxRequestsPerHour

\* Gate::check, the read-only forecast: expired acceptances do not count.
Live(t, now) == t + Hour > now
CheckPasses(g, now) ==
    /\ g.occupant = {}
    /\ g.cooldownUntil <= now
    /\ Cardinality({i \in DOMAIN g.accepted : Live(g.accepted[i], now)})
           < MaxRequestsPerHour

\* The state Gate::admit leaves when it lets `o` in.
AdmittedUncounted(g, now, o) ==   \* wrong: jobs do not count against the cap
    [g EXCEPT !.occupant = {o},
              !.accepted = IF o[1] = "job" THEN @ ELSE Append(@, now)]
Admitted(g, now, o) ==
    [g EXCEPT !.occupant = {o}, !.accepted = Append(@, now)]

\* Gate::release: only the holder's own release frees the slot.
Released(g, o) == [g EXCEPT !.occupant = @ \ {o}]

\* The cooldown the n-th strike in a row costs.
Cooldown(n) == Earlier(BaseCooldown * 2^Earlier(n - 1, MaxDoublings), MaxCooldown)

\* Gate::strike_at, counting the cooldown from `at`.
StruckBefore(g, at) ==   \* wrong: the cooldown lies before the strike
    [g EXCEPT !.strikes = @ + 1, !.cooldownUntil = at - Cooldown(g.strikes + 1)]
StruckOnce(g, at) ==   \* wrong: the strikes in a row are not counted
    [g EXCEPT !.cooldownUntil = at + Cooldown(1)]
StruckAt(g, at) ==
    [g EXCEPT !.strikes = @ + 1, !.cooldownUntil = at + Cooldown(g.strikes + 1)]

\* Gate::approved: only an approval forgets strikes and ends a cooldown.
Forgiven(g) == [g EXCEPT !.strikes = 0, !.cooldownUntil = 0]

\* Gate::tick pops the front while it is an hour old, and stops at the first
\* that is not: an old time behind a newer one stays.
FirstLive(s, now) ==
    CHOOSE i \in DOMAIN s : Live(s[i], now) /\ \A j \in 1..(i - 1) : ~Live(s[j], now)
PopExpired(s, now) ==
    IF \E i \in DOMAIN s : Live(s[i], now)
    THEN SubSeq(s, FirstLive(s, now), Len(s))
    ELSE <<>>
GateTicked(g, now) == [g EXCEPT !.accepted = PopExpired(@, now)]

\* Grants::allocate_id: grant ids, serials and job ids come from one counter.
AllocateNothing == UNCHANGED nextId   \* wrong: the counter stands still
AllocateId == nextId' = nextId + 1
============================================================================
