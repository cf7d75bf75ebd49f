--------------------------- MODULE GrantsProofs ---------------------------
(***************************************************************************)
(* What holds of Grants for every host, key, policy and clock.             *)
(***************************************************************************)
EXTENDS Grants, GateProofs

----------------------------------------------------------------------------
(* The inductive invariant.  Its parts are stated of the pieces of state a *)
(* call's tick has worked out (the record s = Ticked(gate, t)), so that    *)
(* the same formula speaks of the state before a call, of what the tick    *)
(* makes of it and, primed, of the state the call leaves.                  *)

AskedIn(es) == {e \in es : e.kind = "requested"}
AnswersIn(es) == {e \in es : e.kind \in Verdicts}
KilledIn(es) == {e \in es : e.kind = "killed"}

Typed(now, p, ws, g, es) ==
    /\ g \in Gates
    /\ nextId \in Nat
    /\ now \in Nat
    /\ p \in Requests \cup {None}
    /\ ws \subseteq Windows
    /\ es \subseteq Lines
    /\ signed \subseteq [id: Nat, nonce: Nat, scope: Scopes]
    /\ certs \subseteq [window: Nat, host: Hosts, key: Keys, cert: LastIssued]

\* Of the requests for SSH access, the one that waits has the slot.  Another
\* kind of request may hold it: whoever owns the gate lends it.
Slotted(p, g) == HoldOf("ssh", g) = IF p = None THEN {} ELSE {<<"ssh", p.id>>}

\* EveryRequestAnsweredOnce, and what keeps it so: the ledger shows the
\* request that waits, and no id that is still to be handed out.
Replied(p, es) ==
    /\ \A e \in AnswersIn(es) : \E r \in AskedIn(es) :
           r.id = e.id /\ r.host = e.host /\ r.at <= e.at
    /\ \A e, f \in AnswersIn(es) : e.id = f.id => e = f
    /\ \A r \in AskedIn(es) :
           (\A e \in AnswersIn(es) : e.id # r.id) <=> (p # None /\ p.id = r.id)
    /\ \A r \in AskedIn(es) : r.id < nextId
Dated(now, p, es) ==
    p # None =>
        /\ p.created <= now
        /\ \E r \in AskedIn(es) :
               r.id = p.id /\ r.host = p.scope.host /\ r.at = p.created

\* OpenWindowsStand, and that only approved requests have been killed.
Standing(ws, es) ==
    /\ \A w \in ws :
           /\ \E a \in signed : a.id = w.id /\ a.scope = w.scope
           /\ \E e \in AnswersIn(es) : e.kind = "approved" /\ e.id = w.id
                                        /\ e.host = w.scope.host
           /\ \A k \in KilledIn(es) : k.id # w.id
    /\ \A v, w \in ws : v.id = w.id => v = w
    /\ \A k \in KilledIn(es) : \E e \in AnswersIn(es) : e.id = k.id

\* CertsWithinSignedScope and SerialsFollowTime, and that no certificate is
\* from the future or has a serial that is still to be handed out.
Certified(now, es) ==
    /\ \A c \in certs :
           /\ \E a \in signed :
                  /\ a.id = c.window
                  /\ a.scope.host = c.host /\ a.scope.key = c.key
                  /\ c.cert.validBefore <= a.scope.endsAt
                  /\ c.cert.validAfter < a.scope.endsAt
           /\ c.cert.validBefore <= c.cert.validAfter + CertTTL
           /\ \A k \in KilledIn(es) : k.id = c.window => c.cert.validAfter <= k.at
           /\ c.cert.validAfter <= now
           /\ c.cert.serial < nextId
    /\ \A c, d \in certs :
           /\ c.cert.serial = d.cert.serial => c = d
           /\ c.cert.serial < d.cert.serial => c.cert.validAfter <= d.cert.validAfter
    /\ \A c \in certs, r \in AskedIn(es) : c.cert.serial # r.id

Sound(now, p, ws, g, es) ==
    /\ Typed(now, p, ws, g, es)
    /\ Slotted(p, g)
    /\ Replied(p, es)
    /\ Dated(now, p, es)
    /\ Standing(ws, es)
    /\ Certified(now, es)
SoundWith(g) == Sound(highWater, pending, windows, g, events)

\* The gate a call's tick starts from may be one that another machine has moved
\* under the same lock; Grants alone starts from the gate as it stands.
IInv == SoundWith(gate)

\* What an action may count on once its tick has run.
Ready(s) ==
    /\ Sound(s.now, s.pending, s.windows, s.gate, s.events)
    /\ \A w \in s.windows : w.scope.endsAt > s.now

\* A ledger line is a line, with the fields it was given.
LEMMA LineFields ==
    ASSUME NEW kind \in {"requested", "declined", "timed_out", "killed"},
           NEW id \in Nat, NEW host \in Hosts, NEW at \in Nat
    PROVE  /\ Line(kind, id, host, at) \in Lines
           /\ Line(kind, id, host, at).kind = kind
           /\ Line(kind, id, host, at).id = id
           /\ Line(kind, id, host, at).host = host
           /\ Line(kind, id, host, at).at = at
BY DEF Line, Lines

\* The request that waits is one, and holds the slot under its own id.
LEMMA PendingFields ==
    ASSUME NEW p \in Requests \cup {None}, p # None
    PROVE  /\ p.id \in Nat /\ p.nonce \in Nat /\ p.created \in Nat
           /\ p.scope \in Scopes /\ p.scope.host \in Hosts
           /\ p.scope.key \in Keys /\ p.scope.endsAt \in Nat
           /\ <<"ssh", p.id>> \in Occupants
BY DEF Requests, Scopes, Occupants

\* A line that answers the request that waits, for its host and not before it
\* was made, leaves every request answered once.
LEMMA AnswerRecorded ==
    ASSUME NEW p, p # None, NEW now, NEW es, NEW more, NEW line,
           Replied(p, es), Dated(now, p, es),
           line.id = p.id, line.host = p.scope.host, p.created <= line.at,
           AskedIn(more) = AskedIn(es), AnswersIn(more) = AnswersIn(es) \cup {line}
    PROVE  Replied(None, more)
<1>1. PICK r \in AskedIn(es) :
          r.id = p.id /\ r.host = p.scope.host /\ r.at = p.created
  BY DEF Dated
<1>2. \A e \in AnswersIn(es) : e.id # line.id
  BY <1>1 DEF Replied
<1>3. \A e \in AnswersIn(more) : \E q \in AskedIn(more) :
          q.id = e.id /\ q.host = e.host /\ q.at <= e.at
  BY <1>1 DEF Replied
<1>4. \A e, f \in AnswersIn(more) : e.id = f.id => e = f
  BY <1>2 DEF Replied
<1>5. \A q \in AskedIn(more) : \E e \in AnswersIn(more) : e.id = q.id
  BY DEF Replied
<1>6. \A q \in AskedIn(more) : q.id < nextId
  BY DEF Replied
<1> QED  BY <1>3, <1>4, <1>5, <1>6 DEF Replied

\* The times of a certificate that has been handed out are times.
LEMMA CertFields ==
    ASSUME certs \subseteq [window: Nat, host: Hosts, key: Keys, cert: LastIssued],
           NEW c \in certs
    PROVE  /\ c.window \in Nat /\ c.cert \in LastIssued
           /\ c.cert.serial \in Nat
           /\ c.cert.validAfter \in Nat
           /\ c.cert.validBefore \in Nat
BY DEF LastIssued

\* Time that passes leaves the certificates as they are.
LEMMA CertifiedLater ==
    ASSUME certs \subseteq [window: Nat, host: Hosts, key: Keys, cert: LastIssued],
           NEW now \in Nat, NEW later \in Nat, now <= later, NEW es, NEW more,
           Certified(now, es),
           AskedIn(more) = AskedIn(es), KilledIn(more) = KilledIn(es)
    PROVE  Certified(later, more)
<1>1. \A c \in certs : c.cert.validAfter <= later
  <2> SUFFICES ASSUME NEW c \in certs PROVE c.cert.validAfter <= later
    OBVIOUS
  <2>1. c.cert.validAfter <= now
    BY DEF Certified
  <2>2. c.cert.validAfter \in Nat
    BY CertFields
  <2> QED  BY <2>1, <2>2
<1> QED  BY <1>1 DEF Certified

----------------------------------------------------------------------------
(* The tick every call starts with.                                        *)

\* A tick keeps the invariant whatever the wall clock reads, and leaves no
\* window that has ended.
LEMMA TickIsSound ==
    ASSUME NEW g, SoundWith(g), NEW t \in Time
    PROVE  Ready(Ticked(g, t)) /\ Ticked(g, t).now >= highWater
<1> DEFINE s == Ticked(g, t)
           now == Clamped(t)
           late == Line("timed_out", pending.id, pending.scope.host, ExpiredAt)
           struck == StruckAt(Released(g, <<"ssh", pending.id>>), ExpiredAt)
<1>1. now \in Nat /\ now >= highWater
  BY GateAssumption DEF SoundWith, Sound, Typed, Clamped, Later
<1>2. /\ s.now = now
      /\ s.pending = IF Lapsed(now) THEN None ELSE pending
      /\ s.windows = {w \in windows : w.scope.endsAt > now}
      /\ s.gate = GateTicked(IF Lapsed(now) THEN struck ELSE g, now)
      /\ s.events = events \cup TimeoutLines(now)
  BY DEF Ticked
<1> SUFFICES Ready(s) /\ s.now >= highWater
  OBVIOUS
<1> HIDE DEF s, now, late, struck
<1>3. g \in Gates
  BY DEF SoundWith, Sound, Typed
<1>4. /\ highWater \in Nat
      /\ certs \subseteq [window: Nat, host: Hosts, key: Keys, cert: LastIssued]
      /\ Certified(highWater, events)
  BY DEF SoundWith, Sound, Typed
<1>5. s.windows \subseteq windows /\ \A w \in s.windows : w.scope.endsAt > s.now
  BY <1>2
<1>6. CASE ~Lapsed(now)
  <2>1. s.pending = pending /\ s.events = events
    BY <1>2, <1>6 DEF TimeoutLines
  <2>2. s.gate \in Gates /\ HoldOf("ssh", s.gate) = HoldOf("ssh", g)
    <3>1. s.gate = GateTicked(g, now)
      BY <1>2, <1>6
    <3>2. <<"ssh", 0>> \in Occupants
      BY DEF Occupants
    <3> QED  BY <1>1, <1>3, <3>1, <3>2, HolderOps
  <2>3. Typed(s.now, s.pending, s.windows, s.gate, s.events)
    BY <1>1, <1>2, <2>1, <2>2, <1>5 DEF SoundWith, Sound, Typed
  <2>4. Slotted(s.pending, s.gate) /\ Replied(s.pending, s.events)
    BY <2>1, <2>2 DEF SoundWith, Sound, Slotted
  <2>5. Dated(s.now, s.pending, s.events)
    <3> SUFFICES ASSUME pending # None PROVE Dated(now, pending, events)
      BY <1>2, <2>1 DEF Dated
    <3>1. pending.created \in Nat
      BY PendingFields DEF SoundWith, Sound, Typed
    <3>2. Dated(highWater, pending, events)
      BY DEF SoundWith, Sound
    <3>3. pending.created <= now
      BY <1>1, <1>4, <3>1, <3>2 DEF Dated
    <3> QED  BY <3>2, <3>3 DEF Dated
  <2>6. Standing(s.windows, s.events)
    BY <2>1, <1>5 DEF SoundWith, Sound, Standing
  <2>7. Certified(s.now, s.events)
    BY <1>1, <1>2, <1>4, <2>1, CertifiedLater
  <2> QED  BY <1>1, <1>2, <1>5, <2>3, <2>4, <2>5, <2>6, <2>7 DEF Ready, Sound
<1>7. CASE Lapsed(now)
  <2>1. s.pending = None /\ s.events = events \cup {late}
    BY <1>2, <1>7 DEF TimeoutLines, late
  <2>2. pending # None /\ pending \in Requests \cup {None}
    BY <1>7 DEF Lapsed, SoundWith, Sound, Typed
  <2>3. ExpiredAt \in Nat /\ ExpiredAt >= pending.created
    <3>1. pending.created \in Nat /\ PendingTTL \in Nat
      BY <2>2, PendingFields, GrantsAssumption
    <3> QED  BY <3>1 DEF ExpiredAt
  <2>4. s.gate \in Gates /\ HoldOf("ssh", s.gate) = {}
    <3>1. pending.id \in Nat
      BY <2>2, PendingFields
    <3>2. HoldOf("ssh", g) = {<<"ssh", pending.id>>}
      BY <2>2 DEF SoundWith, Sound, Slotted
    <3>3. Released(g, <<"ssh", pending.id>>) \in Gates
          /\ HoldOf("ssh", Released(g, <<"ssh", pending.id>>)) = {}
      BY <1>1, <1>3, <3>1, <3>2, SlotFreed
    <3>4. struck \in Gates /\ HoldOf("ssh", struck) = {}
      BY <2>3, <3>1, <3>3, HolderOps DEF struck
    <3>5. GateTicked(struck, now) \in Gates /\ HoldOf("ssh", GateTicked(struck, now)) = {}
      BY <1>1, <3>1, <3>4, HolderOps
    <3> QED  BY <1>2, <1>7, <3>5
  <2>5. /\ late \in Lines /\ late.kind = "timed_out" /\ late.id = pending.id
        /\ late.host = pending.scope.host /\ late.at = ExpiredAt
    <3>1. pending.id \in Nat /\ pending.scope.host \in Hosts
      BY <2>2, PendingFields
    <3> QED  BY <2>3, <3>1, LineFields DEF late
  <2>6. /\ AskedIn(s.events) = AskedIn(events)
        /\ AnswersIn(s.events) = AnswersIn(events) \cup {late}
        /\ KilledIn(s.events) = KilledIn(events)
    BY <2>1, <2>5 DEF AskedIn, AnswersIn, KilledIn, Verdicts
  <2>7. Typed(s.now, s.pending, s.windows, s.gate, s.events)
    BY <1>1, <1>2, <1>5, <2>1, <2>4, <2>5 DEF SoundWith, Sound, Typed
  <2>8. Slotted(s.pending, s.gate)
    BY <2>1, <2>4 DEF Slotted
  <2>9. Replied(s.pending, s.events)
    BY <2>1, <2>2, <2>3, <2>5, <2>6, AnswerRecorded DEF SoundWith, Sound
  <2>10. Dated(s.now, s.pending, s.events)
    BY <2>1 DEF Dated
  <2>11. Standing(s.windows, s.events)
    BY <1>5, <2>6 DEF SoundWith, Sound, Standing
  <2>12. Certified(s.now, s.events)
    BY <1>1, <1>2, <1>4, <2>6, CertifiedLater
  <2> QED  BY <1>1, <1>2, <1>5, <2>7, <2>8, <2>9, <2>10, <2>11, <2>12 DEF Ready, Sound
<1> QED  BY <1>6, <1>7

----------------------------------------------------------------------------
(* The actions.  In each, s is what the tick left for it.                  *)

\* A call that only ticks.
LEMMA TickStep ==
    ASSUME NEW g, SoundWith(g), NEW t \in Time, OnlyTicked(Ticked(g, t))
    PROVE  IInv'
<1> DEFINE s == Ticked(g, t)
<1>1. Ready(s)
  BY TickIsSound
<1>2. OnlyTicked(s)
  OBVIOUS
<1> HIDE DEF s
<1>3. Typed(highWater, pending, windows, gate, events)'
  BY <1>1, <1>2 DEF Ready, Sound, Typed, OnlyTicked
<1>4. Slotted(pending, gate)'
  BY <1>1, <1>2 DEF Ready, Sound, Slotted, OnlyTicked
<1>5. Replied(pending, events)' /\ Dated(highWater, pending, events)'
  BY <1>1, <1>2 DEF Ready, Sound, Replied, Dated, OnlyTicked
<1>6. Standing(windows, events)'
  BY <1>1, <1>2 DEF Ready, Sound, Standing, OnlyTicked
<1>7. Certified(highWater, events)'
  BY <1>1, <1>2 DEF Ready, Sound, Certified, OnlyTicked
<1> QED  BY <1>3, <1>4, <1>5, <1>6, <1>7 DEF IInv, SoundWith, Sound

\* A request that is let in takes a free slot and a new id.
LEMMA RequestStep ==
    ASSUME NEW g, SoundWith(g), NEW t \in Time, NEW host \in Hosts, NEW key \in Keys,
           NEW wanted \in Wanted, SshRequest(Ticked(g, t), host, key, wanted)
    PROVE  IInv'
<1> DEFINE s == Ticked(g, t)
           scope == [host |-> host, key |-> key,
                     endsAt |-> s.now + Earlier(wanted, MaxWindow)]
           p == [id |-> nextId, nonce |-> nextId, scope |-> scope, created |-> s.now]
           line == Line("requested", nextId, host, s.now)
<1>1. CASE OnlyTicked(s)
  BY <1>1, TickStep
<1>2. CASE ~OnlyTicked(s)
  <2>1. /\ Admits(s.gate, s.now) /\ highWater' = s.now /\ AllocateId
        /\ pending' = p /\ windows' = s.windows
        /\ gate' = Admitted(s.gate, s.now, <<"ssh", nextId>>)
        /\ events' = s.events \cup {line} /\ UNCHANGED <<signed, certs>>
    BY <1>2 DEF SshRequest
  <2>2. Ready(s)
    BY TickIsSound
  <2> HIDE DEF s
  <2>3. /\ s.now \in Nat /\ s.gate \in Gates /\ nextId \in Nat
        /\ s.events \subseteq Lines
        /\ certs \subseteq [window: Nat, host: Hosts, key: Keys, cert: LastIssued]
    BY <2>2 DEF Ready, Sound, Typed
  <2>4. nextId' = nextId + 1
    BY <2>1 DEF AllocateId
  <2>5. s.pending = None
    BY <2>1, <2>2 DEF Admits, HoldOf, Ready, Sound, Slotted
  <2>6. scope \in Scopes
    BY <2>3, GrantsAssumption DEF Scopes, Earlier
  <2>7. /\ p \in Requests /\ p # None /\ p.id = nextId /\ p.created = s.now
        /\ p.scope.host = host
    BY <2>3, <2>6, GrantsAssumption DEF Requests
  <2>8. /\ line \in Lines /\ line.kind = "requested" /\ line.id = nextId
        /\ line.host = host /\ line.at = s.now
    BY <2>3, LineFields
  <2> HIDE DEF p, line, scope
  <2>9. /\ AskedIn(events') = AskedIn(s.events) \cup {line}
        /\ AnswersIn(events') = AnswersIn(s.events)
        /\ KilledIn(events') = KilledIn(s.events)
    BY <2>1, <2>8 DEF AskedIn, AnswersIn, KilledIn, Verdicts
  <2>10. gate' \in Gates /\ HoldOf("ssh", gate') = {<<"ssh", nextId>>}
    <3>1. <<"ssh", nextId>> \in Occupants
      BY <2>3 DEF Occupants
    <3> QED  BY <2>1, <2>3, <3>1, HolderOps
  <2>11. Typed(highWater, pending, windows, gate, events)'
    BY <2>1, <2>2, <2>3, <2>4, <2>7, <2>8, <2>10 DEF Ready, Sound, Typed
  <2>12. Slotted(pending, gate)'
    BY <2>1, <2>7, <2>10 DEF Slotted
  <2>13. \A r \in AskedIn(s.events) : r.id \in Nat /\ r.id < nextId
    <3>1. \A l \in Lines : l.id \in Nat
      BY DEF Lines
    <3> QED  BY <2>2, <2>3, <3>1 DEF AskedIn, Ready, Sound, Replied
  <2>14. \A e \in AnswersIn(s.events) : e.id # nextId
    BY <2>2, <2>13 DEF Ready, Sound, Replied
  <2>15. Replied(pending, events)'
    <3>1. \A e \in AnswersIn(events') : \E r \in AskedIn(events') :
              r.id = e.id /\ r.host = e.host /\ r.at <= e.at
      BY <2>2, <2>9 DEF Ready, Sound, Replied
    <3>2. \A e, f \in AnswersIn(events') : e.id = f.id => e = f
      BY <2>2, <2>9 DEF Ready, Sound, Replied
    <3>3. \A r \in AskedIn(events') :
              (\A e \in AnswersIn(events') : e.id # r.id) <=> p.id = r.id
      BY <2>2, <2>3, <2>5, <2>7, <2>8, <2>9, <2>13, <2>14 DEF Ready, Sound, Replied
    <3>4. \A r \in AskedIn(events') : r.id < nextId'
      BY <2>3, <2>4, <2>8, <2>9, <2>13
    <3> QED  BY <2>1, <2>7, <3>1, <3>2, <3>3, <3>4 DEF Replied, AskedIn, AnswersIn
  <2>16. Dated(highWater, pending, events)'
    BY <2>1, <2>3, <2>7, <2>8, <2>9 DEF Dated, AskedIn
  <2>17. Standing(windows, events)'
    BY <2>1, <2>2, <2>9 DEF Ready, Sound, Standing, AnswersIn, KilledIn
  <2>18. Certified(highWater, events)'
    <3>1. \A c \in certs : c.cert.serial \in Nat /\ c.cert.serial < nextId
      BY <2>2, <2>3, CertFields DEF Ready, Sound, Certified
    <3>2. \A c \in certs : c.cert.serial < nextId' /\ c.cert.serial # line.id
      BY <2>3, <2>4, <2>8, <3>1
    <3> QED  BY <2>1, <2>2, <2>9, <3>2 DEF Ready, Sound, Certified, AskedIn, KilledIn
  <2> QED  BY <2>11, <2>12, <2>15, <2>16, <2>17, <2>18 DEF IInv, SoundWith, Sound
<1> QED  BY <1>1, <1>2

\* An approval turns the request that waits into a window of its own.
LEMMA ApproveStep ==
    ASSUME NEW g, SoundWith(g), NEW t \in Time, NEW id, NEW nonce, NEW scope,
           SshApprove(Ticked(g, t), id, nonce, scope)
    PROVE  IInv'
<1> DEFINE s == Ticked(g, t)
           granted == s.pending.scope
           w0 == [id |-> id, scope |-> granted, started |-> s.now, last |-> None]
           a0 == [id |-> id, nonce |-> nonce, scope |-> scope]
           line == [kind |-> "approved", id |-> id, host |-> granted.host,
                    endsAt |-> granted.endsAt, at |-> s.now]
<1>1. CASE OnlyTicked(s)
  BY <1>1, TickStep
<1>2. CASE ~OnlyTicked(s)
  <2>1. /\ Matches(s, id, nonce, scope) /\ highWater' = s.now /\ pending' = None
        /\ windows' = s.windows \cup {w0}
        /\ gate' = Forgiven(Released(s.gate, <<"ssh", id>>))
        /\ events' = s.events \cup {line}
        /\ signed' = signed \cup {a0} /\ UNCHANGED <<nextId, certs>>
    BY <1>2 DEF SshApprove
  <2>2. Ready(s)
    BY TickIsSound
  <2> HIDE DEF s
  <2>3. /\ s.pending # None /\ s.pending \in Requests \cup {None}
        /\ s.pending.id = id /\ s.pending.nonce = nonce /\ granted = scope
    BY <2>1, <2>2 DEF Matches, Ready, Sound, Typed
  <2>4. /\ s.now \in Nat /\ s.gate \in Gates /\ s.events \subseteq Lines
        /\ certs \subseteq [window: Nat, host: Hosts, key: Keys, cert: LastIssued]
    BY <2>2 DEF Ready, Sound, Typed
  <2>5. /\ id \in Nat /\ nonce \in Nat /\ scope \in Scopes /\ scope.host \in Hosts
        /\ scope.endsAt \in Nat /\ <<"ssh", id>> \in Occupants
        /\ s.pending.created \in Nat
    BY <2>3, PendingFields
  <2>6. w0 \in Windows /\ w0.id = id /\ w0.scope = scope
    BY <2>3, <2>4, <2>5 DEF Windows
  <2>7. /\ a0 \in [id: Nat, nonce: Nat, scope: Scopes]
        /\ a0.id = id /\ a0.scope = scope
    BY <2>5
  <2>8. /\ line \in Lines /\ line.kind = "approved" /\ line.id = id
        /\ line.host = scope.host /\ line.at = s.now
    BY <2>3, <2>4, <2>5 DEF Lines
  <2> HIDE DEF w0, a0, line, granted
  <2>9. /\ AskedIn(events') = AskedIn(s.events)
        /\ AnswersIn(events') = AnswersIn(s.events) \cup {line}
        /\ KilledIn(events') = KilledIn(s.events)
    BY <2>1, <2>8 DEF AskedIn, AnswersIn, KilledIn, Verdicts
  <2>10. gate' \in Gates /\ HoldOf("ssh", gate') = {}
    <3>1. HoldOf("ssh", s.gate) = {<<"ssh", id>>}
      BY <2>2, <2>3 DEF Ready, Sound, Slotted
    <3>2. Released(s.gate, <<"ssh", id>>) \in Gates
          /\ HoldOf("ssh", Released(s.gate, <<"ssh", id>>)) = {}
      BY <2>4, <2>5, <3>1, SlotFreed
    <3> QED  BY <2>1, <2>4, <2>5, <3>2, HolderOps
  <2>11. Typed(highWater, pending, windows, gate, events)'
    BY <2>1, <2>2, <2>6, <2>7, <2>8, <2>10 DEF Ready, Sound, Typed
  <2>12. Slotted(pending, gate)' /\ Dated(highWater, pending, events)'
    BY <2>1, <2>10 DEF Slotted, Dated
  <2>13. Replied(pending, events)'
    <3>1. /\ s.pending.created <= line.at
          /\ Replied(s.pending, s.events) /\ Dated(s.now, s.pending, s.events)
      BY <2>2, <2>3, <2>8 DEF Ready, Sound, Dated
    <3>2. line.host = s.pending.scope.host
      BY <2>3, <2>8 DEF granted
    <3>3. Replied(None, events')
      BY <2>3, <2>8, <2>9, <3>1, <3>2, AnswerRecorded
    <3> QED  BY <2>1, <3>3 DEF Replied
  <2>14. \A e \in AnswersIn(s.events) : e.id # id
    BY <2>2, <2>3 DEF Ready, Sound, Replied, Dated
  <2>15. Standing(windows, events)'
    <3>1. \A w \in s.windows : w.id # id
      BY <2>2, <2>14 DEF Ready, Sound, Standing
    <3>2. \A k \in KilledIn(s.events) : k.id # id
      BY <2>2, <2>14 DEF Ready, Sound, Standing
    <3>3. \A w \in windows' :
             /\ \E a \in signed' : a.id = w.id /\ a.scope = w.scope
             /\ \E e \in AnswersIn(events') : e.kind = "approved" /\ e.id = w.id
                                              /\ e.host = w.scope.host
             /\ \A k \in KilledIn(events') : k.id # w.id
      <4>1. \A w \in s.windows :
               /\ \E a \in signed : a.id = w.id /\ a.scope = w.scope
               /\ \E e \in AnswersIn(s.events) : e.kind = "approved" /\ e.id = w.id
                                                 /\ e.host = w.scope.host
               /\ \A k \in KilledIn(s.events) : k.id # w.id
        BY <2>2 DEF Ready, Sound, Standing
      <4> QED  BY <2>1, <2>6, <2>7, <2>8, <2>9, <3>2, <4>1
    <3>4. \A v, w \in windows' : v.id = w.id => v = w
      BY <2>1, <2>2, <2>6, <3>1 DEF Ready, Sound, Standing
    <3>5. \A k \in KilledIn(events') : \E e \in AnswersIn(events') : e.id = k.id
      BY <2>2, <2>9 DEF Ready, Sound, Standing
    <3> QED  BY <3>3, <3>4, <3>5 DEF Standing, AnswersIn, KilledIn
  <2>16. Certified(highWater, events)'
    BY <2>1, <2>2, <2>9 DEF Ready, Sound, Certified, AskedIn, KilledIn
  <2> QED  BY <2>11, <2>12, <2>13, <2>15, <2>16 DEF IInv, SoundWith, Sound
<1> QED  BY <1>1, <1>2

\* A decline, like a timeout, ends the request that waits and frees the slot.
LEMMA DeclineStep ==
    ASSUME NEW g, SoundWith(g), NEW t \in Time, NEW id, SshDecline(Ticked(g, t), id)
    PROVE  IInv'
<1> DEFINE s == Ticked(g, t)
           line == Line("declined", id, s.pending.scope.host, s.now)
<1>1. CASE OnlyTicked(s)
  BY <1>1, TickStep
<1>2. CASE ~OnlyTicked(s)
  <2>1. /\ s.pending # None /\ s.pending.id = id
        /\ highWater' = s.now /\ pending' = None /\ windows' = s.windows
        /\ gate' = StruckAt(Released(s.gate, <<"ssh", id>>), s.now)
        /\ events' = s.events \cup {line} /\ UNCHANGED <<nextId, signed, certs>>
    BY <1>2 DEF SshDecline
  <2>2. Ready(s)
    BY TickIsSound
  <2> HIDE DEF s
  <2>3. /\ s.now \in Nat /\ s.gate \in Gates /\ s.events \subseteq Lines
        /\ s.pending \in Requests \cup {None}
    BY <2>2 DEF Ready, Sound, Typed
  <2>4. /\ id \in Nat /\ s.pending.scope.host \in Hosts
        /\ <<"ssh", id>> \in Occupants
    BY <2>1, <2>3, PendingFields
  <2>5. /\ line \in Lines /\ line.kind = "declined" /\ line.id = id
        /\ line.host = s.pending.scope.host /\ line.at = s.now
    BY <2>3, <2>4, LineFields
  <2> HIDE DEF line
  <2>6. /\ AskedIn(events') = AskedIn(s.events)
        /\ AnswersIn(events') = AnswersIn(s.events) \cup {line}
        /\ KilledIn(events') = KilledIn(s.events)
    BY <2>1, <2>5 DEF AskedIn, AnswersIn, KilledIn, Verdicts
  <2>7. gate' \in Gates /\ HoldOf("ssh", gate') = {}
    <3>1. HoldOf("ssh", s.gate) = {<<"ssh", id>>}
      BY <2>1, <2>2 DEF Ready, Sound, Slotted
    <3>2. Released(s.gate, <<"ssh", id>>) \in Gates
          /\ HoldOf("ssh", Released(s.gate, <<"ssh", id>>)) = {}
      BY <2>3, <2>4, <3>1, SlotFreed
    <3> QED  BY <2>1, <2>3, <2>4, <3>2, HolderOps
  <2>8. Typed(highWater, pending, windows, gate, events)'
    BY <2>1, <2>2, <2>5, <2>7 DEF Ready, Sound, Typed
  <2>9. Slotted(pending, gate)' /\ Dated(highWater, pending, events)'
    BY <2>1, <2>7 DEF Slotted, Dated
  <2>10. Replied(pending, events)'
    <3>1. /\ s.pending.created <= line.at
          /\ Replied(s.pending, s.events) /\ Dated(s.now, s.pending, s.events)
      BY <2>1, <2>2, <2>5 DEF Ready, Sound, Dated
    <3>2. Replied(None, events')
      BY <2>1, <2>5, <2>6, <3>1, AnswerRecorded
    <3> QED  BY <2>1, <3>2 DEF Replied
  <2>11. Standing(windows, events)'
    BY <2>1, <2>2, <2>6 DEF Ready, Sound, Standing, AnswersIn, KilledIn
  <2>12. Certified(highWater, events)'
    BY <2>1, <2>2, <2>6 DEF Ready, Sound, Certified, AskedIn, KilledIn
  <2> QED  BY <2>8, <2>9, <2>10, <2>11, <2>12 DEF IInv, SoundWith, Sound
<1> QED  BY <1>1, <1>2

\* A certificate is minted inside the window it was asked for, and never ends
\* after it.
LEMMA IssueStep ==
    ASSUME NEW g, SoundWith(g), NEW t \in Time, NEW host \in Hosts, NEW key \in Keys,
           NEW forceFresh \in BOOLEAN, SshIssue(Ticked(g, t), host, key, forceFresh)
    PROVE  IInv'
<1> DEFINE s == Ticked(g, t)
<1>1. CASE OnlyTicked(s)
  BY <1>1, TickStep
<1>2. CASE ~OnlyTicked(s)
  <2>1. PICK w \in s.windows : Fresh(s, w)
    BY <1>2 DEF SshIssue, Candidates
  <2>2. Ready(s)
    BY TickIsSound
  <2> HIDE DEF s
  <2> DEFINE cert == [serial |-> nextId, validAfter |-> s.now,
                      validBefore |-> Expiry(s.now, w)]
             v0 == [w EXCEPT !.last = cert]
             c0 == [window |-> w.id, host |-> w.scope.host, key |-> w.scope.key,
                    cert |-> cert]
             line == [kind |-> "issued", id |-> w.id, serial |-> cert.serial,
                      host |-> w.scope.host, validBefore |-> cert.validBefore,
                      at |-> s.now]
  <2>3. /\ highWater' = s.now /\ nextId' = nextId + 1 /\ pending' = s.pending
        /\ windows' = (s.windows \ {w}) \cup {v0}
        /\ gate' = s.gate /\ events' = s.events \cup {line}
        /\ certs' = certs \cup {c0} /\ UNCHANGED signed
    BY <2>1 DEF Fresh, AllocateId
  <2>4. /\ s.now \in Nat /\ nextId \in Nat /\ w \in Windows /\ s.events \subseteq Lines
        /\ certs \subseteq [window: Nat, host: Hosts, key: Keys, cert: LastIssued]
    BY <2>2 DEF Ready, Sound, Typed
  <2>5. /\ w.id \in Nat /\ w.scope \in Scopes /\ w.scope.host \in Hosts
        /\ w.scope.key \in Keys /\ w.scope.endsAt \in Nat
    BY <2>4 DEF Windows, Scopes
  <2>6. w.scope.endsAt > s.now
    BY <2>2 DEF Ready
  <2>7. /\ Expiry(s.now, w) \in Nat /\ Expiry(s.now, w) <= w.scope.endsAt
        /\ Expiry(s.now, w) <= s.now + CertTTL
    BY <2>4, <2>5, GrantsAssumption DEF Expiry, Earlier
  <2>8. /\ cert \in LastIssued /\ cert.serial = nextId /\ cert.validAfter = s.now
        /\ cert.validBefore = Expiry(s.now, w)
    BY <2>4, <2>7 DEF LastIssued
  <2> HIDE DEF cert
  <2>9. v0 \in Windows /\ v0.id = w.id /\ v0.scope = w.scope
    BY <2>4, <2>8 DEF Windows
  <2>10. /\ c0 \in [window: Nat, host: Hosts, key: Keys, cert: LastIssued]
         /\ c0.window = w.id /\ c0.host = w.scope.host /\ c0.key = w.scope.key
         /\ c0.cert = cert
    BY <2>5, <2>8
  <2>11. line \in Lines /\ line.kind = "issued"
    BY <2>4, <2>5, <2>7, <2>8 DEF Lines
  <2> HIDE DEF v0, c0, line
  <2>12. /\ AskedIn(events') = AskedIn(s.events)
         /\ AnswersIn(events') = AnswersIn(s.events)
         /\ KilledIn(events') = KilledIn(s.events)
    BY <2>3, <2>11 DEF AskedIn, AnswersIn, KilledIn, Verdicts
  <2>13. Typed(highWater, pending, windows, gate, events)'
    BY <2>2, <2>3, <2>4, <2>9, <2>10, <2>11 DEF Ready, Sound, Typed
  <2>14. Slotted(pending, gate)'
    BY <2>2, <2>3 DEF Ready, Sound, Slotted
  <2>15. \A r \in AskedIn(s.events) : r.id \in Nat /\ r.id < nextId
    <3>1. \A l \in Lines : l.id \in Nat
      BY DEF Lines
    <3> QED  BY <2>2, <2>4, <3>1 DEF AskedIn, Ready, Sound, Replied
  <2>16. Replied(pending, events)'
    <3>1. Replied(s.pending, s.events)
      BY <2>2 DEF Ready, Sound
    <3>2. \A r \in AskedIn(s.events) : r.id < nextId'
      BY <2>3, <2>4, <2>15
    <3> QED  BY <2>3, <2>12, <3>1, <3>2 DEF Replied, AskedIn, AnswersIn
  <2>17. Dated(highWater, pending, events)'
    BY <2>2, <2>3, <2>12 DEF Ready, Sound, Dated, AskedIn
  <2>18. Standing(windows, events)'
    <3>1. Standing(s.windows, s.events)
      BY <2>2 DEF Ready, Sound
    <3>2. \A v \in windows' : \E u \in s.windows : u.id = v.id /\ u.scope = v.scope
      BY <2>3, <2>9
    <3>3. \A v, u \in windows' : v.id = u.id => v = u
      BY <2>3, <2>9, <3>1 DEF Standing
    <3> QED  BY <2>3, <2>12, <3>1, <3>2, <3>3 DEF Standing, AnswersIn, KilledIn
  <2>19. Certified(highWater, events)'
    <3>1. Certified(s.now, s.events)
      BY <2>2 DEF Ready, Sound
    <3>2. \A c \in certs : c.cert.serial \in Nat /\ c.cert.validAfter \in Nat
      BY <2>4, CertFields
    <3>3. \A c \in certs : c.cert.serial < nextId /\ c.cert.validAfter <= s.now
      BY <3>1 DEF Certified
    <3>4. \A c \in certs : c.cert.serial < nextId'
      BY <2>3, <2>4, <3>2, <3>3
    <3>5. \E a \in signed : /\ a.id = c0.window
                            /\ a.scope.host = c0.host /\ a.scope.key = c0.key
                            /\ c0.cert.validBefore <= a.scope.endsAt
                            /\ c0.cert.validAfter < a.scope.endsAt
      <4>1. PICK a \in signed : a.id = w.id /\ a.scope = w.scope
        BY <2>2 DEF Ready, Sound, Standing
      <4> QED  BY <2>4, <2>5, <2>6, <2>7, <2>8, <2>10, <4>1
    <3>6. /\ c0.cert.validBefore <= c0.cert.validAfter + CertTTL
          /\ c0.cert.validAfter <= s.now /\ c0.cert.serial < nextId'
      BY <2>3, <2>4, <2>7, <2>8, <2>10
    <3>7. \A k \in KilledIn(s.events) : k.id # c0.window
      BY <2>2, <2>10 DEF Ready, Sound, Standing
    <3>8. \A c \in certs' :
             /\ \E a \in signed :
                    /\ a.id = c.window
                    /\ a.scope.host = c.host /\ a.scope.key = c.key
                    /\ c.cert.validBefore <= a.scope.endsAt
                    /\ c.cert.validAfter < a.scope.endsAt
             /\ c.cert.validBefore <= c.cert.validAfter + CertTTL
             /\ \A k \in KilledIn(s.events) : k.id = c.window => c.cert.validAfter <= k.at
             /\ c.cert.validAfter <= s.now
             /\ c.cert.serial < nextId'
      BY <2>3, <3>1, <3>4, <3>5, <3>6, <3>7 DEF Certified
    <3>9. \A c, d \in certs' :
             /\ c.cert.serial = d.cert.serial => c = d
             /\ c.cert.serial < d.cert.serial => c.cert.validAfter <= d.cert.validAfter
      <4>1. \A c \in certs : c.cert.serial < c0.cert.serial
                             /\ c.cert.validAfter <= c0.cert.validAfter
        BY <2>8, <2>10, <3>3
      <4>2. c0.cert.serial \in Nat /\ c0.cert.validAfter \in Nat
        BY <2>4, <2>8, <2>10
      <4>3. \A c \in certs : ~(c0.cert.serial < c.cert.serial)
                             /\ c.cert.serial # c0.cert.serial
        BY <3>2, <4>1, <4>2
      <4>4. \A c, d \in certs :
               /\ c.cert.serial = d.cert.serial => c = d
               /\ c.cert.serial < d.cert.serial => c.cert.validAfter <= d.cert.validAfter
        BY <3>1 DEF Certified
      <4> QED  BY <2>3, <4>1, <4>2, <4>3, <4>4
    <3>10. \A c \in certs', r \in AskedIn(s.events) : c.cert.serial # r.id
      BY <2>3, <2>4, <2>8, <2>10, <2>15, <3>1 DEF Certified
    <3> QED  BY <2>3, <2>12, <3>8, <3>9, <3>10 DEF Certified, AskedIn, KilledIn
  <2> QED  BY <2>13, <2>14, <2>16, <2>17, <2>18, <2>19 DEF IInv, SoundWith, Sound
<1> QED  BY <1>1, <1>2

\* A kill closes every window of the host, and answers its request if one
\* waits.
LEMMA KillStep ==
    ASSUME NEW g, SoundWith(g), NEW t \in Time, NEW host \in Hosts, SshKill(Ticked(g, t), host)
    PROVE  IInv'
<1> DEFINE s == Ticked(g, t)
           closed == {w \in s.windows : w.scope.host = host}
           stopped == StopsPending(s, host)
           kills == {Line("killed", w.id, host, s.now) : w \in closed}
           line == Line("declined", s.pending.id, host, s.now)
<1>1. /\ highWater' = s.now /\ windows' = s.windows \ closed
      /\ pending' = IF stopped THEN None ELSE s.pending
      /\ gate' = IF stopped
                 THEN StruckAt(Released(s.gate, <<"ssh", s.pending.id>>), s.now)
                 ELSE s.gate
      /\ events' = s.events \cup kills \cup IF stopped THEN {line} ELSE {}
      /\ UNCHANGED <<nextId, signed, certs>>
  BY DEF SshKill
<1>2. Ready(s)
  BY TickIsSound
<1> HIDE DEF s
<1>3. /\ s.now \in Nat /\ s.gate \in Gates /\ s.events \subseteq Lines
      /\ s.pending \in Requests \cup {None} /\ s.windows \subseteq Windows
      /\ certs \subseteq [window: Nat, host: Hosts, key: Keys, cert: LastIssued]
  BY <1>2 DEF Ready, Sound, Typed
<1>4. closed \subseteq s.windows
  OBVIOUS
<1>5. \A k \in kills : /\ k \in Lines /\ k.kind = "killed" /\ k.at = s.now
                       /\ \E w \in closed : w.id = k.id
  <2> SUFFICES ASSUME NEW w \in closed
               PROVE  LET k == Line("killed", w.id, host, s.now)
                      IN  k \in Lines /\ k.kind = "killed" /\ k.at = s.now /\ k.id = w.id
    OBVIOUS
  <2>1. w.id \in Nat
    BY <1>3, <1>4 DEF Windows
  <2> QED  BY <1>3, <2>1, LineFields
<1> HIDE DEF closed, kills
<1>6. \A w \in s.windows \ closed, v \in closed : w.id # v.id
  BY <1>2, <1>4 DEF Ready, Sound, Standing
<1>7. \A w \in closed : \E e \in AnswersIn(s.events) : e.id = w.id
  BY <1>2, <1>4 DEF Ready, Sound, Standing
\* What the closed windows do, whether a request is stopped with them or not.
<1>8. ASSUME NEW more, AnswersIn(s.events) \subseteq AnswersIn(more),
             KilledIn(more) = KilledIn(s.events) \cup kills,
             AskedIn(more) = AskedIn(s.events), more = events'
      PROVE  Standing(windows, events)' /\ Certified(highWater, events)'
  <2>1. Standing(windows, events)'
    <3>1. Standing(s.windows, s.events)
      BY <1>2 DEF Ready, Sound
    <3>2. \A w \in windows' :
             /\ \E a \in signed : a.id = w.id /\ a.scope = w.scope
             /\ \E e \in AnswersIn(more) : e.kind = "approved" /\ e.id = w.id
                                           /\ e.host = w.scope.host
      BY <1>1, <1>8, <3>1 DEF Standing
    <3>3. \A w \in windows', k \in KilledIn(more) : k.id # w.id
      BY <1>1, <1>5, <1>6, <1>8, <3>1 DEF Standing
    <3>4. \A v, w \in windows' : v.id = w.id => v = w
      BY <1>1, <3>1 DEF Standing
    <3>5. \A k \in KilledIn(more) : \E e \in AnswersIn(more) : e.id = k.id
      BY <1>5, <1>7, <1>8, <3>1 DEF Standing
    <3> QED  BY <1>1, <1>8, <3>2, <3>3, <3>4, <3>5 DEF Standing, AnswersIn, KilledIn
  <2>2. Certified(highWater, events)'
    <3>1. Certified(s.now, s.events)
      BY <1>2 DEF Ready, Sound
    <3>2. \A c \in certs, k \in KilledIn(more) :
              k.id = c.window => c.cert.validAfter <= k.at
      BY <1>5, <1>8, <3>1 DEF Certified
    <3> QED  BY <1>1, <1>8, <3>1, <3>2 DEF Certified, AskedIn, KilledIn
  <2> QED  BY <2>1, <2>2
<1>9. CASE ~stopped
  <2>1. pending' = s.pending /\ gate' = s.gate /\ events' = s.events \cup kills
    BY <1>1, <1>9
  <2>2. /\ AskedIn(events') = AskedIn(s.events)
        /\ AnswersIn(events') = AnswersIn(s.events)
        /\ KilledIn(events') = KilledIn(s.events) \cup kills
    BY <1>5, <2>1 DEF AskedIn, AnswersIn, KilledIn, Verdicts
  <2>3. Typed(highWater, pending, windows, gate, events)'
    BY <1>1, <1>2, <1>5, <2>1 DEF Ready, Sound, Typed
  <2>4. Slotted(pending, gate)'
    BY <1>2, <2>1 DEF Ready, Sound, Slotted
  <2>5. Replied(pending, events)'
    BY <1>1, <1>2, <2>1, <2>2 DEF Ready, Sound, Replied, AskedIn, AnswersIn
  <2>6. Dated(highWater, pending, events)'
    BY <1>1, <1>2, <2>1, <2>2 DEF Ready, Sound, Dated, AskedIn
  <2>7. Standing(windows, events)' /\ Certified(highWater, events)'
    BY <1>8, <2>2
  <2> QED  BY <2>3, <2>4, <2>5, <2>6, <2>7 DEF IInv, SoundWith, Sound
<1>10. CASE stopped
  <2>1. /\ pending' = None /\ events' = s.events \cup kills \cup {line}
        /\ gate' = StruckAt(Released(s.gate, <<"ssh", s.pending.id>>), s.now)
    BY <1>1, <1>10
  <2>2. s.pending # None /\ s.pending.scope.host = host
    BY <1>10 DEF StopsPending
  <2>3. s.pending.id \in Nat /\ <<"ssh", s.pending.id>> \in Occupants
    BY <1>3, <2>2, PendingFields
  <2>4. /\ line \in Lines /\ line.kind = "declined" /\ line.id = s.pending.id
        /\ line.host = host /\ line.at = s.now
    BY <1>3, <2>3, LineFields
  <2> HIDE DEF line
  <2>5. /\ AskedIn(events') = AskedIn(s.events)
        /\ AnswersIn(events') = AnswersIn(s.events) \cup {line}
        /\ KilledIn(events') = KilledIn(s.events) \cup kills
    BY <1>5, <2>1, <2>4 DEF AskedIn, AnswersIn, KilledIn, Verdicts
  <2>6. gate' \in Gates /\ HoldOf("ssh", gate') = {}
    <3>1. HoldOf("ssh", s.gate) = {<<"ssh", s.pending.id>>}
      BY <1>2, <2>2 DEF Ready, Sound, Slotted
    <3>2. Released(s.gate, <<"ssh", s.pending.id>>) \in Gates
          /\ HoldOf("ssh", Released(s.gate, <<"ssh", s.pending.id>>)) = {}
      BY <1>3, <2>3, <3>1, SlotFreed
    <3> QED  BY <1>3, <2>1, <2>3, <3>2, HolderOps
  <2>7. Typed(highWater, pending, windows, gate, events)'
    BY <1>1, <1>2, <1>5, <2>1, <2>4, <2>6 DEF Ready, Sound, Typed
  <2>8. Slotted(pending, gate)' /\ Dated(highWater, pending, events)'
    BY <2>1, <2>6 DEF Slotted, Dated
  <2>9. Replied(pending, events)'
    <3>1. /\ s.pending.created <= line.at
          /\ Replied(s.pending, s.events) /\ Dated(s.now, s.pending, s.events)
      BY <1>2, <2>2, <2>4 DEF Ready, Sound, Dated
    <3>2. Replied(None, events')
      BY <2>2, <2>4, <2>5, <3>1, AnswerRecorded
    <3> QED  BY <1>1, <2>1, <3>2 DEF Replied
  <2>10. Standing(windows, events)' /\ Certified(highWater, events)'
    BY <1>8, <2>5
  <2> QED  BY <2>7, <2>8, <2>9, <2>10 DEF IInv, SoundWith, Sound
<1> QED  BY <1>9, <1>10

\* What Grants may do in a call, after the tick that left s.
SshActs(s) ==
    \/ SshTick(s)
    \/ \E h \in Hosts, k \in Keys, d \in Wanted : SshRequest(s, h, k, d)
    \/ \E id, nonce, scope : SshApprove(s, id, nonce, scope)
    \/ \E id : SshDecline(s, id)
    \/ \E h \in Hosts, k \in Keys, f \in BOOLEAN : SshIssue(s, h, k, f)
    \/ \E h \in Hosts : SshKill(s, h)
LEMMA ActIsSound ==
    ASSUME NEW g, SoundWith(g), NEW t \in Time, SshActs(Ticked(g, t))
    PROVE  IInv'
BY TickStep, RequestStep, ApproveStep, DeclineStep, IssueStep, KillStep DEF SshActs, SshTick

----------------------------------------------------------------------------
(* What Grants leaves of a gate it shares.                                 *)

\* A tick frees no slot but that of the request that timed out.
LEMMA TickLends ==
    ASSUME NEW g, SoundWith(g), NEW t \in Time
    PROVE  Lends("job", g, Ticked(g, t).gate)
<1> DEFINE now == Clamped(t)
           freed == Released(g, <<"ssh", pending.id>>)
           struck == StruckAt(freed, ExpiredAt)
<1>1. Ticked(g, t).gate = GateTicked(IF Lapsed(now) THEN struck ELSE g, now)
  BY DEF Ticked
<1>2. now \in Nat /\ g \in Gates
  BY GateAssumption DEF SoundWith, Sound, Typed, Clamped, Later
<1>3. CASE ~Lapsed(now)
  <2>1. Lends("job", g, GateTicked(g, now))
    BY <1>2, LendOps, 0 \in Nat
  <2> QED  BY <1>1, <1>3, <2>1
<1>4. CASE Lapsed(now)
  <2>1. pending.id \in Nat /\ pending.created \in Nat
    BY <1>4, PendingFields DEF Lapsed, SoundWith, Sound, Typed
  <2>2. ExpiredAt \in Nat
    BY <2>1, GrantsAssumption DEF ExpiredAt
  <2>3. freed \in Gates /\ Lends("job", g, freed)
    BY <1>2, <2>1, HolderOps, LendOps
  <2> HIDE DEF freed
  <2>4. struck \in Gates /\ Lends("job", freed, struck)
    BY <2>1, <2>2, <2>3, HolderOps, LendOps
  <2> HIDE DEF struck
  <2>5. Lends("job", struck, GateTicked(struck, now))
    BY <1>2, <2>1, <2>4, LendOps
  <2>6. Lends("job", g, GateTicked(struck, now))
    BY <2>3, <2>4, <2>5, LendsTwice
  <2> QED  BY <1>1, <1>4, <2>6 DEF struck, freed
<1> QED  BY <1>3, <1>4

\* No action of Grants takes the slot from another kind of request, or shares it.
LEMMA ActLends ==
    ASSUME NEW g, SoundWith(g), NEW t \in Time, SshActs(Ticked(g, t))
    PROVE  Lends("job", g, gate')
<1> DEFINE s == Ticked(g, t)
<1>1. Ready(s) /\ Lends("job", g, s.gate)
  BY TickIsSound, TickLends
<1>2. SshActs(s)
  OBVIOUS
<1> HIDE DEF s
<1>3. /\ s.now \in Nat /\ s.gate \in Gates /\ nextId \in Nat
      /\ s.pending \in Requests \cup {None}
  BY <1>1 DEF Ready, Sound, Typed
<1> SUFFICES Lends("job", s.gate, gate')
  BY <1>1, LendsTwice
<1>4. CASE gate' = s.gate
  BY <1>4 DEF Lends
<1>5. CASE /\ Admits(s.gate, s.now)
           /\ gate' = Admitted(s.gate, s.now, <<"ssh", nextId>>)
  BY <1>3, <1>5, LendOps DEF Admits
<1>6. CASE /\ s.pending # None
           /\ \/ gate' = Forgiven(Released(s.gate, <<"ssh", s.pending.id>>))
              \/ gate' = StruckAt(Released(s.gate, <<"ssh", s.pending.id>>), s.now)
  <2> DEFINE freed == Released(s.gate, <<"ssh", s.pending.id>>)
  <2>1. s.pending.id \in Nat
    BY <1>3, <1>6, PendingFields
  <2>2. freed \in Gates /\ Lends("job", s.gate, freed)
    BY <1>3, <2>1, HolderOps, LendOps
  <2>3. gate' = Forgiven(freed) \/ gate' = StruckAt(freed, s.now)
    BY <1>6
  <2> HIDE DEF freed
  <2>4. Lends("job", freed, gate')
    BY <1>3, <2>1, <2>2, <2>3, LendOps
  <2> QED  BY <2>2, <2>4, LendsTwice
<1>7. CASE SshTick(s)
  BY <1>4, <1>7 DEF SshTick, OnlyTicked
<1>8. CASE \E h \in Hosts, k \in Keys, d \in Wanted : SshRequest(s, h, k, d)
  BY <1>4, <1>5, <1>8 DEF SshRequest, OnlyTicked
<1>9. CASE \E id, nonce, scope : SshApprove(s, id, nonce, scope)
  BY <1>4, <1>6, <1>9 DEF SshApprove, Matches, OnlyTicked
<1>10. CASE \E id : SshDecline(s, id)
  BY <1>4, <1>6, <1>10 DEF SshDecline, OnlyTicked
<1>11. CASE \E h \in Hosts, k \in Keys, f \in BOOLEAN : SshIssue(s, h, k, f)
  BY <1>4, <1>11 DEF SshIssue, Fresh, OnlyTicked
<1>12. CASE \E h \in Hosts : SshKill(s, h)
  BY <1>4, <1>6, <1>12 DEF SshKill, StopsPending
<1> QED  BY <1>2, <1>7, <1>8, <1>9, <1>10, <1>11, <1>12 DEF SshActs

----------------------------------------------------------------------------
(* How often Grants asks.                                                  *)

UnapprovedIn(es) == {e \in es : e.kind \in {"declined", "timed_out"}}
ApprovedIn(es) == {e \in es : e.kind = "approved"}
LimitedBy(now, g, es) == Limited(now, g, AskedIn(es), UnapprovedIn(es), ApprovedIn(es))

\* The request that waits is the last that was let in.
Newest(p, es) == p # None => \A r \in AskedIn(es) : r.id <= p.id
LimitedWith(g) == LimitedBy(highWater, g, events) /\ Newest(pending, events)
Paced(s) == LimitedBy(s.now, s.gate, s.events) /\ Newest(s.pending, s.events)

LEMMA LinesAreTimed ==
    ASSUME NEW es \in SUBSET Lines
    PROVE  Timed(es)
BY DEF Timed, Lines

\* What came before the request that waits.
LEMMA BeforePending ==
    ASSUME NEW now, NEW p, NEW ws, NEW g, NEW es, Sound(now, p, ws, g, es),
           p # None, Newest(p, es)
    PROVE  \E r \in AskedIn(es) :
               /\ r.id = p.id /\ r.at = p.created
               /\ \A q \in AskedIn(es) : q.id <= r.id
               /\ \A f \in UnapprovedIn(es) \cup ApprovedIn(es) : f.id < r.id
<1>1. PICK r \in AskedIn(es) : r.id = p.id /\ r.at = p.created
  BY DEF Sound, Dated
<1>2. \A q \in AskedIn(es) : q.id <= r.id
  BY <1>1 DEF Newest
<1>3. ASSUME NEW f \in UnapprovedIn(es) \cup ApprovedIn(es) PROVE f.id < r.id
  <2>1. f \in AnswersIn(es)
    BY DEF UnapprovedIn, ApprovedIn, AnswersIn, Verdicts
  <2>2. f.id # p.id
    BY <1>1, <2>1 DEF Sound, Replied
  <2>3. PICK q \in AskedIn(es) : q.id = f.id
    BY <2>1 DEF Sound, Replied
  <2>4. q.id <= r.id /\ q.id \in Nat /\ r.id \in Nat
    BY <1>2 DEF Sound, Typed, AskedIn, Lines
  <2> QED  BY <1>1, <2>2, <2>3, <2>4
<1> QED  BY <1>1, <1>2, <1>3

\* The request that waits ends without an approval, and the slot is free.
LEMMA StruckPaced ==
    ASSUME NEW now \in Nat, NEW p, NEW ws, NEW g, NEW es, NEW more,
           Sound(now, p, ws, g, es), p # None, Newest(p, es), LimitedBy(now, g, es),
           NEW e, e.id = p.id, e.at \in Nat, p.created <= e.at,
           AskedIn(more) = AskedIn(es), ApprovedIn(more) = ApprovedIn(es),
           UnapprovedIn(more) = UnapprovedIn(es) \cup {e}
    PROVE  LimitedBy(now, StruckAt(Released(g, <<"ssh", p.id>>), e.at), more)
<1>1. PICK r \in AskedIn(es) :
          /\ r.id = p.id /\ r.at = p.created
          /\ \A q \in AskedIn(es) : q.id <= r.id
          /\ \A f \in UnapprovedIn(es) \cup ApprovedIn(es) : f.id < r.id
  BY BeforePending
<1>2. <<"ssh", p.id>> \in Occupants
  BY PendingFields DEF Sound, Typed
<1> QED  BY <1>1, <1>2, LimitedStrike DEF LimitedBy

\* A tick, whatever it finds has timed out.
LEMMA TickIsPaced ==
    ASSUME NEW g, SoundWith(g), LimitedWith(g), NEW t \in Time
    PROVE  Paced(Ticked(g, t))
<1> DEFINE s == Ticked(g, t)
           now == Clamped(t)
           late == Line("timed_out", pending.id, pending.scope.host, ExpiredAt)
           struck == StruckAt(Released(g, <<"ssh", pending.id>>), ExpiredAt)
<1>1. now \in Nat /\ highWater \in Nat /\ highWater <= now
  BY GateAssumption DEF SoundWith, Sound, Typed, Clamped, Later
<1>2. /\ s.now = now
      /\ s.pending = IF Lapsed(now) THEN None ELSE pending
      /\ s.gate = GateTicked(IF Lapsed(now) THEN struck ELSE g, now)
      /\ s.events = events \cup TimeoutLines(now)
  BY DEF Ticked
<1> SUFFICES Paced(s)
  OBVIOUS
<1> HIDE DEF s, now
<1>3. CASE ~Lapsed(now)
  <2>1. s.pending = pending /\ s.events = events /\ s.gate = GateTicked(g, now)
    BY <1>2, <1>3 DEF TimeoutLines
  <2>2. LimitedBy(now, s.gate, events)
    BY <1>1, <2>1, LimitedTick DEF LimitedWith, LimitedBy
  <2> QED  BY <1>2, <2>1, <2>2 DEF Paced, LimitedWith
<1>4. CASE Lapsed(now)
  <2>1. s.pending = None /\ s.events = events \cup {late} /\ s.gate = GateTicked(struck, now)
    BY <1>2, <1>4 DEF TimeoutLines
  <2>2. pending # None /\ pending \in Requests \cup {None}
    BY <1>4 DEF Lapsed, SoundWith, Sound, Typed
  <2>3. pending.created \in Nat /\ ExpiredAt \in Nat /\ pending.created <= ExpiredAt
    <3>1. pending.created \in Nat /\ PendingTTL \in Nat
      BY <2>2, PendingFields, GrantsAssumption
    <3> QED  BY <3>1 DEF ExpiredAt
  <2>4. late.id = pending.id /\ late.at = ExpiredAt /\ late.kind = "timed_out"
    BY DEF Line
  <2> HIDE DEF late
  <2>5. /\ AskedIn(s.events) = AskedIn(events)
        /\ ApprovedIn(s.events) = ApprovedIn(events)
        /\ UnapprovedIn(s.events) = UnapprovedIn(events) \cup {late}
    BY <2>1, <2>4 DEF AskedIn, ApprovedIn, UnapprovedIn
  <2>6. LimitedBy(highWater, struck, s.events)
    BY <1>1, <2>2, <2>3, <2>4, <2>5, StruckPaced DEF SoundWith, LimitedWith
  <2> HIDE DEF struck
  <2>7. LimitedBy(now, GateTicked(struck, now), s.events)
    BY <1>1, <2>6, LimitedTick DEF LimitedBy
  <2> QED  BY <1>2, <2>1, <2>7 DEF Paced, Newest
<1> QED  BY <1>3, <1>4

\* A request that is let in is the newest; one that is answered is the last of
\* a row or ends it; nothing else counts.
LEMMA ActIsPaced ==
    ASSUME NEW g, SoundWith(g), LimitedWith(g), NEW t \in Time, SshActs(Ticked(g, t))
    PROVE  LimitedWith(gate)'
<1> DEFINE s == Ticked(g, t)
<1>1. Ready(s) /\ Paced(s)
  BY TickIsSound, TickIsPaced
<1>2. SshActs(s)
  OBVIOUS
<1> HIDE DEF s
<1>3. /\ s.now \in Nat /\ s.gate \in Gates /\ nextId \in Nat /\ s.events \subseteq Lines
      /\ s.pending \in Requests \cup {None}
      /\ Sound(s.now, s.pending, s.windows, s.gate, s.events)
  BY <1>1 DEF Ready, Sound, Typed
<1>4. CASE /\ highWater' = s.now /\ gate' = s.gate /\ pending' = s.pending
           /\ AskedIn(events') = AskedIn(s.events)
           /\ ApprovedIn(events') = ApprovedIn(s.events)
           /\ UnapprovedIn(events') = UnapprovedIn(s.events)
  BY <1>1, <1>4 DEF Paced, LimitedWith, LimitedBy, Newest
<1>5. CASE s.pending # None /\ pending' = None /\ highWater' = s.now
           /\ gate' = StruckAt(Released(s.gate, <<"ssh", s.pending.id>>), s.now)
           /\ \E e \in events' :
                  /\ e.id = s.pending.id /\ e.at = s.now
                  /\ AskedIn(events') = AskedIn(s.events)
                  /\ ApprovedIn(events') = ApprovedIn(s.events)
                  /\ UnapprovedIn(events') = UnapprovedIn(s.events) \cup {e}
  <2>1. s.pending.created <= s.now
    BY <1>3, <1>5 DEF Sound, Dated
  <2>2. LimitedBy(s.now, gate', events')
    BY <1>1, <1>3, <1>5, <2>1, StruckPaced DEF Paced
  <2> QED  BY <1>5, <2>2 DEF LimitedWith, LimitedBy, Newest
<1>6. CASE OnlyTicked(s)
  BY <1>4, <1>6 DEF OnlyTicked
<1>7. CASE \E h \in Hosts, k \in Keys, d \in Wanted : SshRequest(s, h, k, d)
  <2>1. PICK h \in Hosts, k \in Keys, d \in Wanted : SshRequest(s, h, k, d)
    BY <1>7
  <2>2. SUFFICES ASSUME ~OnlyTicked(s) PROVE LimitedWith(gate)'
    BY <1>6
  <2> DEFINE line == Line("requested", nextId, h, s.now)
  <2>3. /\ Admits(s.gate, s.now) /\ highWater' = s.now /\ pending'.id = nextId
        /\ gate' = Admitted(s.gate, s.now, <<"ssh", nextId>>)
        /\ events' = s.events \cup {line}
    BY <2>1, <2>2 DEF SshRequest
  <2>4. line.kind = "requested" /\ line.id = nextId /\ line.at = s.now
    BY DEF Line
  <2> HIDE DEF line
  <2>5. /\ AskedIn(events') = AskedIn(s.events) \cup {line}
        /\ ApprovedIn(events') = ApprovedIn(s.events)
        /\ UnapprovedIn(events') = UnapprovedIn(s.events)
    BY <2>3, <2>4 DEF AskedIn, ApprovedIn, UnapprovedIn
  <2>6. \A r \in AskedIn(s.events) : r.id < nextId /\ r.id \in Nat
    BY <1>3 DEF Sound, Replied, AskedIn, Lines
  <2>7. line \notin AskedIn(s.events)
    BY <1>3, <2>4, <2>6
  <2>8. <<"ssh", nextId>> \in Occupants
    BY <1>3 DEF Occupants
  <2>9. LimitedBy(s.now, gate', events')
    BY <1>1, <1>3, <2>3, <2>4, <2>5, <2>7, <2>8, LimitedAdmit DEF Paced, LimitedBy
  <2>10. \A r \in AskedIn(events') : r.id <= nextId
    BY <1>3, <2>4, <2>5, <2>6
  <2> QED  BY <2>3, <2>9, <2>10 DEF LimitedWith, LimitedBy, Newest
<1>8. CASE \E id, nonce, scope : SshApprove(s, id, nonce, scope)
  <2>1. PICK id, nonce, scope : SshApprove(s, id, nonce, scope)
    BY <1>8
  <2>2. SUFFICES ASSUME Matches(s, id, nonce, scope) PROVE LimitedWith(gate)'
    BY <1>6, <2>1 DEF SshApprove
  <2>3. s.pending # None /\ s.pending.id = id
    BY <2>2 DEF Matches
  <2> DEFINE a == [kind |-> "approved", id |-> id, host |-> s.pending.scope.host,
                   endsAt |-> s.pending.scope.endsAt, at |-> s.now]
  <2>4. /\ highWater' = s.now /\ pending' = None
        /\ gate' = Forgiven(Released(s.gate, <<"ssh", id>>))
        /\ events' = s.events \cup {a}
    BY <2>1, <2>2 DEF SshApprove
  <2>5. a.kind = "approved" /\ a.id = id /\ a.at = s.now
    OBVIOUS
  <2> HIDE DEF a
  <2>6. /\ AskedIn(events') = AskedIn(s.events)
        /\ ApprovedIn(events') = ApprovedIn(s.events) \cup {a}
        /\ UnapprovedIn(events') = UnapprovedIn(s.events)
    BY <2>4, <2>5 DEF AskedIn, ApprovedIn, UnapprovedIn
  <2>7. PICK r \in AskedIn(s.events) :
            r.id = id /\ \A f \in UnapprovedIn(s.events) : f.id < r.id
    BY <1>1, <1>3, <2>3, BeforePending DEF Paced
  <2>8. <<"ssh", id>> \in Occupants
    BY <1>3, <2>3, PendingFields
  <2> DEFINE A == AskedIn(s.events)
             U == UnapprovedIn(s.events)
             P == ApprovedIn(s.events)
  <2>9. Limited(s.now, s.gate, A, U, P)
    BY <1>1 DEF Paced, LimitedBy
  <2>10. a.id = r.id /\ a.at \in Nat
    BY <1>3, <2>5, <2>7
  <2> HIDE DEF A, U, P
  <2>11. Limited(s.now, Forgiven(Released(s.gate, <<"ssh", id>>)), A, U, P \cup {a})
    BY <1>3, <2>7, <2>8, <2>9, <2>10, LimitedApprove DEF A, U
  <2>12. LimitedBy(s.now, gate', events')
    BY <2>4, <2>6, <2>11 DEF LimitedBy, A, U, P
  <2> QED  BY <2>4, <2>12 DEF LimitedWith, LimitedBy, Newest
<1>9. CASE \E id : SshDecline(s, id)
  <2>1. PICK id : SshDecline(s, id)
    BY <1>9
  <2>2. SUFFICES ASSUME s.pending # None, s.pending.id = id PROVE LimitedWith(gate)'
    BY <1>6, <2>1 DEF SshDecline
  <2> DEFINE e == Line("declined", id, s.pending.scope.host, s.now)
  <2>3. /\ highWater' = s.now /\ pending' = None /\ events' = s.events \cup {e}
        /\ gate' = StruckAt(Released(s.gate, <<"ssh", s.pending.id>>), s.now)
    BY <2>1, <2>2 DEF SshDecline
  <2>4. e.kind = "declined" /\ e.id = s.pending.id /\ e.at = s.now /\ e \in events'
    BY <2>2, <2>3 DEF Line
  <2> HIDE DEF e
  <2>5. /\ AskedIn(events') = AskedIn(s.events)
        /\ ApprovedIn(events') = ApprovedIn(s.events)
        /\ UnapprovedIn(events') = UnapprovedIn(s.events) \cup {e}
    BY <2>3, <2>4 DEF AskedIn, ApprovedIn, UnapprovedIn
  <2> QED  BY <1>5, <2>2, <2>3, <2>4, <2>5
<1>10. CASE \E h \in Hosts, k \in Keys, f \in BOOLEAN : SshIssue(s, h, k, f)
  <2>1. SUFFICES ASSUME ~OnlyTicked(s), NEW w, Fresh(s, w) PROVE LimitedWith(gate)'
    BY <1>6, <1>10 DEF SshIssue
  <2>2. PICK e : e.kind = "issued" /\ events' = s.events \cup {e}
    BY <2>1 DEF Fresh
  <2>3. highWater' = s.now /\ gate' = s.gate /\ pending' = s.pending
    BY <2>1 DEF Fresh
  <2>4. /\ AskedIn(events') = AskedIn(s.events)
        /\ ApprovedIn(events') = ApprovedIn(s.events)
        /\ UnapprovedIn(events') = UnapprovedIn(s.events)
    BY <2>2 DEF AskedIn, ApprovedIn, UnapprovedIn
  <2> QED  BY <1>4, <2>3, <2>4
<1>11. CASE \E h \in Hosts : SshKill(s, h)
  <2>1. PICK h \in Hosts : SshKill(s, h)
    BY <1>11
  <2> DEFINE kills == {Line("killed", w.id, h, s.now) : w \in {x \in s.windows : x.scope.host = h}}
             e == Line("declined", s.pending.id, h, s.now)
             stopped == StopsPending(s, h)
  <2>2. /\ highWater' = s.now /\ pending' = IF stopped THEN None ELSE s.pending
        /\ gate' = IF stopped THEN StruckAt(Released(s.gate, <<"ssh", s.pending.id>>), s.now)
                   ELSE s.gate
        /\ events' = s.events \cup kills \cup IF stopped THEN {e} ELSE {}
    BY <2>1, Zenon DEF SshKill
  <2>3. /\ \A k \in kills : k.kind = "killed"
        /\ e.kind = "declined" /\ e.id = s.pending.id /\ e.at = s.now
    BY DEF Line
  <2>4. stopped => s.pending # None
    BY DEF StopsPending
  <2> HIDE DEF kills, e, stopped
  <2>5. AskedIn(events') = AskedIn(s.events) /\ ApprovedIn(events') = ApprovedIn(s.events)
    BY <2>2, <2>3 DEF AskedIn, ApprovedIn
  <2>6. UnapprovedIn(events') = UnapprovedIn(s.events) \cup IF stopped THEN {e} ELSE {}
    BY <2>2, <2>3 DEF UnapprovedIn
  <2>7. CASE stopped
    <3>1. e \in events'
      BY <2>2, <2>7
    <3> QED  BY <1>5, <2>2, <2>3, <2>4, <2>5, <2>6, <2>7, <3>1
  <2>8. CASE ~stopped
    BY <1>4, <2>2, <2>5, <2>6, <2>8
  <2> QED  BY <2>7, <2>8
<1> QED  BY <1>2, <1>6, <1>7, <1>8, <1>9, <1>10, <1>11 DEF SshActs, SshTick

----------------------------------------------------------------------------
(* How often a person is asked, about SSH access and about what else the gate *)
(* is lent for: x is a record of what that is (asked, struck and granted are  *)
(* its lines), of the latest time `late` of any clock and of how far `back`   *)
(* one may be.                                                                *)

AskedWith(x, es) == x.asked \cup AskedIn(es)
StruckWith(x, es) == x.struck \cup UnapprovedIn(es)
ApprovedWith(x, es) == x.granted \cup ApprovedIn(es)
SshSharing(x, p, g, es) ==
    /\ Metered(x.late, x.back, g, AskedWith(x, es), StruckWith(x, es), ApprovedWith(x, es))
    /\ p # None => \A f \in x.struck \cup x.granted : f.id # p.id

\* The request that waits has the slot, and no end yet.
LEMMA PendingHolds ==
    ASSUME NEW now, NEW p, NEW ws, NEW g, NEW es, Sound(now, p, ws, g, es), p # None
    PROVE  <<"ssh", p.id>> \in g.occupant /\ <<"ssh", p.id>> \in Occupants
<1>1. <<"ssh", p.id>> \in g.occupant
  BY DEF Sound, Slotted, HoldOf
<1>2. <<"ssh", p.id>> \in Occupants
  BY PendingFields DEF Sound, Typed, Occupants
<1> QED  BY <1>1, <1>2
LEMMA PendingAsked ==
    ASSUME NEW now, NEW p, NEW ws, NEW g, NEW es, Sound(now, p, ws, g, es), p # None, NEW x
    PROVE  \E r \in AskedWith(x, es) : r.id = p.id /\ r.at = p.created
BY DEF Sound, Dated, AskedWith
LEMMA PendingUnended ==
    ASSUME NEW now, NEW p, NEW ws, NEW g, NEW es, Sound(now, p, ws, g, es), p # None,
           NEW x, SshSharing(x, p, g, es)
    PROVE  \A f \in StruckWith(x, es) \cup ApprovedWith(x, es) : f.id # p.id
<1>1. PICK r \in AskedIn(es) : r.id = p.id
  BY DEF Sound, Dated
<1>2. \A f \in AnswersIn(es) : f.id # p.id
  BY <1>1 DEF Sound, Replied
<1>3. UnapprovedIn(es) \cup ApprovedIn(es) \subseteq AnswersIn(es)
  BY DEF UnapprovedIn, ApprovedIn, AnswersIn, Verdicts
<1> QED  BY <1>2, <1>3 DEF SshSharing, StruckWith, ApprovedWith

LEMMA StruckShares ==
    ASSUME NEW now, NEW p, NEW ws, NEW g, NEW es, NEW more, Sound(now, p, ws, g, es), p # None,
           NEW x, SshSharing(x, p, g, es),
           NEW e, e.id = p.id, e.at \in Nat, p.created <= e.at,
           AskedIn(more) = AskedIn(es), ApprovedIn(more) = ApprovedIn(es),
           UnapprovedIn(more) = UnapprovedIn(es) \cup {e}
    PROVE  SshSharing(x, None, StruckAt(Released(g, <<"ssh", p.id>>), e.at), more)
<1> DEFINE o == <<"ssh", p.id>>
           f == Released(g, o)
           h == StruckAt(f, e.at)
           A == AskedWith(x, es)
           U == StruckWith(x, es)
           P == ApprovedWith(x, es)
<1>1. o \in g.occupant /\ o \in Occupants /\ \A y \in U \cup P : y.id # p.id
  BY PendingHolds, PendingUnended
<1>2. PICK r \in A : r.id = p.id /\ r.at = p.created
  BY PendingAsked
<1>3. g \in Gates
  BY DEF Sound, Typed
<1>4. /\ f \in Gates /\ f.occupant \subseteq g.occupant /\ f.accepted = g.accepted
      /\ f.strikes = g.strikes
  BY <1>1, <1>3, ReleasedParts
<1>5. /\ h \in Gates /\ h.occupant = f.occupant /\ h.accepted = f.accepted
      /\ h.strikes = f.strikes + 1 /\ h.cooldownUntil = e.at + Cooldown(f.strikes + 1)
  <2> HIDE DEF f
  <2> QED  BY <1>1, <1>4, StruckParts
<1>6. Metered(x.late, x.back, g, A, U, P)
  BY DEF SshSharing
<1>7. o[2] = p.id
  OBVIOUS
<1> HIDE DEF h, f, o, A, U, P
<1>8. Metered(x.late, x.back, h, A, U \cup {e}, P)
  BY <1>1, <1>2, <1>4, <1>5, <1>6, <1>7, MeteredStrike
<1>9. AskedWith(x, more) = A /\ StruckWith(x, more) = U \cup {e} /\ ApprovedWith(x, more) = P
  BY DEF AskedWith, StruckWith, ApprovedWith, A, U, P
<1> QED  BY <1>8, <1>9 DEF SshSharing, h, f, o

\* A tick, whatever it finds has timed out.
LEMMA SshTickShares ==
    ASSUME NEW g, SoundWith(g), NEW x, SshSharing(x, pending, g, events), x.late \in Nat,
           NEW t \in Time, Clamped(t) <= x.late
    PROVE  SshSharing(x, Ticked(g, t).pending, Ticked(g, t).gate, Ticked(g, t).events)
<1> DEFINE s == Ticked(g, t)
           now == Clamped(t)
           late == Line("timed_out", pending.id, pending.scope.host, ExpiredAt)
           struck == StruckAt(Released(g, <<"ssh", pending.id>>), ExpiredAt)
<1>1. now \in Nat /\ now <= x.late
  BY GateAssumption DEF SoundWith, Sound, Typed, Clamped, Later
<1>2. /\ s.pending = IF Lapsed(now) THEN None ELSE pending
      /\ s.gate = GateTicked(IF Lapsed(now) THEN struck ELSE g, now)
      /\ s.events = events \cup TimeoutLines(now)
  BY DEF Ticked
<1> SUFFICES SshSharing(x, s.pending, s.gate, s.events)
  OBVIOUS
<1> HIDE DEF s, now
<1>3. CASE ~Lapsed(now)
  <2>1. s.pending = pending /\ s.events = events /\ s.gate = GateTicked(g, now)
    BY <1>2, <1>3 DEF TimeoutLines
  <2> QED  BY <1>1, <2>1, MeteredTick DEF SshSharing
<1>4. CASE Lapsed(now)
  <2>1. s.pending = None /\ s.events = events \cup {late} /\ s.gate = GateTicked(struck, now)
    BY <1>2, <1>4 DEF TimeoutLines
  <2>2. pending # None /\ pending \in Requests \cup {None}
    BY <1>4 DEF Lapsed, SoundWith, Sound, Typed
  <2>3. ExpiredAt \in Nat /\ pending.created <= ExpiredAt
    <3>1. pending.created \in Nat /\ PendingTTL \in Nat
      BY <2>2, PendingFields, GrantsAssumption
    <3> QED  BY <3>1 DEF ExpiredAt
  <2>4. late.id = pending.id /\ late.at = ExpiredAt /\ late.kind = "timed_out"
    BY DEF Line
  <2> HIDE DEF late
  <2>5. /\ AskedIn(s.events) = AskedIn(events)
        /\ ApprovedIn(s.events) = ApprovedIn(events)
        /\ UnapprovedIn(s.events) = UnapprovedIn(events) \cup {late}
    BY <2>1, <2>4 DEF AskedIn, ApprovedIn, UnapprovedIn
  <2>6. SshSharing(x, None, struck, s.events)
    BY <2>2, <2>3, <2>4, <2>5, StruckShares DEF SoundWith
  <2> HIDE DEF struck
  <2> QED  BY <1>1, <2>1, <2>6, MeteredTick DEF SshSharing
<1> QED  BY <1>3, <1>4

\* As ActIsPaced: a request that is let in takes an id that is new to all.
LEMMA ActShares ==
    ASSUME NEW g, SoundWith(g), NEW x, SshSharing(x, pending, g, events),
           x.late \in Nat, x.back \in Nat, NEW t \in Time,
           Clamped(t) <= x.late, x.late <= Clamped(t) + x.back,
           \A q \in x.asked : q.id < nextId,
           SshActs(Ticked(g, t))
    PROVE  SshSharing(x, None, gate', events')
<1> DEFINE s == Ticked(g, t)
           Shares == SshSharing(x, None, gate', events')
<1>1. Ready(s) /\ SshSharing(x, s.pending, s.gate, s.events)
  BY TickIsSound, SshTickShares
<1>2. SshActs(s) /\ s.now = Clamped(t)
  BY DEF Ticked
<1> HIDE DEF s
<1>3. /\ s.now \in Nat /\ s.gate \in Gates /\ nextId \in Nat /\ s.events \subseteq Lines
      /\ s.pending \in Requests \cup {None}
      /\ Sound(s.now, s.pending, s.windows, s.gate, s.events)
  BY <1>1 DEF Ready, Sound, Typed
<1>4. CASE /\ gate' = s.gate
           /\ AskedIn(events') = AskedIn(s.events)
           /\ ApprovedIn(events') = ApprovedIn(s.events)
           /\ UnapprovedIn(events') = UnapprovedIn(s.events)
  BY <1>1, <1>4 DEF SshSharing, AskedWith, StruckWith, ApprovedWith
<1>5. CASE s.pending # None
           /\ gate' = StruckAt(Released(s.gate, <<"ssh", s.pending.id>>), s.now)
           /\ \E e \in events' :
                  /\ e.id = s.pending.id /\ e.at = s.now
                  /\ AskedIn(events') = AskedIn(s.events)
                  /\ ApprovedIn(events') = ApprovedIn(s.events)
                  /\ UnapprovedIn(events') = UnapprovedIn(s.events) \cup {e}
  <2>1. s.pending.created <= s.now
    BY <1>3, <1>5 DEF Sound, Dated
  <2> QED  BY <1>1, <1>3, <1>5, <2>1, StruckShares
<1>6. CASE OnlyTicked(s)
  BY <1>4, <1>6 DEF OnlyTicked
<1>7. CASE \E h \in Hosts, k \in Keys, d \in Wanted : SshRequest(s, h, k, d)
  <2>1. PICK h \in Hosts, k \in Keys, d \in Wanted : SshRequest(s, h, k, d)
    BY <1>7
  <2>2. SUFFICES ASSUME ~OnlyTicked(s) PROVE Shares
    BY <1>6
  <2> DEFINE line == Line("requested", nextId, h, s.now)
             o == <<"ssh", nextId>>
             A == AskedWith(x, s.events)
             U == StruckWith(x, s.events)
             P == ApprovedWith(x, s.events)
  <2>3. /\ Admits(s.gate, s.now)
        /\ gate' = Admitted(s.gate, s.now, <<"ssh", nextId>>)
        /\ events' = s.events \cup {line}
    BY <2>1, <2>2 DEF SshRequest
  <2>4. line.kind = "requested" /\ line.id = nextId /\ line.at = s.now
    BY DEF Line
  <2> HIDE DEF line
  <2>5. /\ AskedWith(x, events') = A \cup {line}
        /\ ApprovedWith(x, events') = P
        /\ StruckWith(x, events') = U
    BY <2>3, <2>4 DEF AskedIn, ApprovedIn, UnapprovedIn, AskedWith, StruckWith, ApprovedWith
  <2>6. \A r \in A : r.id < line.id
    BY <1>3, <2>4 DEF Sound, Replied, AskedWith
  <2>7. o \in Occupants /\ line.id = o[2] /\ gate' = Admitted(s.gate, s.now, o)
    BY <1>3, <2>3, <2>4 DEF Occupants
  <2>8. Metered(x.late, x.back, s.gate, A, U, P)
    BY <1>1 DEF SshSharing
  <2>9. x.late <= s.now + x.back
    BY <1>2
  <2> HIDE DEF A, U, P, o
  <2>10. Metered(x.late, x.back, gate', A \cup {line}, U, P)
    BY <1>3, <2>3, <2>4, <2>6, <2>7, <2>8, <2>9, MeteredAdmit
  <2> QED  BY <2>5, <2>10 DEF SshSharing
<1>8. CASE \E id, nonce, scope : SshApprove(s, id, nonce, scope)
  <2>1. PICK id, nonce, scope : SshApprove(s, id, nonce, scope)
    BY <1>8
  <2>2. SUFFICES ASSUME Matches(s, id, nonce, scope) PROVE Shares
    BY <1>6, <2>1 DEF SshApprove
  <2>3. s.pending # None /\ s.pending.id = id
    BY <2>2 DEF Matches
  <2> DEFINE a == [kind |-> "approved", id |-> id, host |-> s.pending.scope.host,
                   endsAt |-> s.pending.scope.endsAt, at |-> s.now]
             o == <<"ssh", id>>
             f == Released(s.gate, o)
             h == Forgiven(f)
             A == AskedWith(x, s.events)
             U == StruckWith(x, s.events)
             P == ApprovedWith(x, s.events)
  <2>4. gate' = h /\ events' = s.events \cup {a}
    BY <2>1, <2>2 DEF SshApprove
  <2>5. a.kind = "approved" /\ a.id = id /\ a.at = s.now
    OBVIOUS
  <2> HIDE DEF a
  <2>6. /\ AskedWith(x, events') = A
        /\ ApprovedWith(x, events') = P \cup {a}
        /\ StruckWith(x, events') = U
    BY <2>4, <2>5 DEF AskedIn, ApprovedIn, UnapprovedIn, AskedWith, StruckWith, ApprovedWith
  <2>7. o \in s.gate.occupant /\ o \in Occupants /\ \A y \in U \cup P : y.id # id
    BY <1>1, <1>3, <2>3, PendingHolds, PendingUnended
  <2>8. PICK r \in A : r.id = id
    BY <1>3, <2>3, PendingAsked
  <2>9. f \in Gates /\ f.occupant \subseteq s.gate.occupant /\ f.accepted = s.gate.accepted
    BY <1>3, <2>7, ReleasedParts
  <2>10. /\ h \in Gates /\ h.occupant = f.occupant /\ h.accepted = f.accepted
         /\ h.strikes = 0 /\ h.cooldownUntil = 0
    <3> HIDE DEF f
    <3> QED  BY <2>9, ForgivenParts
  <2>11. Metered(x.late, x.back, s.gate, A, U, P)
    BY <1>1 DEF SshSharing
  <2>12. o[2] = id /\ a.id = id /\ a.at \in Nat
    BY <1>3, <2>5
  <2> HIDE DEF h, f, o, A, U, P
  <2>13. Metered(x.late, x.back, h, A, U, P \cup {a})
    BY <2>7, <2>8, <2>9, <2>10, <2>11, <2>12, MeteredApprove
  <2> QED  BY <2>4, <2>6, <2>13 DEF SshSharing
<1>9. CASE \E id : SshDecline(s, id)
  <2>1. PICK id : SshDecline(s, id)
    BY <1>9
  <2>2. SUFFICES ASSUME s.pending # None, s.pending.id = id PROVE Shares
    BY <1>6, <2>1 DEF SshDecline
  <2> DEFINE e == Line("declined", id, s.pending.scope.host, s.now)
  <2>3. /\ events' = s.events \cup {e}
        /\ gate' = StruckAt(Released(s.gate, <<"ssh", s.pending.id>>), s.now)
    BY <2>1, <2>2 DEF SshDecline
  <2>4. e.kind = "declined" /\ e.id = s.pending.id /\ e.at = s.now /\ e \in events'
    BY <2>2, <2>3 DEF Line
  <2> HIDE DEF e
  <2>5. /\ AskedIn(events') = AskedIn(s.events)
        /\ ApprovedIn(events') = ApprovedIn(s.events)
        /\ UnapprovedIn(events') = UnapprovedIn(s.events) \cup {e}
    BY <2>3, <2>4 DEF AskedIn, ApprovedIn, UnapprovedIn
  <2> QED  BY <1>5, <2>2, <2>3, <2>4, <2>5
<1>10. CASE \E h \in Hosts, k \in Keys, f \in BOOLEAN : SshIssue(s, h, k, f)
  <2>1. SUFFICES ASSUME ~OnlyTicked(s), NEW w, Fresh(s, w) PROVE Shares
    BY <1>6, <1>10 DEF SshIssue
  <2>2. PICK e : e.kind = "issued" /\ events' = s.events \cup {e}
    BY <2>1 DEF Fresh
  <2>3. /\ gate' = s.gate
        /\ AskedIn(events') = AskedIn(s.events)
        /\ ApprovedIn(events') = ApprovedIn(s.events)
        /\ UnapprovedIn(events') = UnapprovedIn(s.events)
    BY <2>1, <2>2 DEF AskedIn, ApprovedIn, UnapprovedIn, Fresh
  <2> QED  BY <1>4, <2>3
<1>11. CASE \E h \in Hosts : SshKill(s, h)
  <2>1. PICK h \in Hosts : SshKill(s, h)
    BY <1>11
  <2> DEFINE kills == {Line("killed", w.id, h, s.now) : w \in {y \in s.windows : y.scope.host = h}}
             e == Line("declined", s.pending.id, h, s.now)
             stopped == StopsPending(s, h)
  <2>2. /\ gate' = IF stopped THEN StruckAt(Released(s.gate, <<"ssh", s.pending.id>>), s.now)
                   ELSE s.gate
        /\ events' = s.events \cup kills \cup IF stopped THEN {e} ELSE {}
    BY <2>1, Zenon DEF SshKill
  <2>3. /\ \A k \in kills : k.kind = "killed"
        /\ e.kind = "declined" /\ e.id = s.pending.id /\ e.at = s.now
    BY DEF Line
  <2>4. stopped => s.pending # None
    BY DEF StopsPending
  <2> HIDE DEF kills, e, stopped
  <2>5. AskedIn(events') = AskedIn(s.events) /\ ApprovedIn(events') = ApprovedIn(s.events)
    BY <2>2, <2>3 DEF AskedIn, ApprovedIn
  <2>6. UnapprovedIn(events') = UnapprovedIn(s.events) \cup IF stopped THEN {e} ELSE {}
    BY <2>2, <2>3 DEF UnapprovedIn
  <2>7. CASE stopped
    <3>1. e \in events'
      BY <2>2, <2>7
    <3> QED  BY <1>5, <2>2, <2>3, <2>4, <2>5, <2>6, <2>7, <3>1
  <2>8. CASE ~stopped
    BY <1>4, <2>2, <2>5, <2>6, <2>8
  <2> QED  BY <2>7, <2>8
<1> QED  BY <1>2, <1>6, <1>7, <1>8, <1>9, <1>10, <1>11 DEF SshActs, SshTick

----------------------------------------------------------------------------
(* The theorems.                                                           *)

\* Grants starts with nothing asked, open or issued.
LEMMA InitIsSound == GrantsInit => IInv
<1> SUFFICES ASSUME GrantsInit PROVE IInv
  OBVIOUS
<1>1. EmptyGate \in Gates /\ HoldOf("ssh", EmptyGate) = {}
  BY DEF EmptyGate, Gates, HoldOf
<1>2. Typed(highWater, pending, windows, gate, events) /\ Slotted(pending, gate)
  BY <1>1 DEF GrantsInit, Typed, Slotted
<1>3. /\ Replied(pending, events) /\ Dated(highWater, pending, events)
      /\ Standing(windows, events) /\ Certified(highWater, events)
  BY DEF GrantsInit, Replied, Dated, Standing, Certified, AskedIn, AnswersIn, KilledIn
<1> QED  BY <1>2, <1>3 DEF IInv, SoundWith, Sound

\* Nothing but its own requests holds the slot of Grants alone.
GInv == IInv /\ HoldOf("job", gate) = {}
LEMMA InitIsAlone == GrantsInit => GInv
<1>1. GrantsInit => HoldOf("job", gate) = {}
  BY DEF GrantsInit, EmptyGate, HoldOf
<1> QED  BY <1>1, InitIsSound DEF GInv

\* A step of Grants is one of its methods, after a tick of the gate as it stands.
LEMMA NextActs == GrantsNext => \E t \in Time : SshActs(Ticked(gate, t))
BY Zenon DEF GrantsNext, Readings, SshActs

\* Every step of Grants keeps the invariant.
LEMMA StepIsSound == GInv /\ [GrantsNext]_grantsVars => GInv'
<1> SUFFICES ASSUME GInv, [GrantsNext]_grantsVars PROVE GInv'
  OBVIOUS
<1> SoundWith(gate) /\ HoldOf("job", gate) = {}
  BY DEF GInv, IInv
<1>1. CASE UNCHANGED grantsVars
  <2>1. IInv'
    BY <1>1 DEF IInv, SoundWith, Sound, Typed, Slotted, Replied, Dated, Standing, Certified,
                AskedIn, AnswersIn, KilledIn, grantsVars, sshVars
  <2>2. gate' = gate
    BY <1>1 DEF grantsVars
  <2> QED  BY <2>1, <2>2 DEF GInv
<1>2. CASE GrantsNext
  <2>1. PICK t \in Time : SshActs(Ticked(gate, t))
    BY <1>2, NextActs
  <2>2. IInv'
    BY <2>1, ActIsSound
  <2>3. HoldOf("job", gate') = {}
    BY <2>1, ActLends DEF Lends
  <2> QED  BY <2>2, <2>3 DEF GInv
<1> QED  BY <1>1, <1>2

\* The invariant holds of every state Grants can reach, for every policy, set
\* of hosts and keys, and clock.
THEOREM GrantsSound == GrantsSpec => []GInv
<1> QED  BY InitIsAlone, StepIsSound, PTL DEF GrantsSpec

\* Grants starts with nothing asked, and every step keeps to the limits.
LEMMA NoneAsked ==
    ASSUME NEW now \in Nat
    PROVE  Limited(now, EmptyGate, {}, {}, {})
<1>1. EmptyGate \in Gates /\ EmptyGate.accepted = <<>> /\ EmptyGate.strikes = 0
  BY DEF EmptyGate, Gates
<1>2. Counted({}, EmptyGate, now) /\ Spread({}, 0)
  <2>1. Recent({}, now) = {}
    BY DEF Recent
  <2>2. [q \in {} |-> 0] \in [{} -> DOMAIN EmptyGate.accepted]
    OBVIOUS
  <2> QED  BY <2>1, <2>2 DEF Counted, Spread
<1>3. Ascending(<<>>, now) /\ Timed({}) /\ Rested({}, {}, {})
  BY DEF Ascending, Timed, Rested
<1>4. Resting(EmptyGate, now, {}, {})
  BY <1>1, <1>3, FS_EmptySet DEF Resting, Streak
<1> QED  BY <1>1, <1>2, <1>3, <1>4 DEF Limited

LEMMA GrantsPaced == GrantsSpec => []LimitedWith(gate)
<1>1. ASSUME GrantsInit PROVE LimitedWith(gate)
  <2>1. /\ AskedIn(events) = {} /\ UnapprovedIn(events) = {} /\ ApprovedIn(events) = {}
        /\ gate = EmptyGate /\ pending = None /\ highWater = 0
    BY <1>1 DEF GrantsInit, AskedIn, UnapprovedIn, ApprovedIn
  <2> QED  BY <2>1, NoneAsked, 0 \in Nat DEF LimitedWith, LimitedBy, Newest
<1>2. ASSUME GInv, LimitedWith(gate), [GrantsNext]_grantsVars PROVE LimitedWith(gate)'
  <2>1. CASE UNCHANGED grantsVars
    BY <1>2, <2>1 DEF grantsVars, sshVars, LimitedWith, LimitedBy, Newest
  <2>2. CASE GrantsNext
    <3>1. PICK t \in Time : SshActs(Ticked(gate, t))
      BY <2>2, NextActs
    <3> QED  BY <1>2, <3>1, ActIsPaced DEF GInv, IInv
  <2> QED  BY <1>2, <2>1, <2>2
<1> QED  BY <1>1, <1>2, GrantsSound, PTL DEF GrantsSpec

\* However requests are filed, answered, timed out and killed, and whatever the
\* clock does: after one that ended without an approval the next waits out the
\* cooldown, which grows with each such end in a row; no hour has more requests
\* than the cap; and the forecast agents are given is what admit then says
\* (src/gate.rs: strike_at, admit, check).
THEOREM AskingIsLimited == GrantsSpec => []RequestsAreLimited
<1>1. ASSUME GInv, LimitedWith(gate) PROVE RequestsAreLimited
  <2> DEFINE U == UnapprovedIn(events)
             P == ApprovedIn(events)
             A == AskedIn(events)
  <2>1. Limited(highWater, gate, A, U, P)
    BY <1>1 DEF LimitedWith, LimitedBy
  <2>2. Unapproved = U /\ Requested = A
    BY DEF Unapproved, Requested, UnapprovedIn, AskedIn
  <2>3. \A e : InARow(e) = Cardinality(Row(e, U, P))
    <3>1. \A e : {f \in U : /\ f.id <= e.id
                            /\ \A a \in Answers : a.kind = "approved"
                                                    => ~(f.id < a.id /\ a.id < e.id)}
                   = Row(e, U, P)
      BY DEF Row, Answers, ApprovedIn, Verdicts
    <3> QED  BY <2>2, <3>1 DEF InARow
  <2> HIDE DEF A, U, P
  <2>4. CooldownBacksOff
    BY <2>1, <2>2, <2>3 DEF Limited, Rested, RestsUntil, CooldownBacksOff
  <2>5. HourlyCap
    <3>1. \A r \in A : Within(A, r, 0) = {q \in A : q.at <= r.at /\ q.at + Hour > r.at}
      BY <2>1 DEF Limited, Timed, Within
    <3> QED  BY <2>1, <2>2, <3>1 DEF Limited, Spread, HourlyCap
  <2>6. highWater \in Nat /\ \A t \in Time : t \in Nat
    BY <1>1, GateAssumption DEF GInv, IInv, SoundWith, Sound, Typed
  <2>7. ForecastIsRight
    BY <2>1, <2>6, ForecastHolds DEF Limited, ForecastIsRight
  <2> QED  BY <2>4, <2>5, <2>7 DEF RequestsAreLimited
<1> QED  BY <1>1, GrantsSound, GrantsPaced, PTL

\* Type correctness of Grants (grant.rs, `Grants`).
THEOREM SshTypes == GrantsSpec => []SshTypeOK
<1>1. GInv => SshTypeOK
  BY DEF GInv, IInv, SoundWith, Sound, Typed, SshTypeOK
<1> QED  BY <1>1, GrantsSound, PTL

\* The slot is held exactly while a request waits, by that request: no method
\* of Grants leaks it or gives it back early.
LEMMA SlotFollowsPending == GrantsSpec => []SlotIsHeldByPending
<1>1. GInv => SlotIsHeldByPending
  BY SlotParts DEF GInv, IInv, SoundWith, Sound, Typed, Slotted, SlotIsHeldByPending
<1> QED  BY <1>1, GrantsSound, PTL

\* Every request in the ledger waits or has exactly one verdict, its own.
LEMMA AnsweredOnce == GrantsSpec => []EveryRequestAnsweredOnce
<1>1. GInv => EveryRequestAnsweredOnce
  BY DEF GInv, IInv, SoundWith, Sound, Replied, AskedIn, AnswersIn,
         EveryRequestAnsweredOnce, Requested, Answers
<1> QED  BY <1>1, GrantsSound, PTL

\* A request waits, in the slot, or has been answered, once.
THEOREM RequestsAreSettled == GrantsSpec => []RequestsAreAnswered
<1> QED  BY AnsweredOnce, SlotFollowsPending, PTL DEF RequestsAreAnswered

\* Every open window was signed for as it stands, is on record, and has not
\* been killed.
LEMMA WindowsStand == GrantsSpec => []OpenWindowsStand
<1>1. GInv => OpenWindowsStand
  BY DEF GInv, IInv, SoundWith, Sound, Standing, AnswersIn, KilledIn, OpenWindowsStand, Answers, Killed
<1> QED  BY <1>1, GrantsSound, PTL

\* No certificate goes beyond what was signed for, or follows a kill.
LEMMA CertsAreSignedFor == GrantsSpec => []CertsWithinSignedScope
<1>1. GInv => CertsWithinSignedScope
  BY DEF GInv, IInv, SoundWith, Sound, Certified, KilledIn, CertsWithinSignedScope, Killed
<1> QED  BY <1>1, GrantsSound, PTL

\* Serials are never used twice and never run ahead of time, whatever the
\* wall clock reads.
LEMMA SerialsAreOrdered == GrantsSpec => []SerialsFollowTime
<1>1. GInv => SerialsFollowTime
  BY DEF GInv, IInv, SoundWith, Sound, Certified, AskedIn, SerialsFollowTime, Requested
<1> QED  BY <1>1, GrantsSound, PTL

\* Whatever the clock, the kills and the requests do, what an approval opens and
\* what is issued in it stay within what was signed for (grant.rs, issue).
THEOREM ApprovedAsSigned == GrantsSpec => []ApprovalsStand
<1> QED  BY WindowsStand, CertsAreSignedFor, SerialsAreOrdered, PTL DEF ApprovalsStand

\* The kill switch leaves nothing of its host standing and touches no other
\* host's windows.
THEOREM KillStops == GrantsSpec => KillStopsHost
<1> DEFINE Stops(e) ==
               /\ \A w \in windows' : w.scope.host # e.host
               /\ pending' # None => pending'.scope.host # e.host
               /\ \A w \in windows :
                     w.scope.host # e.host /\ w.scope.endsAt > highWater' => w \in windows'
           Kills == \A e \in events' \ events : e.kind = "killed" => Stops(e)
<1>1. ASSUME GInv, [GrantsNext]_grantsVars PROVE Kills
  <2>1. CASE UNCHANGED grantsVars
    BY <2>1 DEF grantsVars, sshVars
  <2>2. CASE GrantsNext
    <3>1. PICK t \in Time :
              \/ OnlyTicked(Ticked(gate, t))
              \/ \E h \in Hosts, k \in Keys, d \in Wanted :
                     SshRequest(Ticked(gate, t), h, k, d)
              \/ \E a \in Presented :
                     SshApprove(Ticked(gate, t), a.id, a.nonce, a.scope)
              \/ \E id \in Ids : SshDecline(Ticked(gate, t), id)
              \/ \E h \in Hosts, k \in Keys, f \in BOOLEAN :
                     SshIssue(Ticked(gate, t), h, k, f)
              \/ \E h \in Hosts : SshKill(Ticked(gate, t), h)
      BY <2>2 DEF GrantsNext, Readings, SshTick
    <3> DEFINE s == Ticked(gate, t)
    <3>2. /\ \A e \in s.events \ events : e.kind # "killed"
          /\ s.windows = {w \in windows : w.scope.endsAt > s.now}
      BY DEF Ticked, TimeoutLines, Line
    <3> HIDE DEF s
    <3>3. CASE \E h \in Hosts : SshKill(s, h)
      <4>1. PICK h \in Hosts : SshKill(s, h)
        BY <3>3
      <4>2. /\ highWater' = s.now
            /\ windows' = {w \in s.windows : w.scope.host # h}
            /\ pending' # None => pending'.scope.host # h
        BY <4>1 DEF SshKill, StopsPending
      <4>3. \A e \in events' \ events : e.kind = "killed" => e.host = h
        BY <3>2, <4>1 DEF SshKill, Line
      <4> QED  BY <3>2, <4>2, <4>3
    <3>4. CASE ~ \E h \in Hosts : SshKill(s, h)
      <4>1. \A e \in events' \ s.events : e.kind # "killed"
        <5>1. CASE OnlyTicked(s)
          BY <5>1 DEF OnlyTicked
        <5>2. CASE \E h \in Hosts, k \in Keys, d \in Wanted : SshRequest(s, h, k, d)
          BY <5>2 DEF SshRequest, OnlyTicked, Line
        <5>3. CASE \E a \in Presented : SshApprove(s, a.id, a.nonce, a.scope)
          BY <5>3 DEF SshApprove, OnlyTicked
        <5>4. CASE \E id \in Ids : SshDecline(s, id)
          BY <5>4 DEF SshDecline, OnlyTicked, Line
        <5>5. CASE \E h \in Hosts, k \in Keys, f \in BOOLEAN : SshIssue(s, h, k, f)
          BY <5>5 DEF SshIssue, Fresh, OnlyTicked
        <5> QED  BY <3>1, <3>4, <5>1, <5>2, <5>3, <5>4, <5>5 DEF s
      <4> QED  BY <3>2, <4>1
    <3> QED  BY <3>3, <3>4
  <2> QED  BY <1>1, <2>1, <2>2
<1>2. KillStopsHost <=> [][Kills]_grantsVars
  BY DEF KillStopsHost
<1> QED  BY <1>1, <1>2, GrantsSound, PTL DEF GrantsSpec

----------------------------------------------------------------------------
(* Grants implements Approvals.                                            *)

\* A tick asks nothing, opens nothing and brings nothing back.
LEMMA TickLapses ==
    ASSUME NEW g, NEW t \in Time
    PROVE  /\ Ticked(g, t).windows \subseteq windows
           /\ Ticked(g, t).pending \in {None, pending}
           /\ AskedIn(Ticked(g, t).events) = Requested
BY DEF Ticked, TimeoutLines, Line, AskedIn, Requested

\* What a call that opens nothing, asks nothing and issues nothing amounts to.
LEMMA LapseStep ==
    ASSUME windows' \subseteq windows, pending' \in {None, pending},
           Requested' = Requested, certs' = certs
    PROVE  SshApprovals!Lapse
<1>1. SshOpen' \subseteq SshOpen
  BY DEF SshOpen, SshQuestion
<1>2. SshGranted' \subseteq SshGranted
  BY DEF SshGranted, SshQuestion
<1>3. SshPast' = SshPast /\ SshUses' = SshUses
  BY DEF SshPast, SshUses, SshUse
<1> QED  BY <1>1, <1>2, <1>3 DEF SshApprovals!Lapse

\* A request takes an id no request had.
LEMMA RequestAsks ==
    ASSUME NEW g, SoundWith(g), NEW t \in Time, NEW host \in Hosts, NEW key \in Keys,
           NEW wanted \in Wanted, SshRequest(Ticked(g, t), host, key, wanted),
           ~OnlyTicked(Ticked(g, t))
    PROVE  SshApprovals!Ask
<1> DEFINE s == Ticked(g, t)
           scope == [host |-> host, key |-> key,
                     endsAt |-> s.now + Earlier(wanted, MaxWindow)]
           p == [id |-> nextId, nonce |-> nextId, scope |-> scope, created |-> s.now]
           line == Line("requested", nextId, host, s.now)
<1>1. s.windows \subseteq windows /\ AskedIn(s.events) = Requested
  BY TickLapses
<1>2. SshRequest(s, host, key, wanted) /\ ~OnlyTicked(s)
  OBVIOUS
<1>3. nextId \in Nat /\ s.now \in Nat
  BY TickIsSound DEF SoundWith, Ready, Sound, Typed
<1> HIDE DEF s
<1>4. /\ pending' = p /\ windows' = s.windows
      /\ events' = s.events \cup {line} /\ certs' = certs
  BY <1>2 DEF SshRequest
<1>5. p \in Requests /\ p.id = nextId
  BY <1>3, GrantsAssumption DEF Requests, Scopes, Earlier
<1>6. line.kind = "requested" /\ line.id = nextId
  BY DEF Line
<1> HIDE DEF p, line
<1>7. Requested' = Requested \cup {line}
  BY <1>1, <1>4, <1>6 DEF Requested, AskedIn
<1>8. SshPast' = SshPast \cup {nextId}
  BY <1>6, <1>7 DEF SshPast
<1>9. nextId \notin SshPast
  BY <1>3 DEF SoundWith, Sound, Replied, AskedIn, SshPast, Requested
<1>10. SshOpen' = {SshQuestion(p)} /\ SshQuestion(p).id = nextId
  BY <1>4, <1>5, GrantsAssumption DEF SshOpen, SshQuestion
<1>11. SshGranted' \subseteq SshGranted /\ SshUses' = SshUses
  BY <1>1, <1>4 DEF SshGranted, SshQuestion, SshUses, SshUse
<1> QED  BY <1>8, <1>9, <1>10, <1>11 DEF SshApprovals!Ask

\* An approval opens the window of the request that waits.
LEMMA ApproveGrants ==
    ASSUME NEW g, NEW t \in Time, NEW id, NEW nonce, NEW scope,
           SshApprove(Ticked(g, t), id, nonce, scope), ~OnlyTicked(Ticked(g, t))
    PROVE  SshApprovals!Grant
<1> DEFINE s == Ticked(g, t)
           w0 == [id |-> id, scope |-> s.pending.scope, started |-> s.now, last |-> None]
           line == [kind |-> "approved", id |-> id, host |-> s.pending.scope.host,
                    endsAt |-> s.pending.scope.endsAt, at |-> s.now]
<1>1. /\ s.windows \subseteq windows /\ s.pending \in {None, pending}
      /\ AskedIn(s.events) = Requested
  BY TickLapses
<1>2. SshApprove(s, id, nonce, scope) /\ ~OnlyTicked(s)
  OBVIOUS
<1> HIDE DEF s
<1>3. /\ Matches(s, id, nonce, scope) /\ pending' = None
      /\ windows' = s.windows \cup {w0}
      /\ events' = s.events \cup {line} /\ certs' = certs
  BY <1>2 DEF SshApprove
<1>4. s.pending = pending /\ pending # None /\ pending.id = id
  BY <1>1, <1>3 DEF Matches
<1>5. SshQuestion(w0) = SshQuestion(pending)
  BY <1>4 DEF SshQuestion
<1>6. line.kind # "requested"
  OBVIOUS
<1> HIDE DEF w0, line
<1>7. SshOpen = {SshQuestion(pending)} /\ SshOpen' = {}
  BY <1>3, <1>4 DEF SshOpen
<1>8. SshGranted' \subseteq SshGranted \cup {SshQuestion(pending)}
  BY <1>1, <1>3, <1>5 DEF SshGranted, SshQuestion
<1>9. SshPast' = SshPast /\ SshUses' = SshUses
  BY <1>1, <1>3, <1>6 DEF SshPast, Requested, AskedIn, SshUses, SshUse
<1> QED  BY <1>7, <1>8, <1>9 DEF SshApprovals!Grant

\* A certificate uses a window that is open, within its scope.
LEMMA IssueUses ==
    ASSUME NEW g, SoundWith(g), NEW t \in Time, NEW host \in Hosts, NEW key \in Keys,
           NEW forceFresh \in BOOLEAN, SshIssue(Ticked(g, t), host, key, forceFresh),
           ~OnlyTicked(Ticked(g, t))
    PROVE  SshApprovals!Use
<1> DEFINE s == Ticked(g, t)
<1>1. /\ s.windows \subseteq windows /\ s.pending \in {None, pending}
      /\ AskedIn(s.events) = Requested /\ Ready(s)
  BY TickLapses, TickIsSound
<1>2. PICK w \in s.windows : Fresh(s, w)
  BY DEF SshIssue, Candidates
<1> HIDE DEF s
<1> DEFINE cert == [serial |-> nextId, validAfter |-> s.now,
                    validBefore |-> Expiry(s.now, w)]
           v0 == [w EXCEPT !.last = cert]
           c0 == [window |-> w.id, host |-> w.scope.host, key |-> w.scope.key,
                  cert |-> cert]
           line == [kind |-> "issued", id |-> w.id, serial |-> cert.serial,
                    host |-> w.scope.host, validBefore |-> cert.validBefore,
                    at |-> s.now]
           u == SshUse(c0)
<1>3. /\ pending' = s.pending /\ windows' = (s.windows \ {w}) \cup {v0}
      /\ events' = s.events \cup {line} /\ certs' = certs \cup {c0}
  BY <1>2 DEF Fresh
<1>4. w \in Windows /\ s.now \in Nat /\ w.scope.endsAt \in Nat
  BY <1>1, <1>2 DEF Ready, Sound, Typed, Windows, Scopes
<1>5. v0.id = w.id /\ v0.scope = w.scope
  BY <1>4 DEF Windows
<1>6. line.kind # "requested"
  OBVIOUS
<1>7. /\ u.id = w.id
      /\ u.act.host = w.scope.host /\ u.act.key = w.scope.key
      /\ u.act.until = Expiry(s.now, w)
  BY DEF SshUse
<1>8. Expiry(s.now, w) <= w.scope.endsAt
  BY <1>4, GrantsAssumption DEF Expiry, Earlier
<1>9. SshCovers(w.scope, u.act)
  BY <1>7, <1>8 DEF SshCovers
<1>10. SshUses' = SshUses \cup {u}
  BY <1>3 DEF SshUses
<1> HIDE DEF cert, v0, c0, line, u
<1>11. SshQuestion(w) \in SshGranted
  BY <1>1, <1>2 DEF SshGranted
<1>12. SshGranted' \subseteq SshGranted
  BY <1>1, <1>2, <1>3, <1>5 DEF SshGranted, SshQuestion
<1>13. SshOpen' \subseteq SshOpen
  BY <1>1, <1>3 DEF SshOpen, SshQuestion
<1>14. SshPast' = SshPast
  BY <1>1, <1>3, <1>6 DEF SshPast, Requested, AskedIn
<1>15. SshQuestion(w).id = w.id /\ SshQuestion(w).scope = w.scope
  BY DEF SshQuestion
<1> HIDE DEF SshQuestion
<1> QED  BY <1>7, <1>9, <1>10, <1>11, <1>12, <1>13, <1>14, <1>15
          DEF SshApprovals!Use, SshOnce

\* A tick and a decline take away at most.
LEMMA QuietLapses ==
    ASSUME NEW g, NEW t \in Time,
           SshTick(Ticked(g, t)) \/ \E id : SshDecline(Ticked(g, t), id)
    PROVE  SshApprovals!Lapse
<1> DEFINE s == Ticked(g, t)
<1>1. /\ s.windows \subseteq windows /\ s.pending \in {None, pending}
      /\ AskedIn(s.events) = Requested
  BY TickLapses
<1>2. OnlyTicked(s) \/ \E id : SshDecline(s, id)
  BY DEF SshTick
<1> HIDE DEF s
<1>3. CASE OnlyTicked(s)
  BY <1>1, <1>3, LapseStep DEF OnlyTicked, Requested, AskedIn
<1>4. CASE ~OnlyTicked(s) /\ \E id : SshDecline(s, id)
  <2>1. /\ windows' = s.windows /\ pending' = None /\ certs' = certs
        /\ \E host, id : events' = s.events \cup {Line("declined", id, host, s.now)}
    BY <1>4 DEF SshDecline
  <2>2. Requested' = Requested
    BY <1>1, <2>1 DEF Requested, AskedIn, Line
  <2> QED  BY <1>1, <2>1, <2>2, LapseStep
<1> QED  BY <1>2, <1>3, <1>4

\* Every call is a step of Approvals, with a gate that another may have moved.
LEMMA ActIsAnApproval ==
    ASSUME NEW g, SoundWith(g), NEW t \in Time, SshActs(Ticked(g, t))
    PROVE  SshApprovals!Next
<1> DEFINE s == Ticked(g, t)
<1>1. /\ s.windows \subseteq windows /\ s.pending \in {None, pending}
      /\ AskedIn(s.events) = Requested
  BY TickLapses
<1>2. CASE SshTick(s) \/ \E id : SshDecline(s, id)
  BY <1>2, QuietLapses DEF SshApprovals!Next
<1>3. CASE OnlyTicked(s)
  BY <1>2, <1>3 DEF SshTick
<1>4. CASE \E h \in Hosts, k \in Keys, d \in Wanted : SshRequest(s, h, k, d)
  BY <1>3, <1>4, RequestAsks DEF SshApprovals!Next
<1>5. CASE \E id, nonce, scope : SshApprove(s, id, nonce, scope)
  BY <1>3, <1>5, ApproveGrants DEF SshApprovals!Next
<1>6. CASE \E h \in Hosts, k \in Keys, f \in BOOLEAN : SshIssue(s, h, k, f)
  BY <1>3, <1>6, IssueUses DEF SshApprovals!Next
<1>7. CASE \E h \in Hosts : SshKill(s, h)
  <2> HIDE DEF s
  <2>1. PICK h \in Hosts : SshKill(s, h)
    BY <1>7
  <2>2. /\ windows' \subseteq s.windows /\ pending' \in {None, s.pending} /\ certs' = certs
        /\ \A e \in events' : e \in s.events \/ e.kind # "requested"
        /\ s.events \subseteq events'
    BY <2>1 DEF SshKill, Line
  <2>3. Requested' = Requested
    BY <1>1, <2>2 DEF Requested, AskedIn
  <2> QED  BY <1>1, <2>2, <2>3, LapseStep DEF SshApprovals!Next
<1>8. SshActs(s)
  OBVIOUS
<1> HIDE DEF s
<1> QED  BY <1>2, <1>4, <1>5, <1>6, <1>7, <1>8, Zenon DEF SshActs

\* Every step of Grants is one of Approvals, or changes nothing in it.
LEMMA StepIsAnApproval ==
    GInv /\ [GrantsNext]_grantsVars => [SshApprovals!Next]_(SshApprovals!vars)
<1> SUFFICES ASSUME GInv, [GrantsNext]_grantsVars
             PROVE  [SshApprovals!Next]_(SshApprovals!vars)
  OBVIOUS
<1>1. CASE UNCHANGED grantsVars
  BY <1>1, LapseStep DEF grantsVars, sshVars, Requested, SshApprovals!Next
<1>2. CASE GrantsNext
  <2>1. PICK t \in Time : SshActs(Ticked(gate, t))
    BY <1>2, Zenon DEF GrantsNext, Readings, SshActs
  <2>2. SoundWith(gate)
    BY DEF GInv, IInv
  <2> QED  BY <2>1, <2>2, ActIsAnApproval
<1> QED  BY <1>1, <1>2

\* Grants implements Approvals, for every policy, set of hosts and keys, and
\* clock: no window but for what waited, no certificate but in an open window.
THEOREM GrantsAreApprovals == GrantsSpec => SshIsAnApproval
<1>1. GrantsInit => SshApprovals!Init
  BY DEF GrantsInit, SshApprovals!Init, SshPast, SshOpen, SshGranted, SshUses, Requested
<1> QED
  BY <1>1, StepIsAnApproval, GrantsSound, PTL
  DEF GrantsSpec, SshIsAnApproval, SshApprovals!Spec
============================================================================
