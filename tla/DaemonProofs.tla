--------------------------- MODULE DaemonProofs ---------------------------
(***************************************************************************)
(* What holds of the daemon, for every policy, host, project and clock, at *)
(* any number of crashes, of writes that fail and of torn lines.           *)
(*                                                                         *)
(* Grants and Jobs each keep their own invariant of a gate that the other  *)
(* one moves: SoundWith and Good speak of the part of the slot that is     *)
(* theirs (HoldOf), and each of them leaves the other's part alone (Lends, *)
(* Served).  What is added here is that the two parts are one slot, that   *)
(* the ids are of one counter, and what is on disk.                        *)
(***************************************************************************)
EXTENDS Daemon, GrantsProofs, JobsProofs, FiniteSetTheorems

AskedJobs == {l \in jobEvents : l.kind = "requested"}
IssuedStand(es) ==
    \A l \in es : l.kind = "issued" => \E a \in es : a.kind = "approved" /\ a.id = l.id

\* What Grants and Jobs hold of the memory they share.
Shared ==
    /\ SoundWith(gate)
    /\ JobsInv
    /\ OneHolder(gate)
    /\ nextId # 0
    /\ \A k, l \in AskedIn(events) \cup AskedJobs : k.id = l.id => k = l
    /\ \A r \in AskedIn(events), e \in entries : r.id # e.id
    /\ IssuedStand(events)

\* A job's state after a method, with the gate still to be moved on.
HeldParts ==
    /\ Held.now = jobsHighWater /\ Held.entries = entries
    /\ Held.gate = gate /\ Held.events = jobEvents
LEMMA HeldIs == HeldParts
BY DEF Held, HeldParts

----------------------------------------------------------------------------
(* The gate moves under one of the two, and the counter.                   *)

LEMMA SoundParts ==
    ASSUME NEW g, SoundWith(g)
    PROVE  /\ g \in Gates /\ nextId \in Nat /\ highWater \in Nat
           /\ events \subseteq Lines /\ pending \in Requests \cup {None}
           /\ \A r \in AskedIn(events) : r.id \in Nat /\ r.id < nextId
<1>1. \A l \in Lines : l.id \in Nat
  BY DEF Lines
<1> QED  BY <1>1 DEF SoundWith, Sound, Typed, Replied, AskedIn

LEMMA SoundLent ==
    ASSUME NEW g, NEW h, SoundWith(g), h \in Gates, Lends("ssh", g, h)
    PROVE  SoundWith(h)
BY DEF SoundWith, Sound, Typed, Slotted, Lends

\* Jobs moved the gate, and may have taken an id.
LEMMA SoundShifts ==
    ASSUME SoundWith(gate), SshKeeps, gate' \in Gates, Lends("ssh", gate, gate'),
           nextId' \in Nat, nextId <= nextId'
    PROVE  IInv'
<1>1. UNCHANGED <<highWater, pending, windows, events, signed, certs>>
  BY DEF SshKeeps, sshVars
<1>2. Typed(highWater, pending, windows, gate, events)' /\ Slotted(pending, gate)'
  BY <1>1 DEF SoundWith, Sound, Typed, Slotted, Lends
<1>3. Dated(highWater, pending, events)' /\ Standing(windows, events)'
  BY <1>1 DEF SoundWith, Sound, Dated, Standing, AskedIn, AnswersIn, KilledIn
<1>4. Replied(pending, events)'
  <2>1. \A r \in AskedIn(events) : r.id < nextId'
    BY SoundParts
  <2>2. Replied(pending, events)
    BY DEF SoundWith, Sound
  <2> QED  BY <1>1, <2>1, <2>2 DEF Replied, AskedIn, AnswersIn
<1>5. Certified(highWater, events)'
  <2>1. Certified(highWater, events) /\ nextId \in Nat
        /\ certs \subseteq [window: Nat, host: Hosts, key: Keys, cert: LastIssued]
    BY DEF SoundWith, Sound, Typed
  <2>2. \A c \in certs : c.cert.serial < nextId'
    <3> TAKE c \in certs
    <3>1. c.cert.serial \in Nat
      BY <2>1, CertFields
    <3>2. c.cert.serial < nextId
      BY <2>1 DEF Certified
    <3> QED  BY <2>1, <3>1, <3>2
  <2> QED  BY <1>1, <2>1, <2>2 DEF Certified, AskedIn, KilledIn
<1> QED  BY <1>2, <1>3, <1>4, <1>5 DEF IInv, SoundWith, Sound

LEMMA GoodLater ==
    ASSUME NEW j, NEW n, NEW cs, Good(j, n, cs), NEW m \in Nat, n <= m
    PROVE  Good(j, m, cs)
<1>1. n \in Nat /\ cs \subseteq ClaimSet /\ j.events \subseteq JobLines
      /\ \A e \in j.entries : e.id \in Nat
  BY GoodParts
<1>2. \A l \in j.events : l.id \in Nat
  BY <1>1 DEF JobLines
<1>3. \A c \in cs : c.id \in Nat
  BY <1>1 DEF ClaimSet
<1>4. JTyped(j, m, cs) /\ JSlotted(j)
  BY DEF Good, JTyped
<1>5. OneEach(j, m)
  BY <1>1 DEF Good, OneEach
<1>6. Told(j, m)
  BY <1>1, <1>2 DEF Good, Told
<1>7. HandedOut(j, m, cs)
  <2>1. \A c \in cs : c.id < m
    BY <1>1, <1>3 DEF Good, HandedOut
  <2> QED  BY <2>1 DEF Good, HandedOut
<1> QED  BY <1>4, <1>5, <1>6, <1>7 DEF Good

\* Grants moved the gate that Jobs left as k, and may have taken an id.
LEMMA GoodShifts ==
    ASSUME NEW k, Good(k, nextId, claims), JobsLeft(k), Lends("job", k.gate, gate'),
           gate' \in Gates, nextId' \in Nat, nextId <= nextId',
           trusted \in [Projects -> Revisions \cup {None}]
    PROVE  JobsInv'
<1>1. k \in JobRecords
  BY GoodParts
<1>2. /\ Held'.now = k.now /\ Held'.entries = k.entries
      /\ Held'.gate = gate' /\ Held'.events = k.events
      /\ trusted' = trusted /\ claims' = claims
  BY DEF Held, JobsLeft
<1>3. Held' \in JobRecords
  BY <1>1, <1>2 DEF Held, JobRecords
<1>4. Good(Held', nextId, claims)
  BY <1>2, <1>3, SameGood DEF Lends
<1>5. Good(Held', nextId', claims')
  BY <1>2, <1>4, GoodLater
<1> QED  BY <1>2, <1>5 DEF JobsInv

----------------------------------------------------------------------------
(* What a method records, and whether it takes an id.                      *)

\* The lines of a request that ended without anybody approving it.
Ends == {"timed_out", "declined", "killed"}
OnlyNew(kinds) == \A l \in events' : l \in events \/ l.kind \in kinds

LEMMA TickLines ==
    ASSUME NEW g, NEW t
    PROVE  /\ events \subseteq Ticked(g, t).events
           /\ \A l \in Ticked(g, t).events : l \in events \/ l.kind = "timed_out"
<1>1. Ticked(g, t).events = events \cup TimeoutLines(Clamped(t))
  BY DEF Ticked
<1>2. \A l \in TimeoutLines(Clamped(t)) : l.kind = "timed_out"
  BY DEF TimeoutLines, Line
<1> QED  BY <1>1, <1>2

\* pending(), decline, kill and what else only ticks: no id, no approval.
LEMMA EndsOnly ==
    ASSUME NEW g, NEW t,
           \/ OnlyTicked(Ticked(g, t))
           \/ \E id : SshDecline(Ticked(g, t), id)
           \/ \E h \in Hosts : SshKill(Ticked(g, t), h)
    PROVE  events \subseteq events' /\ OnlyNew(Ends) /\ nextId' = nextId
<1> DEFINE s == Ticked(g, t)
<1>1. /\ events \subseteq s.events
      /\ \A l \in s.events : l \in events \/ l.kind = "timed_out"
  BY TickLines
<1> HIDE DEF s
<1>2. CASE OnlyTicked(s)
  BY <1>1, <1>2 DEF OnlyTicked, OnlyNew, Ends
<1>3. ASSUME NEW id, SshDecline(s, id), ~OnlyTicked(s)
      PROVE  events \subseteq events' /\ OnlyNew(Ends) /\ nextId' = nextId
  BY <1>1, <1>3 DEF SshDecline, OnlyNew, Ends, Line
<1>4. ASSUME NEW h \in Hosts, SshKill(s, h)
      PROVE  events \subseteq events' /\ OnlyNew(Ends) /\ nextId' = nextId
  <2> DEFINE closed == {w \in s.windows : w.scope.host = h}
             killed == {Line("killed", w.id, h, s.now) : w \in closed}
             stopped == IF StopsPending(s, h)
                        THEN {Line("declined", s.pending.id, h, s.now)} ELSE {}
  <2>1. events' = s.events \cup killed \cup stopped /\ nextId' = nextId
    BY <1>4, Zenon DEF SshKill
  <2>2. \A l \in killed \cup stopped : l.kind \in Ends
    BY DEF Line, Ends
  <2> HIDE DEF killed, stopped
  <2> QED  BY <1>1, <2>1, <2>2 DEF OnlyNew, Ends
<1> QED  BY <1>2, <1>3, <1>4 DEF s

LEMMA TickEnds ==
    ASSUME NEW g, NEW t, OnlyTicked(Ticked(g, t))
    PROVE  \A l \in events' : l \in events \/ l.kind = "timed_out"
BY TickLines DEF OnlyTicked

\* A request takes an id and asks for itself under it; a certificate takes one
\* for its serial; nothing else takes any.
Numbered ==
    \/ nextId' = nextId /\ AskedIn(events') = AskedIn(events)
    \/ nextId' = nextId + 1 /\ AskedIn(events') = AskedIn(events)
    \/ /\ nextId' = nextId + 1
       /\ \E l : l.id = nextId /\ AskedIn(events') = AskedIn(events) \cup {l}

LEMMA ActRecords ==
    ASSUME NEW g, SoundWith(g), NEW t \in Time, SshActs(Ticked(g, t))
    PROVE  /\ events \subseteq events'
           /\ Numbered
           /\ IssuedStand(events) => IssuedStand(events')
<1> DEFINE s == Ticked(g, t)
<1>1. /\ events \subseteq s.events
      /\ \A l \in s.events : l \in events \/ l.kind = "timed_out"
  BY TickLines
<1>2. Standing(s.windows, s.events)
  BY TickIsSound DEF Ready, Sound
<1>3. SshActs(s)
  OBVIOUS
<1>4. ASSUME events \subseteq events', OnlyNew(Ends), nextId' = nextId
      PROVE  Numbered /\ (IssuedStand(events) => IssuedStand(events'))
  <2>1. AskedIn(events') = AskedIn(events)
    BY <1>4 DEF AskedIn, OnlyNew, Ends
  <2>2. IssuedStand(events) => IssuedStand(events')
    BY <1>4 DEF IssuedStand, OnlyNew, Ends
  <2> QED  BY <1>4, <2>1, <2>2 DEF Numbered
<1> HIDE DEF s
<1>5. ASSUME NEW h \in Hosts, NEW k \in Keys, NEW d \in Wanted,
             SshRequest(s, h, k, d), ~OnlyTicked(s)
      PROVE  /\ events \subseteq events'
             /\ Numbered
             /\ IssuedStand(events) => IssuedStand(events')
  <2> DEFINE l == Line("requested", nextId, h, s.now)
  <2>1. nextId' = nextId + 1 /\ events' = s.events \cup {l}
    BY <1>5 DEF SshRequest, AllocateId
  <2>2. l.kind = "requested" /\ l.id = nextId
    BY DEF Line
  <2> HIDE DEF l
  <2>3. AskedIn(events') = AskedIn(events) \cup {l}
    BY <1>1, <2>1, <2>2 DEF AskedIn
  <2>4. IssuedStand(events) => IssuedStand(events')
    BY <1>1, <2>1, <2>2 DEF IssuedStand
  <2> QED  BY <1>1, <2>1, <2>2, <2>3, <2>4 DEF Numbered
<1>6. ASSUME NEW id, NEW nonce, NEW scope, SshApprove(s, id, nonce, scope), ~OnlyTicked(s)
      PROVE  /\ events \subseteq events'
             /\ Numbered
             /\ IssuedStand(events) => IssuedStand(events')
  <2> DEFINE l == [kind |-> "approved", id |-> id, host |-> s.pending.scope.host,
                   endsAt |-> s.pending.scope.endsAt, at |-> s.now]
  <2>1. nextId' = nextId /\ events' = s.events \cup {l}
    BY <1>6, Zenon DEF SshApprove
  <2>2. l.kind = "approved"
    OBVIOUS
  <2> HIDE DEF l
  <2>3. AskedIn(events') = AskedIn(events)
    BY <1>1, <2>1, <2>2 DEF AskedIn
  <2>4. IssuedStand(events) => IssuedStand(events')
    BY <1>1, <2>1, <2>2 DEF IssuedStand
  <2> QED  BY <1>1, <2>1, <2>3, <2>4 DEF Numbered
<1>7. ASSUME NEW h \in Hosts, NEW k \in Keys, NEW f \in BOOLEAN,
             SshIssue(s, h, k, f), ~OnlyTicked(s)
      PROVE  /\ events \subseteq events'
             /\ Numbered
             /\ IssuedStand(events) => IssuedStand(events')
  <2>1. PICK w \in s.windows : Fresh(s, w)
    BY <1>7, Zenon DEF SshIssue, Candidates
  <2> DEFINE l == [kind |-> "issued", id |-> w.id, serial |-> nextId,
                   host |-> w.scope.host, validBefore |-> Expiry(s.now, w), at |-> s.now]
  <2>2. nextId' = nextId + 1 /\ events' = s.events \cup {l}
    BY <2>1 DEF Fresh, AllocateId
  <2>3. l.kind = "issued" /\ l.id = w.id
    OBVIOUS
  <2> HIDE DEF l
  <2>4. AskedIn(events') = AskedIn(events)
    BY <1>1, <2>2, <2>3 DEF AskedIn
  <2>5. \E a \in s.events : a.kind = "approved" /\ a.id = w.id
    BY <1>2 DEF Standing, AnswersIn
  <2>6. IssuedStand(events) => IssuedStand(events')
    BY <1>1, <2>2, <2>3, <2>5 DEF IssuedStand
  <2> QED  BY <1>1, <2>2, <2>4, <2>6 DEF Numbered
<1>8. CASE OnlyTicked(s)
  BY <1>4, <1>8, EndsOnly DEF s
<1>9. CASE (\E id : SshDecline(s, id)) \/ \E h \in Hosts : SshKill(s, h)
  BY <1>4, <1>9, EndsOnly DEF s
<1> QED  BY <1>3, <1>5, <1>6, <1>7, <1>8, <1>9, Zenon DEF SshActs, SshTick

\* A job takes an id and is asked for under it, or no id is taken.
Filed ==
    \/ /\ nextId' = nextId /\ AskedJobs' = AskedJobs
       /\ \A f \in entries' : \E e \in entries : e.id = f.id
    \/ /\ nextId' = nextId + 1
       /\ \E l : l.id = nextId /\ AskedJobs' = AskedJobs \cup {l}
       /\ \A f \in entries' : f.id = nextId \/ \E e \in entries : e.id = f.id

\* Jobs::request, after the tick of file_job.
LEMMA RequestFiles ==
    ASSUME NEW j, NEW n, NEW cs, Good(j, n, cs), Continues(entries, j.entries),
           jobEvents \subseteq j.events,
           \A l \in j.events : l \in jobEvents \/ l.kind \in OutcomeLines,
           NEW project, NEW kind, JobRequest(j, project, kind)
    PROVE  Filed
<1> DEFINE p == Pruned(j)
           g == GateTicked(p.gate, p.now)
           job == [id |-> nextId, project |-> project, kind |-> kind,
                   state |-> "queued", result |-> None, scope |-> None,
                   created |-> p.now, planAt |-> None, claimedAt |-> None,
                   doneAt |-> None]
           line == JobLine("requested", job, p.now)
           h == Admitted(g, p.now, <<"job", nextId>>)
<1>1. \/ /\ Leaves([p EXCEPT !.entries = @ \cup {job}, !.gate = h, !.events = @ \cup {line}])
         /\ nextId' = nextId + 1
      \/ Leaves([p EXCEPT !.gate = g]) /\ nextId' = nextId
      \/ Leaves(p) /\ nextId' = nextId
  BY Zenon DEF JobRequest, AllocateId, JobsQuiet
<1>2. Good(p, n, cs) /\ p.events = j.events /\ Continues(entries, p.entries)
  BY PrunedGood, ContinuesOn
<1>3. job.id = nextId /\ line.id = nextId /\ line.kind = "requested"
  BY DEF JobLine
<1> HIDE DEF p, job, line, g, h
<1>4. p \in JobRecords
  BY <1>2, GoodParts
<1>5. {l \in p.events : l.kind = "requested"} = AskedJobs
  BY <1>2 DEF AskedJobs, OutcomeLines
<1>6. \A f \in p.entries : \E e \in entries : e.id = f.id
  BY <1>2 DEF Continues
<1>7. ASSUME Leaves([p EXCEPT !.entries = @ \cup {job}, !.gate = h, !.events = @ \cup {line}]),
             nextId' = nextId + 1
      PROVE  Filed
  <2>1. entries' = p.entries \cup {job} /\ jobEvents' = p.events \cup {line}
    BY <1>4, <1>7 DEF Leaves, JobRecords
  <2>2. AskedJobs' = AskedJobs \cup {line}
    BY <1>3, <1>5, <2>1 DEF AskedJobs
  <2> QED  BY <1>3, <1>6, <1>7, <2>1, <2>2 DEF Filed
<1>8. ASSUME Leaves([p EXCEPT !.gate = g]) \/ Leaves(p), nextId' = nextId
      PROVE  Filed
  <2>1. entries' = p.entries /\ jobEvents' = p.events
    BY <1>4, <1>8 DEF Leaves, JobRecords
  <2>2. AskedJobs' = AskedJobs
    BY <1>5, <2>1 DEF AskedJobs
  <2> QED  BY <1>6, <1>8, <2>1, <2>2 DEF Filed
<1> QED  BY <1>1, <1>7, <1>8

----------------------------------------------------------------------------
(* The memory the two share, step by step.                                 *)

\* What the parts of Shared say of ids.
LEMMA SharedIds ==
    ASSUME Shared
    PROVE  /\ nextId \in Nat \ {0} /\ gate \in Gates
           /\ \A r \in AskedIn(events) : r.id \in Nat /\ r.id < nextId
           /\ \A l \in AskedJobs : l.id \in Nat /\ l.id < nextId
           /\ \A e \in entries : e.id \in Nat /\ e.id < nextId
           /\ trusted \in [Projects -> Revisions \cup {None}]
           /\ Good(Held, nextId, claims)
<1>1. Good(Held, nextId, claims) /\ HeldParts
  BY HeldIs DEF Shared, JobsInv
<1>2. \A l \in jobEvents : l.id \in Nat /\ l.id < nextId
  <2>1. jobEvents \subseteq JobLines
    BY <1>1, GoodParts DEF HeldParts
  <2>2. Told(Held, nextId)
    BY <1>1 DEF Good
  <2> QED  BY <1>1, <2>1, <2>2 DEF Told, HeldParts, JobLines
<1>3. \A e \in entries : e.id \in Nat /\ e.id < nextId
  BY <1>1, GoodParts DEF Good, OneEach, HeldParts
<1> QED  BY <1>1, <1>2, <1>3, SoundParts DEF Shared, AskedJobs, JobsInv

\* A method of Jobs, under the lock.
LEMMA JobsStep ==
    ASSUME Shared, SshKeeps, JobsInv', Lends("ssh", gate, gate'), Filed
    PROVE  Shared'
<1>1. UNCHANGED events /\ nextId' \in Nat /\ nextId <= nextId' /\ nextId' # 0
  BY SharedIds DEF SshKeeps, sshVars, Filed
<1>2. gate' \in Gates
  <2>1. Held'.gate = gate'
    BY DEF Held
  <2>2. Good(Held', nextId', claims')
    BY DEF JobsInv
  <2> QED  BY <2>1, <2>2, GoodParts
<1>3. IInv'
  BY <1>1, <1>2, SoundShifts DEF Shared
<1>4. OneHolder(gate')
  BY DEF Shared, Lends
<1>5. \A k, l \in AskedIn(events') \cup AskedJobs' : k.id = l.id => k = l
  <2>1. \A k, l \in AskedIn(events) \cup AskedJobs : k.id = l.id => k = l
    BY DEF Shared
  <2>2. \A k \in AskedIn(events) \cup AskedJobs : k.id # nextId
    BY SharedIds
  <2>3. \/ AskedJobs' = AskedJobs
        \/ \E l : l.id = nextId /\ AskedJobs' = AskedJobs \cup {l}
    BY DEF Filed
  <2> QED  BY <1>1, <2>1, <2>2, <2>3
<1>6. \A r \in AskedIn(events'), e \in entries' : r.id # e.id
  <2>1. \A r \in AskedIn(events), e \in entries : r.id # e.id
    BY DEF Shared
  <2>2. \A r \in AskedIn(events) : r.id # nextId
    BY SharedIds
  <2>3. \A f \in entries' : f.id = nextId \/ \E e \in entries : e.id = f.id
    BY DEF Filed
  <2> QED  BY <1>1, <2>1, <2>2, <2>3
<1>7. IssuedStand(events')
  BY <1>1 DEF Shared
<1> QED  BY <1>1, <1>3, <1>4, <1>5, <1>6, <1>7 DEF Shared, IInv

\* A method of Grants, on the gate that a tick of Jobs left as k.
LEMMA SshStep ==
    ASSUME Shared, NEW t \in Time, NEW k, Good(k, nextId, claims), JobsLeft(k),
           Continues(entries, k.entries), Serving(Held, k, OutcomeLines),
           SshActs(Ticked(k.gate, t))
    PROVE  Shared' /\ events \subseteq events' /\ jobEvents \subseteq jobEvents'
<1>1. /\ k.gate \in Gates /\ Lends("ssh", gate, k.gate) /\ jobEvents \subseteq k.events
      /\ \A l \in k.events : l \in jobEvents \/ l.kind \in OutcomeLines
  BY GoodParts, HeldIs DEF Serving, HeldParts
<1>2. SoundWith(k.gate)
  BY <1>1, SoundLent DEF Shared
<1>3. /\ IInv' /\ Lends("job", k.gate, gate') /\ events \subseteq events' /\ Numbered
      /\ IssuedStand(events) => IssuedStand(events')
  BY <1>2, ActIsSound, ActLends, ActRecords
<1>4. gate' \in Gates /\ nextId' \in Nat /\ nextId <= nextId' /\ nextId' # 0
  <2>1. gate' \in Gates
    BY <1>3 DEF IInv, SoundWith, Sound, Typed
  <2> QED  BY <1>3, <2>1, SharedIds DEF Numbered
<1>5. JobsInv'
  BY <1>3, <1>4, GoodShifts, SharedIds
<1>6. OneHolder(gate')
  BY <1>1, <1>3 DEF Shared, Lends
<1>7. /\ entries' = k.entries /\ jobEvents' = k.events
      /\ \A f \in entries' : \E e \in entries : e.id = f.id
  BY DEF JobsLeft, Continues
<1>8. AskedJobs' = AskedJobs
  BY <1>1, <1>7 DEF AskedJobs, OutcomeLines
<1>9. \/ AskedIn(events') = AskedIn(events)
      \/ \E l : l.id = nextId /\ AskedIn(events') = AskedIn(events) \cup {l}
  BY <1>3 DEF Numbered
<1>10. \A a, b \in AskedIn(events') \cup AskedJobs' : a.id = b.id => a = b
  <2>1. \A a, b \in AskedIn(events) \cup AskedJobs : a.id = b.id => a = b
    BY DEF Shared
  <2>2. \A a \in AskedIn(events) \cup AskedJobs : a.id # nextId
    BY SharedIds
  <2> QED  BY <1>8, <1>9, <2>1, <2>2
<1>11. \A r \in AskedIn(events'), e \in entries' : r.id # e.id
  <2>1. \A r \in AskedIn(events), e \in entries : r.id # e.id
    BY DEF Shared
  <2>2. \A e \in entries : e.id # nextId
    BY SharedIds
  <2> QED  BY <1>7, <1>9, <2>1, <2>2
<1> QED
  BY <1>1, <1>3, <1>4, <1>5, <1>6, <1>7, <1>10, <1>11 DEF Shared, IInv

\* Neither moves.
LEMMA SameStep ==
    ASSUME Shared, UNCHANGED <<gate, nextId>>, SshKeeps, JobsKeep
    PROVE  Shared'
<1>1. UNCHANGED <<gate, nextId, jobsHighWater, entries, trusted, jobEvents, claims>>
  BY DEF JobsKeep, jobVars
<1>2. Held' = Held
  BY <1>1 DEF Held
<1>3. JobsInv'
  BY <1>1, <1>2 DEF Shared, JobsInv
<1>4. Filed
  BY <1>1 DEF Filed, AskedJobs
<1>5. Lends("ssh", gate, gate')
  BY <1>1 DEF Lends
<1> QED  BY <1>3, <1>4, <1>5, JobsStep

\* What Jobs starts from in a call, before its tick and after it.
LEMMA StartsGood ==
    ASSUME Shared, NEW t \in Time
    PROVE  LET j == JobsAt(gate, t)
               k == JobsTicked(j)
           IN  /\ j.gate = gate /\ j.entries = entries
               /\ Good(j, nextId, claims) /\ Continues(entries, j.entries)
               /\ Serving(Held, j, OutcomeLines)
               /\ Good(k, nextId, claims) /\ Continues(entries, k.entries)
               /\ Serving(Held, k, OutcomeLines)
               /\ k.now = j.now
<1> DEFINE j == JobsAt(gate, t)
           k == JobsTicked(j)
<1>1. t \in Nat
  BY GateAssumption
<1>2. Good(j, nextId, claims) /\ j.entries = entries
  BY <1>1, ReadingGood DEF Shared
<1>3. j.gate = gate /\ j.events = jobEvents
  BY DEF JobsAt
<1> HIDE DEF j
<1>4. Continues(entries, j.entries)
  BY <1>2 DEF Continues
<1>5. Serving(Held, j, OutcomeLines)
  BY <1>3, HeldIs DEF HeldParts, Serving, Lends
<1>6. /\ Good(k, nextId, claims) /\ Continues(j.entries, k.entries) /\ k.now = j.now
      /\ Serving(j, k, OutcomeLines)
  BY <1>2, TickedGood, TickedServes
<1> HIDE DEF k
<1>7. Serving(Held, k, OutcomeLines)
  BY <1>5, <1>6, ServingOn
<1> QED  BY <1>2, <1>3, <1>4, <1>5, <1>6, <1>7 DEF k, j

\* A call of Grants alone, and the badge at the end of each call, which clamps
\* the jobs' clock as well.
LEMMA GrantsOnly ==
    ASSUME Shared, NEW t \in Time, JobsKeep, SshActs(Ticked(gate, t))
    PROVE  Shared' /\ events \subseteq events' /\ jobEvents' = jobEvents /\ claims' = claims
<1>1. HeldParts
  BY HeldIs
<1>2. JobsLeft(Held) /\ jobEvents' = jobEvents /\ claims' = claims
  BY <1>1, Zenon DEF HeldParts, JobsLeft, JobsKeep, jobVars
<1>3. Good(Held, nextId, claims) /\ Continues(entries, Held.entries)
  BY <1>1, SharedIds DEF HeldParts, Continues
<1>4. Serving(Held, Held, OutcomeLines)
  BY SameServes
<1>5. SshActs(Ticked(Held.gate, t))
  BY <1>1 DEF HeldParts
<1> QED  BY <1>2, <1>3, <1>4, <1>5, SshStep
LEMMA BadgeStep ==
    ASSUME Shared, NEW t \in Time, SshTick(Ticked(gate, t)),
           jobsHighWater' = Later(t, jobsHighWater),
           UNCHANGED <<entries, trusted, jobEvents, claims>>
    PROVE  Shared' /\ events \subseteq events' /\ nextId' = nextId
<1> DEFINE j == JobsAt(gate, t)
<1>1. /\ j.now = Later(t, jobsHighWater) /\ j.gate = gate /\ j.entries = entries
      /\ j.events = jobEvents
  BY DEF JobsAt
<1>2. /\ Good(j, nextId, claims) /\ Continues(entries, j.entries)
      /\ Serving(Held, j, OutcomeLines)
  BY StartsGood
<1> HIDE DEF j
<1>3. JobsLeft(j)
  BY <1>1 DEF JobsLeft
<1>4. SshActs(Ticked(j.gate, t))
  BY <1>1 DEF SshActs
<1>5. nextId' = nextId
  BY DEF SshTick, OnlyTicked
<1> QED  BY <1>2, <1>3, <1>4, <1>5, SshStep

\* A method of Jobs that files nothing, from where a call starts it.
LEMMA JobsOnly ==
    ASSUME Shared, NEW j, Serving(Held, j, OutcomeLines), NEW kinds, Served(j, kinds),
           "requested" \notin kinds, SshKeeps, JobsInv', Continues(entries, entries'),
           nextId' = nextId
    PROVE  /\ Shared' /\ UNCHANGED events /\ jobEvents \subseteq jobEvents'
           /\ \A l \in jobEvents' : l \in jobEvents \/ l.kind \in kinds \cup OutcomeLines
<1>1. /\ Lends("ssh", gate, j.gate) /\ jobEvents \subseteq j.events
      /\ \A l \in j.events : l \in jobEvents \/ l.kind \in OutcomeLines
  BY HeldIs DEF Serving, HeldParts
<1>2. Lends("ssh", gate, gate')
  BY <1>1, LendsTwice DEF Served
<1>3. /\ jobEvents \subseteq jobEvents'
      /\ \A l \in jobEvents' : l \in jobEvents \/ l.kind \in kinds \cup OutcomeLines
  BY <1>1 DEF Served
<1>4. AskedJobs' = AskedJobs
  BY <1>3 DEF AskedJobs, OutcomeLines
<1>5. \A f \in entries' : \E e \in entries : e.id = f.id
  BY DEF Continues
<1>6. Filed
  BY <1>4, <1>5 DEF Filed
<1> QED  BY <1>2, <1>3, <1>6, JobsStep DEF SshKeeps, sshVars

----------------------------------------------------------------------------
(* The handlers.                                                           *)

CeremonyOK == ceremony = None \/ ceremony.kind \in {"ssh", "job"}

\* Nothing asked of a person, nothing granted and nothing handed out.
NoneGranted ==
    /\ \A l \in Recorded' \ Recorded : l.kind \notin {"approved", "issued", "requested"}
    /\ claims' \subseteq claims

\* What is shown of each handler: one that is not refused after a failed write
\* grants nothing.
Runs ==
    /\ Shared' /\ Recorded \subseteq Recorded' /\ CeremonyOK'
    /\ \/ Audited
       \/ With /\ NoneGranted

LEMMA GrantsNone ==
    ASSUME OnlyNew(Ends), claims' = claims,
           \A l \in jobEvents' : l \in jobEvents
                                 \/ l.kind \in OutcomeLines \cup {"started", "waiting"}
    PROVE  NoneGranted
BY DEF NoneGranted, Recorded, OnlyNew, Ends, OutcomeLines

\* A method that changes no more of what is recorded than its tick.
LEMMA JobsLeftLines ==
    ASSUME Shared, NEW k, Serving(Held, k, OutcomeLines), JobsLeft(k)
    PROVE  /\ claims' = claims
           /\ \A l \in jobEvents' : l \in jobEvents
                                    \/ l.kind \in OutcomeLines \cup {"started", "waiting"}
BY HeldIs DEF HeldParts, Serving, JobsLeft

LEMMA StatusRuns ==
    ASSUME Shared, CeremonyOK, NEW t \in Time, Status(t)
    PROVE  Runs
<1> DEFINE k == JobsTicked(JobsAt(gate, t))
<1>1. JobsLeft(k) /\ SshTick(Ticked(k.gate, t)) /\ With /\ UNCHANGED ceremony
  BY Zenon DEF Status
<1>2. /\ Good(k, nextId, claims) /\ Continues(entries, k.entries)
      /\ Serving(Held, k, OutcomeLines)
  BY StartsGood
<1> HIDE DEF k
<1>3. Shared' /\ events \subseteq events' /\ jobEvents \subseteq jobEvents'
  BY <1>1, <1>2, SshStep DEF SshActs
<1>4. OnlyNew(Ends)
  BY <1>1, EndsOnly DEF SshTick
<1>5. NoneGranted
  BY <1>1, <1>2, <1>4, JobsLeftLines, GrantsNone
<1> QED  BY <1>1, <1>3, <1>5 DEF Runs, CeremonyOK, Recorded

LEMMA ApproveStartRuns ==
    ASSUME Shared, CeremonyOK, NEW t \in Time, NEW id, ApproveStart(t, id)
    PROVE  Runs
<1> DEFINE k == JobsTicked(JobsAt(gate, t))
<1>1. JobsLeft(k) /\ SshTick(Ticked(k.gate, t)) /\ With
  BY Zenon DEF ApproveStart
<1>2. CeremonyOK'
  <2> DEFINE s == Ticked(k.gate, t)
             begun(kind, nonce, scope) ==
                [kind |-> kind, id |-> id, nonce |-> nonce, scope |-> scope, started |-> t]
  <2>1. \/ ceremony' = begun("ssh", s.pending.nonce, s.pending.scope)
        \/ \E e \in k.entries : ceremony' = begun("job", id, e.scope)
        \/ UNCHANGED ceremony
    BY Zenon DEF ApproveStart
  <2> HIDE DEF s, k
  <2> QED  BY <2>1 DEF CeremonyOK
<1>3. /\ Good(k, nextId, claims) /\ Continues(entries, k.entries)
      /\ Serving(Held, k, OutcomeLines)
  BY StartsGood
<1> HIDE DEF k
<1>4. Shared' /\ events \subseteq events' /\ jobEvents \subseteq jobEvents'
  BY <1>1, <1>3, SshStep DEF SshActs
<1>5. OnlyNew(Ends)
  BY <1>1, EndsOnly DEF SshTick
<1>6. NoneGranted
  BY <1>1, <1>3, <1>5, JobsLeftLines, GrantsNone
<1> QED  BY <1>1, <1>2, <1>4, <1>6 DEF Runs, Recorded

\* poll, kill of a host, request and issue, which only Grants runs.
LEMMA GrantsRun ==
    ASSUME Shared, CeremonyOK, NEW t \in Time, JobsKeep, CeremonyOK',
           \/ Audited /\ SshActs(Ticked(gate, t))
           \/ /\ With
              /\ SshTick(Ticked(gate, t)) \/ \E h \in Hosts : SshKill(Ticked(gate, t), h)
    PROVE  Runs
<1>1. SshActs(Ticked(gate, t))
  BY DEF SshActs
<1>2. Shared' /\ events \subseteq events' /\ jobEvents' = jobEvents /\ claims' = claims
  BY <1>1, GrantsOnly
<1>3. ASSUME SshTick(Ticked(gate, t)) \/ \E h \in Hosts : SshKill(Ticked(gate, t), h)
      PROVE  NoneGranted
  <2>1. OnlyNew(Ends)
    BY <1>3, EndsOnly DEF SshTick
  <2> QED  BY <1>2, <2>1, GrantsNone
<1>4. Recorded \subseteq Recorded'
  BY <1>2 DEF Recorded
<1> QED  BY <1>2, <1>3, <1>4, Zenon DEF Runs

LEMMA SshHandlersRun ==
    ASSUME Shared, CeremonyOK, NEW t \in Time,
           \/ PollRequest(t)
           \/ \E h \in Hosts, k \in Keys, d \in Wanted : Request(t, h, k, d)
           \/ \E h \in Hosts, k \in Keys, f \in BOOLEAN : Issue(t, h, k, f)
           \/ \E h \in Hosts : KillHost(t, h)
    PROVE  Runs
<1>1. CASE PollRequest(t)
  BY <1>1, GrantsRun DEF PollRequest, CeremonyOK
<1>2. ASSUME NEW h \in Hosts, NEW k \in Keys, NEW d \in Wanted, Request(t, h, k, d)
      PROVE  Runs
  <2>1. SshActs(Ticked(gate, t))
    BY <1>2 DEF Request, SshActs
  <2> QED  BY <1>2, <2>1, GrantsRun DEF Request, CeremonyOK
<1>3. ASSUME NEW h \in Hosts, NEW k \in Keys, NEW f \in BOOLEAN, Issue(t, h, k, f)
      PROVE  Runs
  <2>1. SshActs(Ticked(gate, t))
    BY <1>3 DEF Issue, SshActs
  <2> QED  BY <1>3, <2>1, GrantsRun DEF Issue, CeremonyOK
<1>4. ASSUME NEW h \in Hosts, KillHost(t, h)
      PROVE  Runs
  <2>1. SshKill(Ticked(gate, t), h) /\ JobsKeep /\ With
        /\ (ceremony' = None \/ ceremony' = ceremony)
    BY <1>4, Zenon DEF KillHost
  <2> QED  BY <2>1, GrantsRun DEF CeremonyOK
<1> QED  BY <1>1, <1>2, <1>3, <1>4

\* A call of Jobs that takes no id and hands nothing out.
LEMMA JobsRun ==
    ASSUME Shared, NEW j, Serving(Held, j, OutcomeLines),
           NEW kinds \in SUBSET {"started", "waiting", "approved"},
           Served(j, OutcomeLines \cup kinds), SshKeeps, JobsInv',
           Continues(entries, entries'), nextId' = nextId, CeremonyOK',
           \/ Audited
           \/ With /\ claims' = claims /\ "approved" \notin kinds
    PROVE  Runs
<1> DEFINE all == OutcomeLines \cup kinds
<1>1. "requested" \notin all
  BY DEF OutcomeLines
<1>2. /\ Shared' /\ UNCHANGED events /\ jobEvents \subseteq jobEvents'
      /\ \A l \in jobEvents' : l \in jobEvents \/ l.kind \in all \cup OutcomeLines
  BY <1>1, JobsOnly
<1>3. ASSUME claims' = claims, "approved" \notin kinds
      PROVE  NoneGranted
  <2>1. all \cup OutcomeLines \subseteq OutcomeLines \cup {"started", "waiting"}
    BY <1>3
  <2>2. OnlyNew(Ends)
    BY <1>2 DEF OnlyNew
  <2> QED  BY <1>2, <1>3, <2>1, <2>2, GrantsNone
<1>4. Recorded \subseteq Recorded'
  BY <1>2 DEF Recorded
<1> QED  BY <1>2, <1>3, <1>4, Zenon DEF Runs

\* job and the archive; and the calls of a runner, with the lines each may add.
LEMMA ShowRuns ==
    ASSUME Shared, CeremonyOK, NEW t \in Time, ShowJob(t) \/ PrecheckJob(t)
    PROVE  Runs
<1> DEFINE j == JobsAt(gate, t)
<1>1. JobTick(j) /\ SshKeeps /\ (Audited \/ With) /\ UNCHANGED ceremony
  BY DEF ShowJob, PrecheckJob
<1>2. /\ Good(j, nextId, claims) /\ Continues(entries, j.entries)
      /\ Serving(Held, j, OutcomeLines) /\ Serving(Held, JobsTicked(j), OutcomeLines)
  BY StartsGood
<1> HIDE DEF j
<1>3. JobsInv' /\ Continues(entries, entries')
  BY <1>1, <1>2, TickInv DEF Shared
<1>4. Served(Held, OutcomeLines \cup {})
  BY <1>1, <1>2, LeavesServed DEF JobTick
<1>5. Serving(Held, Held, OutcomeLines) /\ {} \in SUBSET {"started", "waiting", "approved"}
  BY SameServes
<1>6. nextId' = nextId /\ claims' = claims /\ CeremonyOK'
  BY <1>1 DEF JobTick, JobsQuiet, CeremonyOK
<1> QED  BY <1>1, <1>3, <1>4, <1>5, <1>6, JobsRun

LEMMA RunnerRuns ==
    ASSUME Shared, CeremonyOK, NEW t \in Time, NEW r \in Runners, Runner(t, r)
    PROVE  Runs
<1> DEFINE j == JobsAt(gate, t)
           k == JobsTicked(j)
<1>1. /\ Good(j, nextId, claims) /\ Continues(entries, j.entries) /\ j.entries = entries
      /\ Serving(Held, j, OutcomeLines)
      /\ Good(k, nextId, claims) /\ Continues(entries, k.entries)
      /\ Serving(Held, k, OutcomeLines)
  BY StartsGood
<1>2. SshKeeps /\ UNCHANGED ceremony /\ CeremonyOK'
  BY DEF Runner, CeremonyOK
<1>3. \/ JobPoll(k, r) /\ Audited
      \/ \E id \in Known, sc \in ApplyScopes : JobSubmit(j, r, id, sc) /\ Audited
      \/ \E id \in Known, res \in {"refused", "plan_failed"} : JobRefuse(j, r, id, res) /\ With
      \/ \E id \in Known : JobClaim(j, r, id) /\ Audited
      \/ \E id \in Known, p \in Projects, res \in {"applied", "apply_failed", "outcome_unknown"} :
            JobFinish(j, r, p, id, res) /\ With
  BY Zenon DEF Runner
<1> HIDE DEF j, k
<1>4. {{}, {"started"}, {"waiting"}} \subseteq SUBSET {"started", "waiting", "approved"}
  OBVIOUS
<1>5. Known \subseteq Nat
  BY DEF Known
<1>6. CASE JobPoll(k, r) /\ Audited
  <2>1. JobsInv' /\ Continues(entries, entries') /\ Served(k, OutcomeLines \cup {"started"})
    BY <1>1, <1>6, PollInv, PollServes DEF Shared
  <2>2. nextId' = nextId
    BY <1>6 DEF JobPoll, JobsQuiet
  <2> QED  BY <1>1, <1>2, <1>4, <1>6, <2>1, <2>2, JobsRun
<1>7. ASSUME NEW id \in Known, NEW sc \in ApplyScopes, JobSubmit(j, r, id, sc), Audited
      PROVE  Runs
  <2>1. JobsInv' /\ Continues(entries, entries')
    BY <1>1, <1>7, SubmitInv DEF Shared, JobScopes
  <2>2. Served(j, OutcomeLines \cup {"waiting"}) /\ nextId' = nextId
    BY <1>1, <1>7, SubmitServes DEF JobSubmit, JobsQuiet
  <2> QED  BY <1>1, <1>2, <1>4, <1>7, <2>1, <2>2, JobsRun
<1>8. ASSUME NEW id \in Known, NEW res \in {"refused", "plan_failed"},
             JobRefuse(j, r, id, res), With
      PROVE  Runs
  <2>1. JobsInv' /\ Continues(entries, entries') /\ Served(j, OutcomeLines \cup {})
    BY <1>1, <1>8, RefuseInv, RefuseServes DEF Shared
  <2>2. nextId' = nextId /\ claims' = claims
    BY <1>8 DEF JobRefuse, JobsQuiet
  <2> QED  BY <1>1, <1>2, <1>4, <1>8, <2>1, <2>2, JobsRun
<1>9. ASSUME NEW id \in Known, JobClaim(j, r, id), Audited
      PROVE  Runs
  <2>1. JobsInv' /\ Continues(entries, entries')
    BY <1>1, <1>5, <1>9, ClaimInv DEF Shared
  <2>2. Served(j, OutcomeLines \cup {}) /\ nextId' = nextId
    BY <1>1, <1>9, ClaimServes DEF JobClaim
  <2> QED  BY <1>1, <1>2, <1>4, <1>9, <2>1, <2>2, JobsRun
<1>10. ASSUME NEW id \in Known, NEW p \in Projects,
              NEW res \in {"applied", "apply_failed", "outcome_unknown"},
              JobFinish(j, r, p, id, res), With
       PROVE  Runs
  <2>1. JobsInv' /\ Continues(entries, entries')
    <3>1. id \in Nat /\ id < nextId
      BY <1>1, GoodParts DEF Known
    <3> QED
      BY <1>1, <1>10, <3>1, FinishInv DEF Shared
  <2>2. Served(j, OutcomeLines \cup {})
    BY <1>1, <1>10, FinishServes
  <2>3. nextId' = nextId /\ claims' = claims
    BY <1>10 DEF JobFinish, JobsQuiet
  <2> QED  BY <1>1, <1>2, <1>4, <1>10, <2>1, <2>2, <2>3, JobsRun
<1> QED  BY <1>3, <1>6, <1>7, <1>8, <1>9, <1>10

LEMMA KillProjectRuns ==
    ASSUME Shared, CeremonyOK, NEW t \in Time, NEW project \in Projects, KillProject(t, project)
    PROVE  Runs
<1> DEFINE j == JobsAt(gate, t)
<1>1. JobKill(j, project) /\ SshKeeps /\ With /\ UNCHANGED ceremony
  BY DEF KillProject
<1>2. /\ Good(j, nextId, claims) /\ Continues(entries, j.entries)
      /\ Serving(Held, j, OutcomeLines)
  BY StartsGood
<1> HIDE DEF j
<1>3. JobsInv' /\ Continues(entries, entries') /\ Served(j, OutcomeLines \cup {})
  BY <1>1, <1>2, KillInv, KillServes DEF Shared
<1>4. nextId' = nextId /\ claims' = claims /\ CeremonyOK'
  BY <1>1 DEF JobKill, JobsQuiet, CeremonyOK
<1>5. {} \in SUBSET {"started", "waiting", "approved"}
  OBVIOUS
<1> QED  BY <1>1, <1>2, <1>3, <1>4, <1>5, JobsRun

LEMMA FileJobRuns ==
    ASSUME Shared, CeremonyOK, NEW t \in Time, NEW project \in Projects, FileJob(t, project)
    PROVE  Runs
<1> DEFINE k == JobsTicked(JobsAt(gate, t))
<1>1. JobRequest(k, project, "apply") /\ SshKeeps /\ Audited /\ UNCHANGED ceremony
  BY DEF FileJob
<1>2. /\ Good(k, nextId, claims) /\ Continues(entries, k.entries)
      /\ Serving(Held, k, OutcomeLines)
  BY StartsGood
<1> HIDE DEF k
<1>3. JobsInv' /\ Served(k, {"requested"})
  BY <1>1, <1>2, RequestInv, RequestServes, SharedIds DEF Shared
<1>4. /\ Lends("ssh", gate, k.gate) /\ jobEvents \subseteq k.events
      /\ \A l \in k.events : l \in jobEvents \/ l.kind \in OutcomeLines
  BY <1>2, HeldIs DEF Serving, HeldParts
<1>5. Filed
  BY <1>1, <1>2, <1>4, RequestFiles
<1>6. Lends("ssh", gate, gate')
  BY <1>3, <1>4, LendsTwice DEF Served
<1>7. Shared'
  BY <1>1, <1>3, <1>5, <1>6, JobsStep
<1>8. Recorded \subseteq Recorded'
  BY <1>1, <1>3, <1>4 DEF Served, Recorded, SshKeeps, sshVars
<1> QED  BY <1>1, <1>7, <1>8 DEF Runs, CeremonyOK

\* approve_finish, of a request, of a job, or of nothing that waits.
LEMMA ApproveFinishRuns ==
    ASSUME Shared, CeremonyOK, NEW t \in Time, NEW id, NEW good, ApproveFinish(t, id, good)
    PROVE  Runs
<1> DEFINE j == JobsAt(gate, t)
<1>1. /\ \/ SshApprove(Ticked(gate, t), id, ceremony.nonce, ceremony.scope) /\ JobsKeep
         \/ JobApprove(j, id, ceremony.nonce, ceremony.scope) /\ SshKeeps
         \/ UNCHANGED <<gate, nextId>> /\ SshKeeps /\ JobsKeep
      /\ Audited /\ ceremony' = None
  BY Zenon DEF ApproveFinish
<1>2. CeremonyOK'
  BY <1>1 DEF CeremonyOK
<1>3. CASE SshApprove(Ticked(gate, t), id, ceremony.nonce, ceremony.scope) /\ JobsKeep
  <2>1. SshActs(Ticked(gate, t))
    BY <1>3 DEF SshActs
  <2> QED  BY <1>1, <1>2, <1>3, <2>1, GrantsRun
<1>4. CASE JobApprove(j, id, ceremony.nonce, ceremony.scope) /\ SshKeeps
  <2>1. /\ Good(j, nextId, claims) /\ Continues(entries, j.entries)
        /\ Serving(Held, j, OutcomeLines)
    BY StartsGood
  <2> HIDE DEF j
  <2>2. JobsInv' /\ Continues(entries, entries') /\ Served(j, OutcomeLines \cup {"approved"})
    BY <1>4, <2>1, ApproveInv, ApproveServes DEF Shared
  <2>3. nextId' = nextId
    BY <1>4 DEF JobApprove, JobsQuiet
  <2>4. {"approved"} \in SUBSET {"started", "waiting", "approved"}
    OBVIOUS
  <2> QED  BY <1>1, <1>2, <1>4, <2>1, <2>2, <2>3, <2>4, JobsRun
<1>5. CASE UNCHANGED <<gate, nextId>> /\ SshKeeps /\ JobsKeep
  <2>1. Shared' /\ Recorded \subseteq Recorded'
    BY <1>5, SameStep DEF Recorded, SshKeeps, sshVars, JobsKeep, jobVars
  <2> QED  BY <1>1, <1>2, <2>1 DEF Runs
<1> QED  BY <1>1, <1>3, <1>4, <1>5

\* decline, of a job or of a request.
LEMMA DeclineRuns ==
    ASSUME Shared, CeremonyOK, NEW t \in Time, NEW id, Decline(t, id)
    PROVE  Runs
<1> DEFINE k == JobsTicked(JobsAt(gate, t))
<1>1. /\ \/ JobDecline(k, id) /\ SshKeeps
         \/ JobsLeft(k) /\ SshDecline(Ticked(k.gate, t), id)
      /\ With /\ ceremony' = None
  BY Zenon DEF Decline
<1>2. CeremonyOK'
  BY <1>1 DEF CeremonyOK
<1>3. /\ Good(k, nextId, claims) /\ Continues(entries, k.entries)
      /\ Serving(Held, k, OutcomeLines)
  BY StartsGood
<1> HIDE DEF k
<1>4. CASE JobDecline(k, id) /\ SshKeeps
  <2>1. JobsInv' /\ Continues(entries, entries') /\ Served(k, OutcomeLines \cup {})
    BY <1>3, <1>4, DeclineInv, DeclineServes DEF Shared
  <2>2. nextId' = nextId /\ claims' = claims
    BY <1>4 DEF JobDecline, JobsQuiet
  <2>3. {} \in SUBSET {"started", "waiting", "approved"}
    OBVIOUS
  <2> QED  BY <1>1, <1>2, <1>3, <1>4, <2>1, <2>2, <2>3, JobsRun
<1>5. CASE JobsLeft(k) /\ SshDecline(Ticked(k.gate, t), id)
  <2>1. SshActs(Ticked(k.gate, t))
    BY <1>5 DEF SshActs
  <2>2. Shared' /\ events \subseteq events' /\ jobEvents \subseteq jobEvents'
    BY <1>3, <1>5, <2>1, SshStep
  <2>3. OnlyNew(Ends)
    BY <1>5, EndsOnly
  <2>4. NoneGranted
    BY <1>3, <1>5, <2>3, JobsLeftLines, GrantsNone
  <2> QED  BY <1>1, <1>2, <2>2, <2>4 DEF Runs, Recorded
<1> QED  BY <1>1, <1>4, <1>5

LEMMA HandlerRuns ==
    ASSUME Shared, CeremonyOK, NEW t \in Time, Handler(t)
    PROVE  Runs
<1>1. (\/ Status(t) \/ ShowJob(t) \/ PrecheckJob(t)) => Runs
  BY StatusRuns, ShowRuns
<1>2. (\/ PollRequest(t)
       \/ \E h \in Hosts, k \in Keys, d \in Wanted : Request(t, h, k, d)
       \/ \E h \in Hosts, k \in Keys, f \in BOOLEAN : Issue(t, h, k, f)
       \/ \E h \in Hosts : KillHost(t, h)) => Runs
  BY SshHandlersRun
<1>3. (\E p \in Projects : KillProject(t, p) \/ FileJob(t, p)) => Runs
  BY KillProjectRuns, FileJobRuns
<1>4. (\E id \in Known :
          \/ ApproveStart(t, id) \/ Decline(t, id)
          \/ \E good \in BOOLEAN : ApproveFinish(t, id, good)) => Runs
  BY ApproveStartRuns, DeclineRuns, ApproveFinishRuns
<1>5. (\E r \in Runners : Runner(t, r)) => Runs
  BY RunnerRuns
<1> QED  BY <1>1, <1>2, <1>3, <1>4, <1>5, Zenon DEF Handler

----------------------------------------------------------------------------
(* What is on disk.                                                        *)

\* A set of naturals with a bound has a highest one.
LEMMA HighestExists ==
    ASSUME NEW S \in SUBSET Nat, S # {}, NEW n \in Nat, \A i \in S : i <= n
    PROVE  \E m \in S : \A i \in S : i <= m
<1> DEFINE T == {b \in Nat : \A i \in S : i <= b}
<1>1. T \subseteq Nat /\ T # {}
  OBVIOUS
<1>2. PICK m \in T : \A k \in T : ~(<<k, m>> \in OpToRel(<, Nat))
  BY ONLY <1>1, NatLessThanWellFounded, WFMin
<1>3. m \in T /\ \A k \in T : ~(k < m)
  BY <1>1, <1>2 DEF OpToRel
<1>4. m \in Nat /\ (\A i \in S : i <= m)
      /\ \A k \in Nat : k < m => \E i \in S : ~(i <= k)
  BY <1>3
<1> HIDE DEF T
<1>5. m \in S
  <2> SUFFICES ASSUME m \notin S PROVE FALSE
    OBVIOUS
  <2>1. \A i \in S : i < m
    BY <1>4
  <2>2. PICK i \in S : TRUE
    OBVIOUS
  <2>3. i \in Nat /\ i < m
    BY <2>1
  <2>4. m - 1 \in Nat /\ m - 1 < m
    BY <1>4, <2>3
  <2>5. \A k \in S : k <= m - 1
    BY <1>4, <2>1
  <2> QED  BY <1>4, <2>4, <2>5
<1> QED  BY <1>4, <1>5

\* load_next_id takes an id above all that the ledger names.
Bounded(lines) == \E n \in Nat : \A l \in lines : l.id <= n
LEMMA HighestIsNat ==
    ASSUME NEW lines \in SUBSET (Lines \cup JobLines), Bounded(lines)
    PROVE  HighestId(lines) \in Nat /\ \A l \in lines : l.id <= HighestId(lines)
<1> DEFINE S == {l.id : l \in lines}
<1>1. S \in SUBSET Nat
  BY DEF Lines, JobLines
<1>2. CASE lines = {}
  BY <1>2 DEF HighestId
<1>3. CASE lines # {}
  <2>1. \E m \in S : \A i \in S : i <= m
    <3>1. PICK n \in Nat : \A l \in lines : l.id <= n
      BY DEF Bounded
    <3>2. S # {} /\ \A i \in S : i <= n
      BY <1>3, <3>1
    <3> HIDE DEF S
    <3> QED  BY <1>1, <3>2, HighestExists
  <2>2. HighestId(lines) = CHOOSE n \in S : \A l \in lines : l.id <= n
    BY <1>3 DEF HighestId
  <2>3. \E n \in S : \A l \in lines : l.id <= n
    BY <2>1
  <2> HIDE DEF S
  <2> QED  BY <1>1, <2>2, <2>3
<1> QED  BY <1>2, <1>3

\* A ledger file is finite.
LEMMA FiniteIsBounded ==
    ASSUME NEW lines \in SUBSET (Lines \cup JobLines), IsFiniteSet(lines)
    PROVE  Bounded(lines)
<1> DEFINE Z == {c \in Nat : \E T \in SUBSET lines : Cardinality(T) = c /\ ~Bounded(T)}
<1> SUFFICES ASSUME ~Bounded(lines) PROVE FALSE
  OBVIOUS
<1>1. Z \subseteq Nat /\ Z # {}
  BY FS_CardinalityType
<1>2. PICK c \in Z : \A k \in Z : ~(<<k, c>> \in OpToRel(<, Nat))
  BY ONLY <1>1, NatLessThanWellFounded, WFMin
<1>3. c \in Z /\ \A k \in Z : ~(k < c)
  BY <1>1, <1>2 DEF OpToRel
<1>4. PICK T \in SUBSET lines : Cardinality(T) = c /\ ~Bounded(T)
  BY <1>3
<1>5. IsFiniteSet(T)
  BY FS_Subset
<1>6. PICK x \in T : TRUE
  <2>1. T # {}
    BY <1>4 DEF Bounded
  <2> QED  BY <2>1
<1>7. Cardinality(T \ {x}) = c - 1 /\ c \in Nat /\ T \ {x} \in SUBSET lines
  BY <1>4, <1>5, <1>6, FS_RemoveElement, FS_CardinalityType
<1>8. c - 1 \in Nat /\ c - 1 < c
  BY <1>5, <1>7, FS_RemoveElement, FS_Subset, FS_CardinalityType
<1>9. c - 1 \notin Z
  BY <1>3, <1>8
<1>10. Bounded(T \ {x})
  BY <1>7, <1>8, <1>9
<1>11. PICK n \in Nat : \A l \in T \ {x} : l.id <= n
  BY <1>10 DEF Bounded
<1>12. \A l \in lines : l.id \in Nat
  BY DEF Lines, JobLines
<1>13. Later(n, x.id) \in Nat /\ \A l \in T : l.id <= Later(n, x.id)
  BY <1>11, <1>12 DEF Later
<1> QED  BY <1>4, <1>13 DEF Bounded

\* Every line recorded is of an id that was handed out.
LEMMA RecordedIds ==
    ASSUME Shared
    PROVE  /\ Recorded \subseteq Lines \cup JobLines
           /\ \A l \in Recorded : l.id \in Nat /\ l.id < nextId
<1>1. /\ Replied(pending, events) /\ Standing(windows, events) /\ IssuedStand(events)
      /\ events \subseteq Lines
  BY DEF Shared, SoundWith, Sound, Typed
<1>2. \A l \in events : l.kind \in {"requested", "declined", "timed_out", "killed",
                                     "approved", "issued"}
  BY <1>1 DEF Lines
<1>3. \A l \in AskedIn(events) : l.id \in Nat /\ l.id < nextId
  BY SharedIds
<1>4. \A l \in AnswersIn(events) : l.id \in Nat /\ l.id < nextId
  BY <1>1, <1>3 DEF Replied
<1>5. \A l \in KilledIn(events) : l.id \in Nat /\ l.id < nextId
  BY <1>1, <1>4 DEF Standing
<1>6. \A l \in events : l.id \in Nat /\ l.id < nextId
  <2> SUFFICES ASSUME NEW l \in events PROVE l.id \in Nat /\ l.id < nextId
    OBVIOUS
  <2>1. CASE l.kind = "issued"
    <3>1. PICK a \in events : a.kind = "approved" /\ a.id = l.id
      BY <1>1, <2>1 DEF IssuedStand
    <3>2. a \in AnswersIn(events)
      BY <3>1 DEF AnswersIn, Verdicts
    <3> QED  BY <1>4, <3>1, <3>2
  <2>2. CASE l.kind # "issued"
    <3>1. l \in AskedIn(events) \/ l \in AnswersIn(events) \/ l \in KilledIn(events)
      BY <1>2, <2>2 DEF AskedIn, AnswersIn, KilledIn, Verdicts
    <3> QED  BY <1>3, <1>4, <1>5, <3>1
  <2> QED  BY <2>1, <2>2
<1>7. jobEvents \subseteq JobLines /\ \A l \in jobEvents : l.id \in Nat /\ l.id < nextId
  <2>1. Good(Held, nextId, claims) /\ Held.events = jobEvents
    BY SharedIds DEF Held
  <2>2. jobEvents \subseteq JobLines
    BY <2>1, GoodParts
  <2> QED  BY <2>1, <2>2 DEF Good, Told, JobLines
<1> QED  BY <1>1, <1>6, <1>7 DEF Recorded

----------------------------------------------------------------------------
(* What a handler does, of either of the two.                              *)

\* A method of Jobs, with its tick or without.
JobActs(j) ==
    \/ JobTick(j)
    \/ \E p \in Projects : JobRequest(JobsTicked(j), p, "apply") \/ JobKill(j, p)
    \/ \E id, nonce, scope : JobApprove(j, id, nonce, scope)
    \/ \E id : JobDecline(JobsTicked(j), id)
    \/ \E r \in Runners :
          \/ JobPoll(JobsTicked(j), r)
          \/ \E id, scope : JobSubmit(j, r, id, scope)
          \/ \E id : \E res \in {"refused", "plan_failed"} : JobRefuse(j, r, id, res)
          \/ \E id : JobClaim(j, r, id)
          \/ \E id, p : \E res \in {"applied", "apply_failed", "outcome_unknown"} :
                JobFinish(j, r, p, id, res)

\* What a handler does is a method of one of the two, or the ticks of both, of
\* which a decline is one.
Quiets(s) == SshTick(s) \/ \E id : SshDecline(s, id)
TicksBoth(t) ==
    LET k == JobsTicked(JobsAt(gate, t)) IN JobsLeft(k) /\ Quiets(Ticked(k.gate, t))
Acted(t) ==
    \/ JobsKeep /\ SshActs(Ticked(gate, t))
    \/ SshKeeps /\ JobActs(JobsAt(gate, t))
    \/ TicksBoth(t)
    \/ UNCHANGED <<gate, nextId>> /\ SshKeeps /\ JobsKeep

LEMMA RunnerActs ==
    ASSUME NEW t, NEW r \in Runners, Runner(t, r)
    PROVE  SshKeeps /\ JobActs(JobsAt(gate, t))
<1> DEFINE j == JobsAt(gate, t)
           k == JobsTicked(j)
<1>1. \/ JobPoll(k, r)
      \/ \E id \in Known, sc \in ApplyScopes : JobSubmit(j, r, id, sc)
      \/ \E id \in Known, res \in {"refused", "plan_failed"} : JobRefuse(j, r, id, res)
      \/ \E id \in Known : JobClaim(j, r, id)
      \/ \E id \in Known, p \in Projects, res \in {"applied", "apply_failed", "outcome_unknown"} :
            JobFinish(j, r, p, id, res)
  BY Zenon DEF Runner
<1>2. SshKeeps
  BY DEF Runner
<1> HIDE DEF j, k
<1>3. ASSUME NEW id, NEW sc, JobSubmit(j, r, id, sc)
      PROVE  JobActs(j)
  BY <1>3 DEF JobActs
<1>4. ASSUME NEW id, NEW res \in {"refused", "plan_failed"}, JobRefuse(j, r, id, res)
      PROVE  JobActs(j)
  BY <1>4 DEF JobActs
<1>5. ASSUME NEW id, NEW p, NEW res \in {"applied", "apply_failed", "outcome_unknown"},
             JobFinish(j, r, p, id, res)
      PROVE  JobActs(j)
  BY <1>5 DEF JobActs
<1>6. ASSUME NEW id, JobClaim(j, r, id)
      PROVE  JobActs(j)
  BY <1>6 DEF JobActs
<1>7. JobPoll(k, r) => JobActs(j)
  BY DEF JobActs, k
<1>8. JobActs(j)
  BY <1>1, <1>3, <1>4, <1>5, <1>6, <1>7
<1> QED  BY <1>2, <1>8 DEF j

LEMMA HandlerActs ==
    ASSUME NEW t, Handler(t)
    PROVE  Acted(t)
<1> DEFINE j == JobsAt(gate, t)
           k == JobsTicked(j)
<1>1. CASE Status(t) \/ \E id \in Known : ApproveStart(t, id)
  <2>1. JobsLeft(k) /\ SshTick(Ticked(k.gate, t))
    BY <1>1, Zenon DEF Status, ApproveStart
  <2> QED  BY <2>1, Zenon DEF Acted, TicksBoth, Quiets
<1>2. CASE \/ PollRequest(t)
           \/ \E h \in Hosts, key \in Keys, d \in Wanted : Request(t, h, key, d)
           \/ \E h \in Hosts, key \in Keys, f \in BOOLEAN : Issue(t, h, key, f)
           \/ \E h \in Hosts : KillHost(t, h)
  <2>1. JobsKeep /\ SshActs(Ticked(gate, t))
    BY <1>2, Zenon DEF PollRequest, Request, Issue, KillHost, SshActs
  <2> QED  BY <2>1, Zenon DEF Acted
<1>3. CASE \/ ShowJob(t) \/ PrecheckJob(t)
           \/ \E p \in Projects : KillProject(t, p) \/ FileJob(t, p)
           \/ \E r \in Runners : Runner(t, r)
  <2>1. CASE ShowJob(t) \/ PrecheckJob(t)
    BY <2>1, Zenon DEF ShowJob, PrecheckJob, JobActs, Acted
  <2>2. ASSUME NEW p \in Projects, KillProject(t, p) \/ FileJob(t, p)
        PROVE  Acted(t)
    BY <2>2, Zenon DEF KillProject, FileJob, JobActs, Acted
  <2>3. ASSUME NEW r \in Runners, Runner(t, r)
        PROVE  Acted(t)
    BY <2>3, RunnerActs, Zenon DEF Acted
  <2> QED  BY <1>3, <2>1, <2>2, <2>3, Zenon
<1>4. ASSUME NEW id \in Known, Decline(t, id)
      PROVE  Acted(t)
  <2>1. \/ JobDecline(k, id) /\ SshKeeps
        \/ JobsLeft(k) /\ SshDecline(Ticked(k.gate, t), id)
    BY <1>4, Zenon DEF Decline
  <2>2. CASE JobDecline(k, id) /\ SshKeeps
    BY <2>2, Zenon DEF JobActs, Acted
  <2>3. CASE JobsLeft(k) /\ SshDecline(Ticked(k.gate, t), id)
    BY <2>3, Zenon DEF Acted, TicksBoth, Quiets
  <2> QED  BY <2>1, <2>2, <2>3
<1>5. ASSUME NEW id \in Known, NEW good, ApproveFinish(t, id, good)
      PROVE  Acted(t)
  <2>1. \/ SshApprove(Ticked(gate, t), id, ceremony.nonce, ceremony.scope) /\ JobsKeep
        \/ JobApprove(j, id, ceremony.nonce, ceremony.scope) /\ SshKeeps
        \/ UNCHANGED <<gate, nextId>> /\ SshKeeps /\ JobsKeep
    BY <1>5, Zenon DEF ApproveFinish
  <2> QED  BY <2>1, Zenon DEF SshActs, JobActs, Acted
<1> QED  BY <1>1, <1>2, <1>3, <1>4, <1>5, Zenon DEF Handler

----------------------------------------------------------------------------
(* The first lines of a process are of what it was asked, not of what it was *)
(* granted: an approval is of a request or job that has its line already.    *)

LEMMA SshFirst ==
    ASSUME NEW g, NEW t \in Time, events = {}, pending = None, SshActs(Ticked(g, t))
    PROVE  \A l \in events' : l.kind # "approved"
<1> DEFINE s == Ticked(g, t)
<1>1. s.pending = None /\ \A l \in s.events : l.kind = "timed_out"
  BY TickLines DEF Ticked
<1>2. SshActs(s)
  OBVIOUS
<1>3. ASSUME OnlyTicked(s) \/ (\E id : SshDecline(s, id)) \/ \E h \in Hosts : SshKill(s, h)
      PROVE  \A l \in events' : l.kind # "approved"
  BY <1>3, EndsOnly DEF OnlyNew, Ends
<1> HIDE DEF s
<1>4. ASSUME NEW h \in Hosts, NEW k \in Keys, NEW d \in Wanted,
             SshRequest(s, h, k, d), ~OnlyTicked(s)
      PROVE  \A l \in events' : l.kind # "approved"
  <2>1. events' = s.events \cup {Line("requested", nextId, h, s.now)}
    BY <1>4 DEF SshRequest
  <2> QED  BY <1>1, <2>1 DEF Line
<1>5. ASSUME NEW id, NEW nonce, NEW scope, SshApprove(s, id, nonce, scope)
      PROVE  OnlyTicked(s)
  BY <1>1, <1>5, Zenon DEF SshApprove, Matches
<1>6. ASSUME NEW h \in Hosts, NEW k \in Keys, NEW f \in BOOLEAN,
             SshIssue(s, h, k, f), ~OnlyTicked(s)
      PROVE  \A l \in events' : l.kind # "approved"
  <2>1. PICK w \in s.windows : Fresh(s, w)
    BY <1>6, Zenon DEF SshIssue, Candidates
  <2> DEFINE l == [kind |-> "issued", id |-> w.id, serial |-> nextId,
                   host |-> w.scope.host, validBefore |-> Expiry(s.now, w), at |-> s.now]
  <2>2. events' = s.events \cup {l}
    BY <2>1 DEF Fresh
  <2>3. l.kind = "issued"
    OBVIOUS
  <2> HIDE DEF l
  <2> QED  BY <1>1, <2>2, <2>3
<1> QED  BY <1>2, <1>3, <1>4, <1>5, <1>6, Zenon DEF SshActs, SshTick

LEMMA JobsFirst ==
    ASSUME Shared, jobEvents = {}, NEW t \in Time, JobActs(JobsAt(gate, t))
    PROVE  \A l \in jobEvents' : l.kind # "approved"
<1> DEFINE j == JobsAt(gate, t)
           k == JobsTicked(j)
<1>1. /\ Good(j, nextId, claims) /\ Serving(Held, j, OutcomeLines) /\ j.entries = entries
      /\ Good(k, nextId, claims) /\ Serving(Held, k, OutcomeLines)
  BY StartsGood
<1>2. JobActs(j)
  OBVIOUS
<1> HIDE DEF j
<1>3. ASSUME NEW i, Serving(Held, i, OutcomeLines), NEW kinds, Served(i, kinds),
             "approved" \notin kinds
      PROVE  \A l \in jobEvents' : l.kind # "approved"
  BY <1>3, HeldIs DEF HeldParts, Serving, Served, OutcomeLines
<1>4. CASE JobTick(j)
  <2>1. Served(Held, OutcomeLines)
    BY <1>1, <1>4, LeavesServed DEF JobTick
  <2> QED  BY <1>3, <2>1, SameServes DEF OutcomeLines
<1> HIDE DEF k
<1>5. ASSUME NEW p \in Projects, JobRequest(k, p, "apply")
      PROVE  \A l \in jobEvents' : l.kind # "approved"
  <2>1. Served(k, {"requested"})
    BY <1>1, <1>5, RequestServes, SharedIds
  <2> QED  BY <1>1, <1>3, <2>1
<1>6. ASSUME NEW id, NEW nonce, NEW scope, JobApprove(j, id, nonce, scope)
      PROVE  \A l \in jobEvents' : l.kind # "approved"
  <2> DEFINE over == Overdue(j, {"waiting"}) \cap EntryOf(j, id, Active)
             p == Lapse(j, over)
  <2>1. \A e \in entries : e.state # "waiting"
    <3>1. HandedOut(Held, nextId, claims) /\ Held.entries = entries /\ Held.events = {}
      BY SharedIds, HeldIs DEF Good, HeldParts
    <3> QED  BY <3>1 DEF HandedOut, WaitingAt
  <2>2. over = {}
    BY <1>1, <2>1 DEF Overdue
  <2>3. Serving(j, p, OutcomeLines)
    BY <1>1, <2>2, LapseServes
  <2>4. p.entries = (j.entries \ over) \cup {Settled(e, LapseResult(e), j.now) : e \in over}
    BY <1>1, LapseParts, GoodParts
  <2>5. EntryOf(p, id, {"waiting"}) = {}
    BY <1>1, <2>1, <2>2, <2>4 DEF EntryOf
  <2>6. (\E e \in EntryOf(p, id, {"waiting"}) : TRUE) \/ Leaves(p)
    BY <1>6, Zenon DEF JobApprove
  <2> HIDE DEF p, over
  <2>7. Served(j, OutcomeLines)
    BY <2>3, <2>5, <2>6, LeavesServed
  <2> QED  BY <1>1, <1>3, <2>7 DEF OutcomeLines
<1>7. ASSUME \/ \E p \in Projects : JobKill(j, p)
             \/ \E r, id : JobClaim(j, r, id)
             \/ \E r, id : \E res \in {"refused", "plan_failed"} : JobRefuse(j, r, id, res)
             \/ \E r, id, p : \E res \in {"applied", "apply_failed", "outcome_unknown"} :
                   JobFinish(j, r, p, id, res)
      PROVE  \A l \in jobEvents' : l.kind # "approved"
  <2>1. Served(j, OutcomeLines)
    BY <1>1, <1>7, KillServes, ClaimServes, RefuseServes, FinishServes
  <2> QED  BY <1>1, <1>3, <2>1 DEF OutcomeLines
<1>8. ASSUME NEW r \in Runners, NEW id, NEW scope, JobSubmit(j, r, id, scope)
      PROVE  \A l \in jobEvents' : l.kind # "approved"
  <2>1. Served(j, OutcomeLines \cup {"waiting"})
    BY <1>1, <1>8, SubmitServes
  <2> QED  BY <1>1, <1>3, <2>1 DEF OutcomeLines
<1>9. ASSUME NEW r \in Runners, JobPoll(k, r)
      PROVE  \A l \in jobEvents' : l.kind # "approved"
  <2>1. Served(k, OutcomeLines \cup {"started"})
    BY <1>1, <1>9, PollServes
  <2> QED  BY <1>1, <1>3, <2>1 DEF OutcomeLines
<1>10. ASSUME NEW id, JobDecline(k, id)
       PROVE  \A l \in jobEvents' : l.kind # "approved"
  <2>1. Served(k, OutcomeLines)
    BY <1>1, <1>10, DeclineServes
  <2> QED  BY <1>1, <1>3, <2>1 DEF OutcomeLines
<1> QED  BY <1>2, <1>4, <1>5, <1>6, <1>7, <1>8, <1>9, <1>10, Zenon DEF JobActs, k

\* With nothing recorded no request waits for a verdict.
LEMMA NothingPending ==
    ASSUME Shared, events = {}
    PROVE  pending = None /\ windows = {}
<1>1. Dated(highWater, pending, events) /\ Standing(windows, events)
  BY DEF Shared, SoundWith, Sound
<1> QED  BY <1>1 DEF Dated, Standing, AskedIn, AnswersIn

LEMMA NothingApprovedFirst ==
    ASSUME Shared, Recorded = {}, NEW t \in Time, Handler(t)
    PROVE  \A l \in Recorded' : l.kind # "approved"
<1>1. events = {} /\ jobEvents = {} /\ pending = None
  BY NothingPending DEF Recorded
<1>2. Acted(t)
  BY HandlerActs
<1>3. CASE JobsKeep /\ SshActs(Ticked(gate, t))
  BY <1>1, <1>3, SshFirst DEF Recorded, JobsKeep, jobVars
<1>4. CASE SshKeeps /\ JobActs(JobsAt(gate, t))
  BY <1>1, <1>4, JobsFirst DEF Recorded, SshKeeps, sshVars
<1>5. CASE TicksBoth(t)
  <2> DEFINE k == JobsTicked(JobsAt(gate, t))
  <2>1. JobsLeft(k) /\ Quiets(Ticked(k.gate, t)) /\ Serving(Held, k, OutcomeLines)
    BY <1>5, StartsGood DEF TicksBoth
  <2> HIDE DEF k
  <2>2. \A l \in events' : l.kind # "approved"
    BY <1>1, <2>1, EndsOnly DEF Quiets, SshTick, OnlyNew, Ends
  <2>3. \A l \in jobEvents' : l.kind # "approved"
    BY <1>1, <2>1, HeldIs DEF HeldParts, Serving, JobsLeft, OutcomeLines
  <2> QED  BY <2>2, <2>3 DEF Recorded
<1>6. CASE UNCHANGED <<gate, nextId>> /\ SshKeeps /\ JobsKeep
  BY <1>1, <1>6 DEF Recorded, SshKeeps, JobsKeep, sshVars, jobVars
<1> QED  BY <1>2, <1>3, <1>4, <1>5, <1>6 DEF Acted

\* A daemon that is down has nothing in memory.
Blank ==
    /\ gate = EmptyGate /\ highWater = 0 /\ pending = None /\ windows = {}
    /\ events = {} /\ signed = {} /\ certs = {}
    /\ jobsHighWater = 0 /\ entries = {} /\ jobEvents = {} /\ claims = {}
    /\ drained = {}

LEMMA BlankShared ==
    ASSUME Blank', nextId' \in Nat \ {0}, trusted' \in [Projects -> Revisions \cup {None}]
    PROVE  Shared'
<1>1. /\ EmptyGate \in Gates /\ HoldOf("ssh", EmptyGate) = {} /\ HoldOf("job", EmptyGate) = {}
      /\ OneHolder(EmptyGate)
  BY DEF EmptyGate, Gates, HoldOf, OneHolder
<1>2. IInv'
  <2>1. Typed(highWater, pending, windows, gate, events)' /\ Slotted(pending, gate)'
    BY <1>1 DEF Blank, Typed, Slotted
  <2>2. /\ Replied(pending, events)' /\ Dated(highWater, pending, events)'
        /\ Standing(windows, events)' /\ Certified(highWater, events)'
    BY DEF Blank, Replied, Dated, Standing, Certified, AskedIn, AnswersIn, KilledIn
  <2> QED  BY <2>1, <2>2 DEF IInv, SoundWith, Sound
<1>3. JobsInv'
  <2>1. Held' = [now |-> 0, entries |-> {}, gate |-> EmptyGate, events |-> {}]
    BY DEF Held, Blank
  <2>2. Held' \in JobRecords /\ claims' = {}
    BY <1>1, <2>1 DEF JobRecords, Blank
  <2>3. Good(Held', nextId', claims')
    BY <1>1, <2>1, <2>2 DEF Good, JTyped, OneEach, JSlotted, Holders, Told, HandedOut
  <2> QED  BY <2>3 DEF JobsInv
<1> QED
  BY <1>1, <1>2, <1>3 DEF Shared, IInv, Blank, AskedIn, AskedJobs, IssuedStand

\* Where the lines taken from memory are: in the file, or glued to a torn tail
\* and lost.  Only what another program left torn costs the line of an approval.
Kept(l) ==
    \/ l \in ledger
    \/ l \in lost /\ (others # 0 \/ l.kind # "approved")

\* What is on disk, and what of it the memory may count on: the lines taken are
\* kept unless a write failed, all lines are taken before the counter is saved,
\* and what a caller is about to be told has an approval recorded.
OnDisk ==
    /\ DaemonTypeOK
    /\ nextIdFile \in (Nat \ {0}) \cup {None}
    /\ Bounded(Readable)
    /\ ~ledgerFailed => \A l \in drained : Kept(l)
    /\ phase = "save" => Recorded \subseteq drained
    /\ phase = "idle" => \A l \in Recorded : l \in drained \/ l.kind = "timed_out"
    /\ \A g \in call.grants : phase \in {"append", "save"}
                              /\ \E a \in Recorded : a.kind = "approved" /\ a.id = g[2]
    /\ GrantsAreOnRecord
    /\ phase = "down" => Blank

\* A process that started on a torn tail has taken no lines while it lasts, and
\* the first it records approve nothing.
FirstLines ==
    others = 0 /\ ~ledgerFailed /\ tail # {} =>
        /\ drained = {}
        /\ \A l \in Recorded : l.kind # "approved"
        /\ phase # "append" => Recorded = {}
Torn == IsFiniteSet(lost) /\ TearsCostOneLine /\ FirstLines
DaemonInv == Shared /\ OnDisk /\ Torn

\* What TearsCostOneLine counts.
LEMMA TailCounts ==
    ASSUME NEW x, x = {} \/ \E y : x = {y}
    PROVE  Cardinality(x) = IF x = {} THEN 0 ELSE 1
BY FS_EmptySet, FS_Singleton
LEMMA TearCounts ==
    ASSUME DaemonTypeOK, Torn
    PROVE  /\ crashes \in Nat /\ failures \in Nat /\ others \in Nat
           /\ Cardinality(lost) \in Nat /\ Cardinality(lost) <= crashes + failures + others
           /\ Cardinality(tail) = IF tail = {} THEN 0 ELSE 1
           /\ Cardinality(lost) + Cardinality(tail) <= crashes + failures + others
<1>1. crashes \in Nat /\ failures \in Nat /\ others \in Nat
  BY DaemonAssumption DEF DaemonTypeOK
<1>2. Cardinality(tail) = IF tail = {} THEN 0 ELSE 1
  BY TailCounts DEF DaemonTypeOK
<1>3. Cardinality(lost) \in Nat
  BY FS_CardinalityType DEF Torn
<1> QED  BY <1>1, <1>2, <1>3 DEF Torn, TearsCostOneLine

\* A step that leaves the file as it was, with whatever it is torn at.
LEMMA SameTears ==
    ASSUME Torn, UNCHANGED <<tail, lost, crashes, others>>,
           failures \in Nat, failures' \in Nat, failures <= failures',
           Cardinality(lost) \in Nat, Cardinality(tail) \in Nat,
           crashes \in Nat, others \in Nat, FirstLines'
    PROVE  Torn'
BY DEF Torn, TearsCostOneLine

LEMMA RecordStands ==
    ASSUME GrantsAreOnRecord, told' = told, ledger \subseteq ledger', lost \subseteq lost',
           others' = 0 => others = 0
    PROVE  GrantsAreOnRecord'
<1> DEFINE shown == ledger \cup (IF others = 0 THEN {} ELSE lost)
<1>1. \A l \in shown : l \in ledger' \cup (IF others' = 0 THEN {} ELSE lost')
  OBVIOUS
<1>2. \A g \in told : \E l \in shown : l.kind = "approved" /\ l.id = g[2]
  BY DEF GrantsAreOnRecord
<1> HIDE DEF shown
<1> QED  BY <1>1, <1>2 DEF GrantsAreOnRecord

\* What a handler grants, an approval stands for.
LEMMA HandedStands ==
    ASSUME Shared'
    PROVE  \A g \in Handed : \E a \in Recorded' : a.kind = "approved" /\ a.id = g[2]
<1>1. Good(Held', nextId', claims') /\ Held'.events = jobEvents'
  BY DEF Shared, JobsInv, Held
<1>2. \A c \in claims' : \E a \in jobEvents' : a.kind = "approved" /\ a.id = c.id
  BY <1>1 DEF Good, HandedOut, ApprovedAt
<1>3. \A l \in events' : l.kind = "issued" =>
          \E a \in events' : a.kind = "approved" /\ a.id = l.id
  BY DEF Shared, IssuedStand
<1>4. \A l \in jobEvents' : l.kind # "issued"
  <2>1. jobEvents' \subseteq JobLines
    BY <1>1, GoodParts
  <2> QED  BY <2>1 DEF JobLines, OutcomeLines
<1>5. ASSUME NEW l \in Recorded' \ Recorded, l.kind \in {"approved", "issued"}
      PROVE  \E a \in Recorded' : a.kind = "approved" /\ a.id = l.id
  BY <1>3, <1>4, <1>5 DEF Recorded
<1>6. ASSUME NEW c \in claims'
      PROVE  \E a \in Recorded' : a.kind = "approved" /\ a.id = c.id
  BY <1>2 DEF Recorded
<1>7. ASSUME NEW g \in Handed
      PROVE  \E a \in Recorded' : a.kind = "approved" /\ a.id = g[2]
  <2>1. CASE \E l \in Recorded' \ Recorded :
                 l.kind \in {"approved", "issued"} /\ g = <<l.kind, l.id>>
    BY <1>5, <2>1
  <2>2. CASE \E c \in claims' : g = <<"claimed", c.id>>
    BY <1>6, <2>2
  <2> QED  BY <1>7, <2>1, <2>2 DEF Handed
<1> QED  BY <1>7

\* A handler takes the lock; the disk is as it was.
LEMMA HandlerKeeps ==
    ASSUME DaemonInv, NEW t \in Time, Handler(t)
    PROVE  DaemonInv' /\ (ledgerFailed => NoneGranted)
<1>1. Shared /\ OnDisk /\ Torn /\ CeremonyOK
  BY DEF DaemonInv, OnDisk, DaemonTypeOK, CeremonyOK
<1>2. Runs
  BY <1>1, HandlerRuns
<1>3. PICK audited \in BOOLEAN : Locks(audited) /\ (~audited => NoneGranted)
  BY <1>2 DEF Runs, Audited, With
<1>4. /\ phase = "idle" /\ (audited => ~ledgerFailed)
      /\ phase' = "append" /\ call'.audited = audited
      /\ call'.grants = IF audited THEN Handed ELSE {}
      /\ UNCHANGED <<ledgerFailed, drained, persisted, diskVars, told, boundVars>>
  BY <1>3 DEF Locks, Serves
<1>5. /\ UNCHANGED <<ledgerFailed, drained, persisted, ledger, tail, nextIdFile, told>>
      /\ UNCHANGED <<lost, crashes, failures, others>>
  BY <1>4 DEF diskVars, boundVars
<1>6. DaemonTypeOK'
  BY <1>1, <1>2, <1>4, <1>5 DEF OnDisk, DaemonTypeOK, Runs, CeremonyOK
<1>7. Bounded(Readable') /\ (~ledgerFailed' => \A l \in drained' : Kept(l)')
      /\ nextIdFile' \in (Nat \ {0}) \cup {None}
  BY <1>1, <1>5 DEF OnDisk, Readable, Kept
<1>8. GrantsAreOnRecord'
  BY <1>1, <1>5, RecordStands DEF OnDisk
<1>9. \A g \in call'.grants : \E a \in Recorded' : a.kind = "approved" /\ a.id = g[2]
  BY <1>2, <1>4, HandedStands DEF Runs
<1>10. OnDisk'
  BY <1>4, <1>6, <1>7, <1>8, <1>9 DEF OnDisk
<1>11. FirstLines'
  <2>1. ASSUME others = 0, ~ledgerFailed, tail # {}
        PROVE  drained = {} /\ \A l \in Recorded' : l.kind # "approved"
    <3>1. drained = {} /\ Recorded = {}
      BY <1>1, <1>4, <2>1, Zenon DEF Torn, FirstLines
    <3> QED  BY <1>1, <3>1, NothingApprovedFirst
  <2>2. ASSUME others' = 0, ~ledgerFailed', tail' # {}
        PROVE  drained' = {} /\ (\A l \in Recorded' : l.kind # "approved") /\ phase' = "append"
    <3>1. others = 0 /\ tail # {}
      BY <1>5, <2>2
    <3>2. ~ledgerFailed
      BY <1>5, <2>2, Zenon
    <3>3. drained = {} /\ \A l \in Recorded' : l.kind # "approved"
      BY <2>1, <3>1, <3>2
    <3> QED  BY <1>4, <1>5, <3>3
  <2> QED  BY <2>2, Zenon DEF FirstLines
<1>12. Torn'
  BY <1>1, <1>5, <1>11 DEF Torn, TearsCostOneLine
<1> QED  BY <1>2, <1>3, <1>4, <1>10, <1>12 DEF DaemonInv, Runs

\* reap_expired ticks the grants when no call runs.
LEMMA ReapKeeps ==
    ASSUME DaemonInv, NEW t \in Time, Reap(t)
    PROVE  DaemonInv' /\ NoneGranted
<1>1. /\ SshTick(Ticked(gate, t)) /\ JobsKeep /\ phase = "idle"
      /\ UNCHANGED <<phase, call, ledgerFailed, drained, persisted, ledger, tail, nextIdFile>>
      /\ UNCHANGED <<ceremony, told, lost, crashes, failures, others>>
  BY DEF Reap, lockVars, diskVars, boundVars
<1>2. Shared' /\ events \subseteq events' /\ jobEvents' = jobEvents /\ claims' = claims
  BY <1>1, GrantsOnly DEF DaemonInv, SshActs
<1>3. \A l \in events' : l \in events \/ l.kind = "timed_out"
  BY <1>1, TickEnds DEF SshTick
<1>4. NoneGranted
  BY <1>2, <1>3 DEF NoneGranted, Recorded
<1>5. DaemonTypeOK' /\ GrantsAreOnRecord'
  BY <1>1 DEF DaemonInv, OnDisk, DaemonTypeOK, GrantsAreOnRecord
<1>6. \A l \in Recorded' : l \in drained' \/ l.kind = "timed_out"
  BY <1>1, <1>2, <1>3 DEF DaemonInv, OnDisk, Recorded
<1>7. \A g \in call'.grants : FALSE
  BY <1>1 DEF DaemonInv, OnDisk
<1>8. Bounded(Readable') /\ (~ledgerFailed' => \A l \in drained' : Kept(l)')
      /\ nextIdFile' \in (Nat \ {0}) \cup {None}
  BY <1>1 DEF DaemonInv, OnDisk, Readable, Kept
<1>9. OnDisk'
  BY <1>1, <1>5, <1>6, <1>7, <1>8 DEF OnDisk
<1>10. Recorded # {}
  BY NothingPending DEF DaemonInv, Reap, Recorded
<1>11. FirstLines'
  BY <1>1, <1>10, Zenon DEF DaemonInv, Torn, FirstLines
<1>12. Torn'
  BY <1>1, <1>11 DEF DaemonInv, Torn, TearsCostOneLine
<1> QED  BY <1>2, <1>4, <1>9, <1>12 DEF DaemonInv

\* However much of what was recorded is written, the ids stay below some bound.
LEMMA WrittenIsBounded ==
    ASSUME Shared, OnDisk, NEW lines \in SUBSET (Readable \cup Recorded)
    PROVE  Bounded(lines)
<1>1. PICK n \in Nat : \A l \in Readable : l.id <= n
  BY DEF OnDisk, Bounded
<1>2. Readable \subseteq Lines \cup JobLines
  BY DEF OnDisk, DaemonTypeOK, Readable
<1>3. /\ nextId \in Nat /\ \A l \in Recorded : l.id \in Nat /\ l.id < nextId
      /\ \A l \in Readable : l.id \in Nat
  BY <1>2, RecordedIds, SharedIds DEF Lines, JobLines
<1>4. Later(n, nextId) \in Nat /\ n <= Later(n, nextId) /\ nextId <= Later(n, nextId)
  BY <1>1, <1>3 DEF Later
<1>5. \A l \in lines : l.id <= Later(n, nextId)
  BY <1>1, <1>3, <1>4
<1> QED  BY <1>4, <1>5 DEF Bounded

\* Whatever a write cut short leaves is some of what was recorded, after what
\* there was; and at most one torn line at the end.
LEMMA CutShortLeaves ==
    ASSUME Shared, OnDisk, CutShort
    PROVE  /\ ledger \subseteq ledger' /\ ledger' \subseteq Lines \cup JobLines
           /\ tail' = {} \/ \E x \in Lines \cup JobLines \cup {None} : tail' = {x}
           /\ Bounded(Readable')
<1> DEFINE ends == {{}} \cup {{x} : x \in Recorded \cup {None}}
<1>1. \E part \in SUBSET Recorded : \E glued, end :
          /\ end \in ends
          /\ \/ ledger' = ledger /\ tail' \in {tail, end, {None}}
             \/ ledger' = ledger \cup (part \ glued) /\ tail' = end
  <2>1. PICK part \in SUBSET Undrained, glued \in Glued :
            \E end \in {{}} \cup {{l} : l \in Undrained \ part}
                           \cup {{None} : l \in Undrained \ part} :
                \/ part = {} /\ end = {} /\ UNCHANGED <<ledger, tail>>
                \/ /\ part = {} /\ end # {} /\ UNCHANGED ledger
                   /\ tail' = IF tail = {} THEN end ELSE {None}
                \/ /\ part # {} /\ glued \subseteq part
                   /\ ledger' = ledger \cup (part \ glued)
                   /\ tail' = end
    BY Zenon DEF CutShort
  <2>2. PICK end \in {{}} \cup {{l} : l \in Undrained \ part}
                         \cup {{None} : l \in Undrained \ part} :
                \/ part = {} /\ end = {} /\ UNCHANGED <<ledger, tail>>
                \/ /\ part = {} /\ end # {} /\ UNCHANGED ledger
                   /\ tail' = IF tail = {} THEN end ELSE {None}
                \/ /\ part # {} /\ glued \subseteq part
                   /\ ledger' = ledger \cup (part \ glued)
                   /\ tail' = end
    BY <2>1
  <2>3. end \in ends /\ part \in SUBSET Recorded
    BY <2>1, <2>2 DEF Undrained
  <2>4. \/ ledger' = ledger /\ tail' \in {tail, end, {None}}
        \/ ledger' = ledger \cup (part \ glued) /\ tail' = end
    BY <2>2
  <2> QED  BY <2>3, <2>4, Zenon
<1> HIDE DEF ends
<1>2. ledger \subseteq ledger' /\ ledger' \subseteq ledger \cup Recorded
  BY <1>1
<1>3. tail' = tail \/ tail' = {} \/ \E x \in Recorded \cup {None} : tail' = {x}
  BY <1>1 DEF ends
<1>4. /\ Recorded \subseteq Lines \cup JobLines /\ ledger \subseteq Lines \cup JobLines
      /\ tail = {} \/ \E x \in Lines \cup JobLines \cup {None} : tail = {x}
  BY RecordedIds DEF OnDisk, DaemonTypeOK
<1>5. Readable' \subseteq Readable \cup Recorded
  BY <1>2, <1>3 DEF Readable
<1>6. Bounded(Readable')
  BY <1>5, WrittenIsBounded
<1> QED  BY <1>2, <1>3, <1>4, <1>6

\* append_ledger writes all that was recorded, but for a line a torn tail takes
\* with it, or some of it and an error.
LEMMA AppendKeeps ==
    ASSUME DaemonInv, AppendLedger
    PROVE  DaemonInv' /\ NoneGranted
<1>1. /\ UNCHANGED <<gate, nextId, call, persisted, nextIdFile, ceremony, told>>
      /\ crashes' = crashes /\ others' = others
      /\ SshKeeps /\ JobsKeep
  BY Zenon DEF AppendLedger, SshKeeps, JobsKeep
<1>2. Shared' /\ UNCHANGED <<events, jobEvents, claims>>
  BY <1>1, SameStep DEF DaemonInv, SshKeeps, JobsKeep, sshVars, jobVars
<1>3. Recorded' = Recorded /\ NoneGranted
  BY <1>2 DEF Recorded, NoneGranted
<1>4. Shared /\ OnDisk /\ Torn
  BY DEF DaemonInv
<1>5. /\ phase = "append" /\ phase' = "save" /\ drained' = drained \cup Recorded
      /\ \/ \E glued \in Glued :
               /\ ledger' = ledger \cup (Recorded \ (drained \cup glued))
               /\ lost' = lost \cup glued
               /\ tail' = IF Undrained = {} THEN tail ELSE {}
               /\ UNCHANGED <<ledgerFailed, failures>>
         \/ /\ <<crashes, failures + 1, others>> \in Faults
            /\ CutShort /\ lost' = lost
            /\ ledgerFailed' = TRUE
            /\ failures' = failures + 1
  BY Zenon DEF AppendLedger, Takes
<1>6. /\ crashes \in Nat /\ failures \in Nat /\ others \in Nat /\ Cardinality(lost) \in Nat
      /\ Cardinality(tail) = (IF tail = {} THEN 0 ELSE 1)
      /\ Cardinality(lost) + Cardinality(tail) <= crashes + failures + others
      /\ <<crashes, failures, others>> \in Faults
  BY <1>4, TearCounts DEF OnDisk, DaemonTypeOK
<1>7. /\ Recorded \subseteq Lines \cup JobLines /\ ledger \cup lost \subseteq Lines \cup JobLines
      /\ tail = {} \/ \E x \in Lines \cup JobLines \cup {None} : tail = {x}
  BY <1>4, RecordedIds DEF OnDisk, DaemonTypeOK
<1>8. ASSUME NEW glued \in Glued,
             ledger' = ledger \cup (Recorded \ (drained \cup glued)),
             lost' = lost \cup glued,
             tail' = IF Undrained = {} THEN tail ELSE {},
             UNCHANGED <<ledgerFailed, failures>>
      PROVE  /\ DaemonTypeOK' /\ Bounded(Readable') /\ Torn'
             /\ ~ledgerFailed' => \A l \in drained' : Kept(l)'
             /\ ledger \subseteq ledger' /\ lost \subseteq lost'
  <2>1. /\ ledger' = ledger \cup (Recorded \ (drained \cup glued))
        /\ lost' = lost \cup glued
        /\ tail' = IF Undrained = {} THEN tail ELSE {}
        /\ ledgerFailed' = ledgerFailed /\ failures' = failures
    BY <1>8
  <2>2. /\ glued = {} \/ \E l \in Undrained : glued = {l}
        /\ glued # {} => tail # {} /\ Undrained # {}
    BY <1>8 DEF Glued
  <2>3. Undrained = Recorded \ drained
    BY DEF Undrained
  <2>4. /\ ledger \subseteq ledger' /\ lost \subseteq lost'
        /\ ledger' \cup lost' \subseteq Lines \cup JobLines
        /\ tail' = {} \/ \E x \in Lines \cup JobLines \cup {None} : tail' = {x}
    BY <1>7, <2>1, <2>2, <2>3
  <2>5. Bounded(Readable')
    <3>1. Readable' \subseteq Readable \cup Recorded
      BY <2>1 DEF Readable
    <3> QED  BY <1>4, <3>1, WrittenIsBounded
  <2>6. DaemonTypeOK'
    <3>1. ledgerFailed' \in BOOLEAN
      BY <1>4, <2>1, Zenon DEF OnDisk, DaemonTypeOK
    <3>2. <<crashes', failures', others'>> \in Faults
      BY <1>1, <1>6, <2>1
    <3> QED  BY <1>1, <1>4, <1>5, <1>7, <2>4, <3>1, <3>2 DEF OnDisk, DaemonTypeOK
  <2>7. ~ledgerFailed' => \A l \in drained' : Kept(l)'
    <3> SUFFICES ASSUME ~ledgerFailed', NEW l \in drained' PROVE Kept(l)'
      OBVIOUS
    <3>1. ~ledgerFailed
      BY <2>1
    <3>2. CASE l \in drained
      <4>1. Kept(l)
        BY <1>4, <3>1, <3>2 DEF OnDisk
      <4>2. (l \in ledger => l \in ledger') /\ (l \in lost => l \in lost') /\ others' = others
        BY <1>1, <2>4
      <4> QED  BY <4>1, <4>2, Zenon DEF Kept
    <3>3. CASE l \in Recorded \ drained /\ l \in glued
      <4>1. others = 0 => l.kind # "approved"
        BY <1>4, <2>2, <3>1, <3>3, Zenon DEF Torn, FirstLines
      <4> QED  BY <1>1, <2>1, <3>3, <4>1 DEF Kept
    <3>4. CASE l \in Recorded \ drained /\ l \notin glued
      BY <2>1, <3>4 DEF Kept
    <3> QED  BY <1>5, <3>2, <3>3, <3>4
  <2>8. Torn'
    <3>1. /\ IsFiniteSet(lost')
          /\ Cardinality(lost') <= Cardinality(lost) + (IF glued = {} THEN 0 ELSE 1)
          /\ Cardinality(lost') \in Nat
      <4>1. IsFiniteSet(lost)
        BY <1>4 DEF Torn
      <4>2. CASE glued = {}
        BY <1>6, <2>1, <4>1, <4>2
      <4>3. ASSUME NEW l, glued = {l}
            PROVE  /\ IsFiniteSet(lost') /\ Cardinality(lost') \in Nat
                   /\ Cardinality(lost') <= Cardinality(lost) + 1
        <5>1. /\ lost' = lost \cup {l} /\ IsFiniteSet(lost \cup {l})
              /\ Cardinality(lost \cup {l}) \in {Cardinality(lost), Cardinality(lost) + 1}
          BY <2>1, <4>1, <4>3, FS_AddElement
        <5>2. Cardinality(lost \cup {l}) \in Nat
          BY <5>1, FS_CardinalityType
        <5> QED  BY <1>6, <5>1, <5>2
      <4> QED  BY <2>2, <4>2, <4>3
    <3>2. Cardinality(tail') = IF tail' = {} THEN 0 ELSE 1
      BY <2>4, TailCounts
    <3>3. glued # {} => tail' = {}
      BY <2>1, <2>2
    <3>4. Cardinality(lost') + Cardinality(tail') <= crashes + failures + others
      BY <1>6, <2>1, <2>2, <3>1, <3>2, <3>3
    <3>5. TearsCostOneLine'
      BY <1>1, <2>1, <3>4 DEF TearsCostOneLine
    <3>6. ASSUME others' = 0, ~ledgerFailed', tail' # {}
          PROVE  drained' = {} /\ Recorded' = {}
      <4>1. Undrained = {} /\ tail # {} /\ others = 0 /\ ~ledgerFailed
        BY <1>1, <2>1, <3>6
      <4>2. drained = {}
        BY <1>4, <4>1, Zenon DEF Torn, FirstLines
      <4> QED  BY <1>3, <1>5, <2>3, <4>1, <4>2
    <3>7. FirstLines'
      BY <3>6, Zenon DEF FirstLines
    <3> QED  BY <3>1, <3>5, <3>7 DEF Torn
  <2> QED  BY <1>4, <2>4, <2>5, <2>6, <2>7, <2>8
<1>9. ASSUME <<crashes, failures + 1, others>> \in Faults, CutShort, lost' = lost,
             ledgerFailed' = TRUE, failures' = failures + 1
      PROVE  /\ DaemonTypeOK' /\ Bounded(Readable') /\ Torn'
             /\ ~ledgerFailed' => \A l \in drained' : Kept(l)'
             /\ ledger \subseteq ledger' /\ lost \subseteq lost'
  <2>1. /\ ledger \subseteq ledger' /\ ledger' \subseteq Lines \cup JobLines
        /\ tail' = {} \/ \E x \in Lines \cup JobLines \cup {None} : tail' = {x}
        /\ Bounded(Readable')
    BY <1>4, <1>9, CutShortLeaves
  <2>2. DaemonTypeOK'
    BY <1>1, <1>4, <1>5, <1>7, <1>9, <2>1 DEF OnDisk, DaemonTypeOK
  <2>3. Torn'
    <3>1. Cardinality(tail') <= 1 /\ Cardinality(tail') \in Nat
      BY <2>1, TailCounts
    <3>2. Cardinality(lost) <= crashes + failures + others
      BY <1>6
    <3>3. Cardinality(lost) + Cardinality(tail') <= crashes + (failures + 1) + others
      BY <1>6, <3>1, <3>2
    <3>4. FirstLines'
      BY <1>9, Zenon DEF FirstLines
    <3> QED  BY <1>1, <1>4, <1>9, <3>3, <3>4 DEF Torn, TearsCostOneLine
  <2> QED  BY <1>9, <2>1, <2>2, <2>3
<1>10. /\ DaemonTypeOK' /\ Bounded(Readable') /\ Torn'
       /\ ~ledgerFailed' => \A l \in drained' : Kept(l)'
       /\ ledger \subseteq ledger' /\ lost \subseteq lost'
  <2>1. CASE \E glued \in Glued :
                /\ ledger' = ledger \cup (Recorded \ (drained \cup glued))
                /\ lost' = lost \cup glued
                /\ tail' = IF Undrained = {} THEN tail ELSE {}
                /\ UNCHANGED <<ledgerFailed, failures>>
    BY <1>8, <2>1, Zenon
  <2>2. CASE /\ <<crashes, failures + 1, others>> \in Faults
             /\ CutShort /\ lost' = lost
             /\ ledgerFailed' = TRUE
             /\ failures' = failures + 1
    BY <1>9, <2>2, Zenon
  <2> QED  BY <1>5, <2>1, <2>2, Zenon
<1>11. GrantsAreOnRecord'
  BY <1>1, <1>4, <1>10, RecordStands DEF OnDisk
<1>12. \A g \in call'.grants : \E a \in Recorded' : a.kind = "approved" /\ a.id = g[2]
  BY <1>1, <1>3, <1>4 DEF OnDisk
<1>13. OnDisk'
  BY <1>1, <1>3, <1>4, <1>5, <1>10, <1>11, <1>12 DEF OnDisk
<1> QED  BY <1>2, <1>3, <1>10, <1>13 DEF DaemonInv

\* The end of a call: the counter, the badge and the answer.
LEMMA SaveKeeps ==
    ASSUME DaemonInv, NEW t \in Time, SaveNextId(t)
    PROVE  DaemonInv' /\ NoneGranted
<1>1. Shared /\ OnDisk /\ Torn
  BY DEF DaemonInv
<1>2. /\ phase = "save" /\ phase' = "idle" /\ call' = NoCall
      /\ told' = IF Answered THEN told \cup call.grants ELSE told
      /\ SshTick(Ticked(gate, t)) /\ jobsHighWater' = Later(t, jobsHighWater)
      /\ UNCHANGED <<entries, trusted, jobEvents, claims>>
      /\ UNCHANGED <<drained, ledger, tail, ceremony, lost, crashes, others>>
  BY DEF SaveNextId
<1>3. \/ /\ nextIdFile' \in {nextId, nextIdFile} /\ persisted' = nextId
         /\ ledgerFailed' = ledgerFailed /\ failures' = failures
      \/ /\ nextIdFile' = nextIdFile /\ persisted' = persisted
         /\ ledgerFailed' = TRUE /\ failures' = failures + 1
         /\ <<crashes, failures + 1, others>> \in Faults
  BY DEF SaveNextId
<1>4. Shared' /\ events \subseteq events'
  BY <1>1, <1>2, BadgeStep
<1>5. \A l \in Recorded' : l \in Recorded \/ l.kind = "timed_out"
  BY <1>2, TickEnds DEF SshTick, Recorded
<1>6. NoneGranted
  BY <1>2, <1>5 DEF NoneGranted
<1>7. nextId \in Nat \ {0}
  BY <1>1, SharedIds
<1>8. DaemonTypeOK'
  <2>1. <<crashes', failures', others'>> \in Faults
    BY <1>1, <1>2, <1>3 DEF OnDisk, DaemonTypeOK
  <2>2. ledgerFailed' \in BOOLEAN
    <3>1. ledgerFailed \in BOOLEAN
      BY <1>1 DEF OnDisk, DaemonTypeOK
    <3>2. ledgerFailed' = ledgerFailed \/ ledgerFailed' = TRUE
      BY <1>3, Zenon
    <3> QED  BY <3>1, <3>2, Zenon
  <2>3. persisted' \in Nat \ {0} /\ nextIdFile' \in Nat \cup {None}
    BY <1>1, <1>3, <1>7 DEF OnDisk, DaemonTypeOK
  <2> QED  BY <1>1, <1>2, <2>1, <2>2, <2>3 DEF OnDisk, DaemonTypeOK, NoCall
<1>9. nextIdFile' \in (Nat \ {0}) \cup {None} /\ Bounded(Readable')
  BY <1>1, <1>2, <1>3, <1>7 DEF OnDisk, Readable
<1>10. ~ledgerFailed' => ~ledgerFailed /\ \A l \in drained : Kept(l) /\ Kept(l)'
  BY <1>1, <1>2, <1>3 DEF OnDisk, Kept
<1>11. Recorded \subseteq drained
  BY <1>1, <1>2 DEF OnDisk
<1>12. GrantsAreOnRecord'
  <2> DEFINE shown == ledger \cup (IF others = 0 THEN {} ELSE lost)
  <2>1. ASSUME NEW g \in call.grants, Answered
        PROVE  \E l \in shown : l.kind = "approved" /\ l.id = g[2]
    <3>1. PICK a \in Recorded : a.kind = "approved" /\ a.id = g[2]
      BY <1>1, <2>1 DEF OnDisk
    <3>2. Kept(a)
      BY <1>10, <1>11, <2>1, <3>1 DEF Answered
    <3> QED  BY <3>1, <3>2 DEF Kept
  <2>2. \A g \in told : \E l \in shown : l.kind = "approved" /\ l.id = g[2]
    BY <1>1 DEF OnDisk, GrantsAreOnRecord
  <2> HIDE DEF shown
  <2>3. \A g \in told' : \E l \in shown : l.kind = "approved" /\ l.id = g[2]
    BY <1>2, <2>1, <2>2
  <2> QED  BY <1>2, <2>3 DEF GrantsAreOnRecord, shown
<1>13. OnDisk'
  BY <1>2, <1>5, <1>8, <1>9, <1>10, <1>11, <1>12 DEF OnDisk, NoCall
<1>14. Torn'
  <2>1. /\ crashes \in Nat /\ failures \in Nat /\ others \in Nat /\ Cardinality(lost) \in Nat
        /\ Cardinality(tail) \in Nat
    BY <1>1, TearCounts DEF OnDisk
  <2>2. failures' \in Nat /\ failures <= failures'
    BY <1>3, <2>1
  <2>3. ASSUME others' = 0, ~ledgerFailed', tail' # {}
        PROVE  drained' = {} /\ Recorded' = {}
    <3>1. others = 0 /\ ~ledgerFailed /\ tail # {} /\ phase # "append"
      BY <1>2, <1>10, <2>3
    <3>2. drained = {} /\ Recorded = {}
      BY <1>1, <3>1, Zenon DEF Torn, FirstLines
    <3>3. events = {} /\ jobEvents = {} /\ pending = None
      BY <1>1, <3>2, NothingPending DEF Recorded
    <3>4. Recorded' = {}
      BY <1>2, <3>3 DEF SshTick, OnlyTicked, Ticked, TimeoutLines, Lapsed, Recorded
    <3> QED  BY <1>2, <3>2, <3>4
  <2>4. FirstLines'
    BY <2>3, Zenon DEF FirstLines
  <2> QED  BY <1>1, <1>2, <2>1, <2>2, <2>4, SameTears
<1> QED  BY <1>4, <1>6, <1>13, <1>14 DEF DaemonInv

\* Another program appends to the file while the daemon runs, or is down.
LEMMA ConsoleKeeps ==
    ASSUME DaemonInv, ConsoleAppends
    PROVE  DaemonInv' /\ NoneGranted
<1>1. Shared /\ OnDisk /\ Torn
  BY DEF DaemonInv
<1>2. /\ UNCHANGED <<gate, nextId, phase, call, ledgerFailed, drained, persisted>>
      /\ UNCHANGED <<ledger, nextIdFile, ceremony, told, lost, crashes, failures>>
      /\ SshKeeps /\ JobsKeep
      /\ \/ tail' = {} /\ others' = others
         \/ tail' = {None} /\ others' = others + 1 /\ <<crashes, failures, others + 1>> \in Faults
  BY DEF ConsoleAppends, lockVars, SshKeeps, JobsKeep
<1>3. Shared'
  BY <1>1, <1>2, SameStep
<1>4. /\ UNCHANGED <<events, jobEvents, claims, highWater, pending, windows, signed, certs>>
      /\ UNCHANGED <<jobsHighWater, entries>>
  BY <1>2 DEF SshKeeps, JobsKeep, sshVars, jobVars
<1>5. Recorded' = Recorded /\ NoneGranted
  BY <1>4 DEF Recorded, NoneGranted
<1>6. /\ crashes \in Nat /\ failures \in Nat /\ others \in Nat /\ Cardinality(lost) \in Nat
      /\ Cardinality(lost) <= crashes + failures + others
      /\ Cardinality(lost) + Cardinality(tail) <= crashes + failures + others
  BY <1>1, TearCounts DEF OnDisk
<1>7. others' = 0 => others = 0 /\ tail' = {}
  BY <1>2, <1>6
<1>8. DaemonTypeOK' /\ GrantsAreOnRecord' /\ (phase' = "down" => Blank')
  <2>1. <<crashes', failures', others'>> \in Faults
        /\ (tail' = {} \/ \E x \in Lines \cup JobLines \cup {None} : tail' = {x})
    BY <1>1, <1>2 DEF OnDisk, DaemonTypeOK
  <2>2. DaemonTypeOK'
    BY <1>1, <1>2, <2>1 DEF OnDisk, DaemonTypeOK
  <2>3. GrantsAreOnRecord'
    BY <1>1, <1>2, <1>7, RecordStands DEF OnDisk
  <2> QED  BY <1>1, <1>2, <1>4, <2>2, <2>3 DEF OnDisk, Blank
<1>9. Bounded(Readable')
  <2>1. Readable' \subseteq Readable \cup Recorded
    BY <1>2 DEF Readable
  <2> QED  BY <1>1, <2>1, WrittenIsBounded
<1>10. ~ledgerFailed' => \A l \in drained' : Kept(l)'
  BY <1>1, <1>2, <1>7 DEF OnDisk, Kept
<1>11. OnDisk'
  BY <1>1, <1>2, <1>5, <1>8, <1>9, <1>10 DEF OnDisk
<1>12. Torn'
  <2>1. Cardinality(tail') <= (IF tail' = {} THEN 0 ELSE 1) /\ Cardinality(tail') \in Nat
    BY <1>2, TailCounts
  <2>2. TearsCostOneLine'
    <3>1. CASE tail' = {} /\ others' = others
      BY <1>2, <1>6, <2>1, <3>1 DEF TearsCostOneLine
    <3>2. CASE tail' = {None} /\ others' = others + 1
      BY <1>2, <1>6, <2>1, <3>2 DEF TearsCostOneLine
    <3> QED  BY <1>2, <3>1, <3>2
  <2>3. FirstLines'
    BY <1>7, Zenon DEF FirstLines
  <2> QED  BY <1>1, <1>2, <2>2, <2>3 DEF Torn
<1> QED  BY <1>3, <1>5, <1>11, <1>12 DEF DaemonInv

\* What the process had in memory is gone; what it was writing may be there.
LEMMA CrashKeeps ==
    ASSUME DaemonInv, Crash
    PROVE  DaemonInv' /\ NoneGranted
<1>1. Shared /\ OnDisk /\ Torn
  BY DEF DaemonInv
<1>2. /\ <<crashes + 1, failures, others>> \in Faults /\ crashes' = crashes + 1
      /\ phase' = "down" /\ ceremony' = None /\ call' = NoCall /\ ledgerFailed' = FALSE
      /\ UNCHANGED <<nextId, persisted, trusted, nextIdFile, told, lost, failures, others>>
      /\ CutShort \/ UNCHANGED <<ledger, tail>>
  BY Zenon DEF Crash
<1>3. Blank'
  BY DEF Crash, Blank
<1>4. Shared'
  <2>1. nextId' \in Nat \ {0} /\ trusted' \in [Projects -> Revisions \cup {None}]
    BY <1>1, <1>2, SharedIds
  <2> QED  BY <1>3, <2>1, BlankShared
<1>5. Recorded' = {} /\ NoneGranted
  BY <1>3 DEF Blank, Recorded, NoneGranted
<1>6. /\ ledger \subseteq ledger' /\ ledger' \subseteq Lines \cup JobLines
      /\ tail' = {} \/ \E x \in Lines \cup JobLines \cup {None} : tail' = {x}
      /\ Bounded(Readable')
  <2>1. CASE CutShort
    BY <1>1, <2>1, CutShortLeaves
  <2>2. CASE UNCHANGED <<ledger, tail>>
    BY <1>1, <2>2 DEF OnDisk, DaemonTypeOK, Readable
  <2> QED  BY <1>2, <2>1, <2>2
<1>7. DaemonTypeOK'
  BY <1>1, <1>2, <1>3, <1>6 DEF OnDisk, DaemonTypeOK, NoCall, Blank
<1>8. GrantsAreOnRecord'
  BY <1>1, <1>2, <1>6, RecordStands DEF OnDisk
<1>9. OnDisk'
  BY <1>1, <1>2, <1>3, <1>6, <1>7, <1>8 DEF OnDisk, NoCall, Blank
<1>10. Torn'
  <2>1. Cardinality(tail') <= 1 /\ Cardinality(tail') \in Nat
    BY <1>6, TailCounts
  <2>2. /\ crashes \in Nat /\ failures \in Nat /\ others \in Nat /\ Cardinality(lost) \in Nat
        /\ Cardinality(lost) <= crashes + failures + others
    BY <1>1, TearCounts DEF OnDisk
  <2>3. TearsCostOneLine'
    BY <1>2, <2>1, <2>2 DEF TearsCostOneLine
  <2>4. FirstLines'
    BY <1>2, <1>3, <1>5 DEF FirstLines, Blank
  <2> QED  BY <1>1, <1>2, <2>3, <2>4 DEF Torn
<1> QED  BY <1>4, <1>5, <1>9, <1>10 DEF DaemonInv

\* Daemon::new takes up the counter.
LEMMA BootKeeps ==
    ASSUME DaemonInv, Boot
    PROVE  DaemonInv' /\ NoneGranted
<1>1. Shared /\ OnDisk /\ Torn
  BY DEF DaemonInv
<1>2. /\ phase = "down" /\ phase' = "idle" /\ nextId' = LoadNextId /\ persisted' = LoadNextId
      /\ UNCHANGED <<call, ledgerFailed, drained, ledger, tail, nextIdFile, ceremony, told>>
      /\ UNCHANGED <<lost, crashes, failures, others>>
  BY DEF Boot, diskVars, boundVars
<1>3. Blank /\ Blank' /\ trusted' = trusted
  BY <1>1, <1>2 DEF OnDisk, Blank, Boot, sshVars, jobVars
<1>4. LoadNextId \in Nat \ {0}
  <2>1. Readable \subseteq Lines \cup JobLines
    BY <1>1 DEF OnDisk, DaemonTypeOK, Readable
  <2>2. HighestId(Readable) \in Nat
    BY <1>1, <2>1, HighestIsNat DEF OnDisk
  <2>3. nextIdFile \in (Nat \ {0}) \cup {None}
    BY <1>1 DEF OnDisk
  <2> QED  BY <2>2, <2>3 DEF LoadNextId
<1>5. Shared'
  <2>1. trusted' \in [Projects -> Revisions \cup {None}]
    BY <1>1, <1>3, SharedIds
  <2> QED  BY <1>2, <1>3, <1>4, <2>1, BlankShared
<1>6. Recorded' = {} /\ NoneGranted
  BY <1>3 DEF Blank, Recorded, NoneGranted
<1>7. DaemonTypeOK' /\ GrantsAreOnRecord'
  BY <1>1, <1>2, <1>4 DEF OnDisk, DaemonTypeOK, GrantsAreOnRecord
<1>8. \A g \in call'.grants : FALSE
  BY <1>1, <1>2 DEF OnDisk
<1>9. OnDisk'
  BY <1>1, <1>2, <1>6, <1>7, <1>8 DEF OnDisk, Readable, Kept
<1>10. Torn'
  BY <1>1, <1>2, <1>3, <1>6 DEF Torn, TearsCostOneLine, FirstLines, Blank
<1> QED  BY <1>5, <1>6, <1>9, <1>10 DEF DaemonInv

----------------------------------------------------------------------------
\* A daemon not yet started, with a ledger of an earlier version or none.
LEMMA DaemonInitHolds == DaemonInit => DaemonInv
<1> SUFFICES ASSUME DaemonInit PROVE DaemonInv
  OBVIOUS
<1>1. Blank /\ nextId = 1
  BY DEF DaemonInit, GrantsInit, Blank
<1>2. JobsInv
  BY <1>1, InitInv DEF DaemonInit, JobsInit, Blank
<1>3. SoundWith(gate)
  BY InitIsSound DEF DaemonInit, IInv
<1>4. Shared
  BY <1>1, <1>2, <1>3 DEF Shared, Blank, EmptyGate, OneHolder, AskedIn, AskedJobs, IssuedStand
<1>5. /\ ledger \subseteq Lines \cup JobLines /\ IsFiniteSet(ledger)
      /\ tail = {} /\ lost = {} /\ crashes = 0 /\ failures = 0 /\ others = 0
  BY DaemonAssumption DEF DaemonInit
<1>6. Bounded(Readable)
  BY <1>5, FiniteIsBounded DEF Readable
<1>7. DaemonTypeOK
  <2>1. <<crashes, failures, others>> \in Faults
    BY <1>5, DaemonAssumption
  <2>2. nextIdFile \in Nat \cup {None} /\ persisted \in Nat \ {0}
    BY DEF DaemonInit
  <2>3. ceremony = None /\ drained = {} /\ phase = "down" /\ ledgerFailed = FALSE
        /\ call.audited = FALSE
    BY Zenon DEF DaemonInit, NoCall
  <2> QED  BY <1>5, <2>1, <2>2, <2>3 DEF DaemonTypeOK
<1>8. OnDisk
  BY <1>1, <1>6, <1>7 DEF DaemonInit, OnDisk, GrantsAreOnRecord, NoCall
<1>9. Torn
  BY <1>5, FS_EmptySet DEF Torn, TearsCostOneLine, FirstLines
<1> QED  BY <1>4, <1>8, <1>9 DEF DaemonInv

\* Every step of the daemon, a crash included, keeps the invariant, and once a
\* write has failed grants nothing.
LEMMA DaemonStep ==
    ASSUME DaemonInv, [DaemonNext]_daemonVars
    PROVE  DaemonInv' /\ (ledgerFailed => NoneGranted)
<1>1. ASSUME NEW t \in ClockReadings, Handler(t) \/ Reap(t) \/ SaveNextId(t)
      PROVE  DaemonInv' /\ (ledgerFailed => NoneGranted)
  <2>1. t \in Time
    BY DEF ClockReadings
  <2> QED  BY <1>1, <2>1, HandlerKeeps, ReapKeeps, SaveKeeps
<1>2. CASE AppendLedger \/ ConsoleAppends \/ Crash \/ Boot
  BY <1>2, AppendKeeps, ConsoleKeeps, CrashKeeps, BootKeeps
<1>3. CASE UNCHANGED daemonVars
  <2>1. /\ UNCHANGED <<gate, nextId, phase, call, ledgerFailed, drained, persisted>>
        /\ UNCHANGED <<ledger, tail, nextIdFile, ceremony, told, lost, crashes, failures, others>>
        /\ SshKeeps /\ JobsKeep
    BY <1>3 DEF daemonVars, lockVars, diskVars, boundVars, SshKeeps, JobsKeep
  <2>2. Shared'
    BY <2>1, SameStep DEF DaemonInv
  <2>3. /\ UNCHANGED <<events, jobEvents, claims, highWater, pending, windows, signed, certs>>
        /\ UNCHANGED <<jobsHighWater, entries>>
    BY <2>1 DEF SshKeeps, JobsKeep, sshVars, jobVars
  <2>4. Recorded' = Recorded /\ NoneGranted
    BY <2>3 DEF Recorded, NoneGranted
  <2>5. DaemonTypeOK' /\ GrantsAreOnRecord' /\ (phase' = "down" => Blank')
    BY <2>1, <2>3 DEF DaemonInv, OnDisk, DaemonTypeOK, GrantsAreOnRecord, Blank
  <2>6. OnDisk'
    BY <2>1, <2>4, <2>5 DEF DaemonInv, OnDisk, Bounded, Readable, Kept
  <2>7. Torn'
    BY <2>1, <2>4 DEF DaemonInv, Torn, TearsCostOneLine, FirstLines
  <2> QED  BY <2>2, <2>4, <2>6, <2>7 DEF DaemonInv
<1> QED  BY <1>1, <1>2, <1>3, Zenon DEF DaemonNext

LEMMA DaemonInvHolds == DaemonSpec => []DaemonInv
<1>1. DaemonInv /\ [DaemonNext]_daemonVars => DaemonInv'
  BY DaemonStep
<1> QED  BY <1>1, DaemonInitHolds, PTL DEF DaemonSpec

\* What the two state machines know of their halves of the slot is what the
\* daemon promises of the whole.
LEMMA SlotIsOne ==
    ASSUME Shared
    PROVE  OneQuestionAtATime
<1>1. gate \in Gates /\ Slotted(pending, gate)
  BY DEF Shared, SoundWith, Sound, Typed
<1>2. HoldOf("job", gate) = HoldingJobs
  BY HeldIs, SharedIds DEF HeldParts, Good, JSlotted, Holders, HoldingJobs
<1>3. gate.occupant = HoldOf("ssh", gate) \cup HoldOf("job", gate)
  BY <1>1, SlotParts
<1>4. gate.occupant = HoldingJobs \cup (IF pending = None THEN {} ELSE {<<"ssh", pending.id>>})
  BY <1>1, <1>2, <1>3 DEF Slotted
<1>5. Cardinality(gate.occupant) <= 1
  <2>1. gate.occupant = {} \/ \E o : gate.occupant = {o}
    BY DEF Shared, OneHolder
  <2>2. Cardinality(gate.occupant) \in {0, 1}
    BY <2>1, FS_EmptySet, FS_Singleton
  <2> QED  BY <2>2
<1> QED  BY <1>4, <1>5 DEF OneQuestionAtATime

LEMMA IdsAreOfOneCounter ==
    ASSUME Shared
    PROVE  IdsAreShared
<1>1. Accepted = AskedIn(events) \cup AskedJobs
  BY DEF Accepted, Recorded, AskedIn, AskedJobs
<1>2. \A k, l \in Accepted : k.id = l.id => k = l
  BY <1>1 DEF Shared
<1>3. pending # None => \E r \in AskedIn(events) : r.id = pending.id
  BY DEF Shared, SoundWith, Sound, Dated
<1>4. \A e \in entries : pending # None => pending.id # e.id
  BY <1>3 DEF Shared
<1> QED  BY <1>2, <1>4 DEF IdsAreShared

\* SSH requests and jobs, each kept by a state machine that knows nothing of the
\* other (`Grants`, `Jobs`), share one slot - so the person is asked one question
\* at a time - and one counter of ids, whatever call comes when and whatever
\* fails (server.rs, `Daemon`; Grants::gate_mut, Grants::allocate_id).
THEOREM GrantsAndJobsShare == DaemonSpec => []SharedSoundly
<1>1. DaemonInv => SharedSoundly
  BY SlotIsOne, IdsAreOfOneCounter DEF DaemonInv, OnDisk, SharedSoundly
<1> QED  BY <1>1, DaemonInvHolds, PTL

\* The ledger has every line recorded, but for a timeout that the badge or the
\* reaper saw first and what torn tails took with them, when no call runs and no
\* write has failed; that is one line for each write that a crash or an error
\* cut short; and there is an approval for whatever a caller was told is
\* granted, whatever crashes and fails, unless another program tore the file
\* (server.rs, `audited`, drain_and_append; store.rs, append_ledger).
THEOREM LedgerTellsTheTruth == DaemonSpec => []LedgerIsTrue
<1>1. DaemonInv => LedgerIsTrue
  <2> SUFFICES ASSUME DaemonInv PROVE LedgerIsTrue
    OBVIOUS
  <2>1. ASSUME phase = "idle", ~ledgerFailed, NEW l \in Recorded
        PROVE  l \in ledger \cup lost \/ l.kind = "timed_out"
    BY <2>1 DEF DaemonInv, OnDisk, Kept
  <2>2. GrantsAreOnRecord /\ TearsCostOneLine
    BY DEF DaemonInv, OnDisk, Torn
  <2> QED  BY <2>1, <2>2 DEF LedgerIsTrue, LedgerIsComplete
<1> QED  BY <1>1, DaemonInvHolds, PTL

\* Once a write to the ledger or of the counter has failed, the daemon grants
\* nothing more in its life: nothing is asked of a person, approved or signed,
\* and no job is handed out (server.rs, `audited`, ledger_unavailable).
THEOREM FailedWriteStopsGrants == DaemonSpec => NothingGrantedUnrecorded
<1>1. DaemonInv /\ [DaemonNext]_daemonVars => [ledgerFailed => NoneGranted]_daemonVars
  BY DaemonStep
<1>2. DaemonSpec => [][ledgerFailed => NoneGranted]_daemonVars
  BY <1>1, DaemonInvHolds, PTL DEF DaemonSpec
<1> QED  BY <1>2 DEF NothingGrantedUnrecorded, NoneGranted

----------------------------------------------------------------------------
(* How often a person is asked.  Each of the two looks at the gate by its own *)
(* clock; what they share of it holds at the later of the two.                *)

\* What Jobs needs to know of the SSH side, and Grants of the jobs'.
SshSide(late, now, es) ==
    [late |-> late, back |-> MaxStepBack, now |-> now,
     asked |-> AskedIn(es), struck |-> UnapprovedIn(es), granted |-> ApprovedIn(es)]
JobSide(late, ev) ==
    [late |-> late, back |-> MaxStepBack,
     asked |-> FiledLines(ev), struck |-> StruckLines(ev), granted |-> GrantedLines(ev)]

Limits == Sharing(SshSide(Later(highWater, jobsHighWater), jobsHighWater, events), Held)

\* The later of the two clocks, with the reading t.
Reach(t) == Later(t, Later(highWater, jobsHighWater))

LEMMA ReachParts ==
    ASSUME Shared, NEW t \in ClockReadings
    PROVE  /\ Reach(t) \in Nat /\ t \in Nat /\ highWater \in Nat /\ jobsHighWater \in Nat
           /\ MaxStepBack \in Nat
           /\ Later(highWater, jobsHighWater) \in Nat
           /\ Later(highWater, jobsHighWater) <= Reach(t)
           /\ Clamped(t) \in Nat /\ Clamped(t) <= Reach(t)
           /\ Reach(t) <= Clamped(t) + MaxStepBack
           /\ Later(t, jobsHighWater) \in Nat /\ Later(t, jobsHighWater) <= Reach(t)
           /\ Reach(t) <= Later(t, jobsHighWater) + MaxStepBack
           /\ jobsHighWater <= Later(t, jobsHighWater)
<1>1. t \in Nat /\ t + MaxStepBack >= Later(highWater, jobsHighWater) /\ MaxStepBack \in Nat
  BY GateAssumption, DaemonAssumption DEF ClockReadings
<1>2. highWater \in Nat
  BY SoundParts DEF Shared
<1>3. jobsHighWater \in Nat
  <2>1. Good(Held, nextId, claims) /\ Held.now = jobsHighWater
    BY SharedIds, HeldIs DEF HeldParts
  <2> QED  BY <2>1, GoodParts
<1> QED  BY <1>1, <1>2, <1>3 DEF Reach, Later, Clamped

\* Time passes, for the one who looks on.
LEMMA SharingLater ==
    ASSUME NEW j, NEW es, NEW late \in Nat, NEW later \in Nat, late <= later,
           NEW now, NEW now2 \in Nat, now2 <= j.now, Sharing(SshSide(late, now, es), j)
    PROVE  Sharing(SshSide(later, now2, es), j)
<1> DEFINE x == SshSide(late, now, es)
           y == SshSide(later, now2, es)
<1>1. /\ x.late = late /\ x.back = MaxStepBack /\ x.asked = AskedIn(es)
      /\ x.struck = UnapprovedIn(es) /\ x.granted = ApprovedIn(es)
      /\ y.late = later /\ y.back = MaxStepBack /\ y.asked = AskedIn(es)
      /\ y.struck = UnapprovedIn(es) /\ y.granted = ApprovedIn(es) /\ y.now = now2
  BY DEF SshSide
<1> HIDE DEF x, y
<1>2. Sharing(x, j)
  BY DEF x
<1>3. Metered(y.late, y.back, j.gate, y.asked \cup FiledLines(j.events),
              y.struck \cup StruckLines(j.events), y.granted \cup GrantedLines(j.events))
  <2> DEFINE A == x.asked \cup FiledLines(j.events)
             U == x.struck \cup StruckLines(j.events)
             P == x.granted \cup GrantedLines(j.events)
  <2>1. Metered(late, MaxStepBack, j.gate, A, U, P)
    BY <1>1, <1>2 DEF Sharing
  <2> HIDE DEF A, U, P
  <2>2. Metered(later, MaxStepBack, j.gate, A, U, P)
    BY <2>1, MeteredLater
  <2> QED  BY <1>1, <2>2 DEF A, U, P
<1>4. Sharing(y, j)
  BY <1>1, <1>2, <1>3 DEF Sharing
<1> QED  BY <1>4 DEF y

\* Where a call starts.
LEMMA StartsShared ==
    ASSUME Shared, Limits, NEW t \in ClockReadings
    PROVE  LET x == SshSide(Reach(t), Later(t, jobsHighWater), events)
               j == JobsAt(gate, t)
           IN  /\ Sharing(SshSide(Reach(t), jobsHighWater, events), Held)
               /\ Sharing(x, j) /\ Sharing(x, JobsTicked(j))
               /\ Clocked(x, j) /\ Clocked(x, JobsTicked(j))
<1> DEFINE x == SshSide(Reach(t), Later(t, jobsHighWater), events)
           y == SshSide(Reach(t), jobsHighWater, events)
           j == JobsAt(gate, t)
           k == JobsTicked(j)
<1>1. t \in Time
  BY DEF ClockReadings
<1>2. Good(j, nextId, claims) /\ k.now = j.now
  BY <1>1, StartsGood
<1>3. j.now = Later(t, jobsHighWater)
  BY DEF JobsAt
<1>4. /\ x.late = Reach(t) /\ x.back = MaxStepBack /\ x.asked = AskedIn(events)
      /\ x.struck = UnapprovedIn(events) /\ x.granted = ApprovedIn(events)
      /\ x.now = Later(t, jobsHighWater)
      /\ y.late = Reach(t) /\ y.back = MaxStepBack /\ y.asked = AskedIn(events)
      /\ y.struck = UnapprovedIn(events) /\ y.granted = ApprovedIn(events)
  BY DEF SshSide
<1>5. Sharing(y, Held)
  <2>1. Held.now = jobsHighWater
    BY DEF Held
  <2>2. jobsHighWater <= Held.now
    BY <2>1, ReachParts
  <2> QED  BY <2>2, ReachParts, SharingLater DEF Limits
<1> HIDE DEF x, y
<1>6. Sharing(x, j)
  BY <1>4, <1>5, ReadingShares, ReachParts DEF Shared
<1> HIDE DEF j
<1>7. Sharing(x, k)
  BY <1>2, <1>6, TickedShares
<1> HIDE DEF k
<1>8. Clocked(x, j) /\ Clocked(x, k)
  BY <1>2, <1>3, <1>4, ReachParts DEF Clocked
<1> QED  BY <1>5, <1>6, <1>7, <1>8 DEF x, y, j, k

\* A method of Jobs leaves what the next call starts from.
LEMMA JobsShare ==
    ASSUME Shared, Shared', SshKeeps, NEW t \in ClockReadings,
           Sharing(SshSide(Reach(t), Later(t, jobsHighWater), events), Held')
    PROVE  Limits'
<1> DEFINE n == Later(t, jobsHighWater)
<1>1. UNCHANGED <<highWater, events>>
  BY DEF SshKeeps, sshVars
<1>2. Held'.now = jobsHighWater'
  BY DEF Held
<1>3. n <= Held'.now
  BY DEF Sharing, SshSide
<1>4. jobsHighWater' \in Nat
  <2>1. Good(Held', nextId', claims')
    BY DEF Shared, JobsInv
  <2> QED  BY <1>2, <2>1, GoodParts
<1>5. /\ Later(highWater', jobsHighWater') \in Nat
      /\ Reach(t) <= Later(highWater', jobsHighWater')
      /\ jobsHighWater' <= Held'.now
  <2>1. /\ Reach(t) \in Nat /\ highWater \in Nat /\ jobsHighWater \in Nat /\ t \in Nat
        /\ jobsHighWater <= n /\ n \in Nat
    BY ReachParts
  <2>2. n = Later(t, jobsHighWater)
    OBVIOUS
  <2> HIDE DEF n
  <2> QED  BY <1>1, <1>2, <1>3, <1>4, <2>1, <2>2 DEF Reach, Later
<1>6. Sharing(SshSide(Later(highWater', jobsHighWater'), jobsHighWater', events'), Held')
  BY <1>1, <1>4, <1>5, ReachParts, SharingLater
<1> QED  BY <1>6 DEF Limits

----------------------------------------------------------------------------
LEMMA LinesDiffer == \A r \in Lines, l \in JobLines : r # l
<1> TAKE r \in Lines, l \in JobLines
<1>1. "host" \in DOMAIN r
  BY DEF Lines
<1>2. "host" \notin DOMAIN l
  BY DEF JobLines
<1> QED  BY <1>1, <1>2

\* Every act of Grants leaves its clock as it clamped it.
LEMMA ActClock ==
    ASSUME NEW g, NEW t, SshActs(Ticked(g, t))
    PROVE  highWater' = Clamped(t)
<1> DEFINE s == Ticked(g, t)
<1>1. s.now = Clamped(t)
  BY DEF Ticked
<1>2. SshActs(s)
  OBVIOUS
<1> HIDE DEF s
<1>3. highWater' = s.now
  BY <1>2, Zenon DEF SshActs, SshTick, OnlyTicked, SshRequest, SshApprove, SshDecline, SshIssue,
     SshKill, Fresh
<1> QED  BY <1>1, <1>3

\* A method of Grants leaves what the next call starts from.
LEMMA SshShares ==
    ASSUME Shared, Shared', NEW t \in ClockReadings, NEW k, Good(k, nextId, claims),
           JobsLeft(k), Serving(Held, k, OutcomeLines), NEW m, m \in Nat, jobsHighWater <= m,
           Sharing(SshSide(Reach(t), m, events), k), SshActs(Ticked(k.gate, t))
    PROVE  Limits'
<1> DEFINE x == JobSide(Reach(t), k.events)
           y == SshSide(Reach(t), m, events)
           z == SshSide(Later(highWater', jobsHighWater'), jobsHighWater', events')
<1>1. /\ k.gate \in Gates /\ Lends("ssh", gate, k.gate) /\ jobEvents \subseteq k.events
      /\ \A l \in k.events : l \in jobEvents \/ l.kind \in OutcomeLines
      /\ k.now \in Nat /\ k.events \subseteq JobLines /\ t \in Time
  BY GoodParts, HeldIs DEF Serving, HeldParts, ClockReadings
<1>2. SoundWith(k.gate)
  BY <1>1, SoundLent DEF Shared
<1>3. /\ x.late = Reach(t) /\ x.back = MaxStepBack /\ x.asked = FiledLines(k.events)
      /\ x.struck = StruckLines(k.events) /\ x.granted = GrantedLines(k.events)
      /\ y.late = Reach(t) /\ y.back = MaxStepBack /\ y.asked = AskedIn(events)
      /\ y.struck = UnapprovedIn(events) /\ y.granted = ApprovedIn(events) /\ y.now = m
      /\ z.late = Later(highWater', jobsHighWater') /\ z.back = MaxStepBack
      /\ z.asked = AskedIn(events') /\ z.struck = UnapprovedIn(events')
      /\ z.granted = ApprovedIn(events') /\ z.now = jobsHighWater'
  BY DEF SshSide, JobSide
<1> HIDE DEF x, y, z
<1>4. /\ Metered(y.late, y.back, k.gate, y.asked \cup FiledLines(k.events),
                 y.struck \cup StruckLines(k.events), y.granted \cup GrantedLines(k.events))
      /\ Trail(k) /\ m <= k.now
  BY <1>3 DEF Sharing, y
<1>5. Metered(x.late, x.back, k.gate, AskedWith(x, events), StruckWith(x, events),
              ApprovedWith(x, events))
  <2>1. /\ AskedWith(x, events) = y.asked \cup FiledLines(k.events)
        /\ StruckWith(x, events) = y.struck \cup StruckLines(k.events)
        /\ ApprovedWith(x, events) = y.granted \cup GrantedLines(k.events)
    BY <1>3 DEF AskedWith, StruckWith, ApprovedWith
  <2> QED  BY <1>3, <1>4, <2>1
<1>6. ASSUME pending # None, NEW f \in x.struck \cup x.granted
      PROVE  f.id # pending.id
  <2>1. PICK q \in FiledLines(k.events) : q.id = f.id
    BY <1>3, <1>4 DEF Trail, StruckLines
  <2>2. PICK r \in AskedIn(events) : r.id = pending.id
    BY <1>6 DEF Shared, SoundWith, Sound, Dated
  <2>3. q \in JobLines /\ q \in AskedJobs
    BY <1>1 DEF FiledLines, AskedJobs, OutcomeLines
  <2>4. r \in Lines
    BY <1>2 DEF SoundWith, Sound, Typed, AskedIn
  <2>5. q # r
    BY <2>3, <2>4, LinesDiffer
  <2> QED  BY <2>1, <2>2, <2>3, <2>5 DEF Shared
<1>7. SshSharing(x, pending, k.gate, events)
  BY <1>5, <1>6 DEF SshSharing
<1>8. \A q \in x.asked : q.id < nextId
  BY <1>3 DEF FiledLines, Good, Told
<1>9. SshSharing(x, None, gate', events')
  BY <1>1, <1>2, <1>3, <1>7, <1>8, ReachParts, ActShares
<1>10. /\ highWater' = Clamped(t)
       /\ Held'.now = k.now /\ Held'.entries = k.entries /\ Held'.gate = gate'
       /\ Held'.events = k.events /\ jobsHighWater' = k.now
  BY ActClock DEF Held, JobsLeft
<1>11. /\ z.late \in Nat /\ Reach(t) \in Nat /\ Reach(t) <= z.late
  <2>1. m <= k.now
    BY <1>4
  <2> QED  BY <1>1, <1>3, <1>10, <2>1, ReachParts DEF Reach, Later, Clamped
<1>12. Metered(z.late, z.back, Held'.gate, z.asked \cup FiledLines(Held'.events),
               z.struck \cup StruckLines(Held'.events),
               z.granted \cup GrantedLines(Held'.events))
  <2> DEFINE A == AskedWith(x, events')
             U == StruckWith(x, events')
             P == ApprovedWith(x, events')
  <2>1. Metered(Reach(t), MaxStepBack, gate', A, U, P)
    BY <1>3, <1>9 DEF SshSharing
  <2>2. /\ A = z.asked \cup FiledLines(Held'.events)
        /\ U = z.struck \cup StruckLines(Held'.events)
        /\ P = z.granted \cup GrantedLines(Held'.events)
    BY <1>3, <1>10 DEF AskedWith, StruckWith, ApprovedWith
  <2> HIDE DEF A, U, P
  <2>3. Metered(z.late, MaxStepBack, gate', A, U, P)
    BY <1>11, <2>1, MeteredLater
  <2> QED  BY <1>3, <1>10, <2>2, <2>3
<1>13. Trail(Held')
  BY <1>4, <1>10 DEF Trail
<1>14. ASSUME NEW f \in z.struck \cup z.granted, NEW e \in Held'.entries
       PROVE  f.id # e.id
  <2>1. PICK r \in AskedIn(events') : r.id = f.id
    <3>1. f \in AnswersIn(events')
      BY <1>3 DEF UnapprovedIn, ApprovedIn, AnswersIn, Verdicts
    <3> QED  BY <3>1 DEF Shared, SoundWith, Sound, Replied
  <2>2. e \in entries'
    BY DEF Held
  <2> QED  BY <2>1, <2>2 DEF Shared
<1>15. z.now \in Nat /\ z.now <= Held'.now
  BY <1>1, <1>3, <1>10
<1>16. Sharing(z, Held')
  BY <1>12, <1>13, <1>14, <1>15 DEF Sharing
<1> QED  BY <1>16 DEF Limits, z

\* Nothing is asked, granted or ended.
LEMMA SameLimits ==
    ASSUME Limits, UNCHANGED gate, SshKeeps, JobsKeep
    PROVE  Limits'
<1>1. UNCHANGED <<gate, highWater, events, jobsHighWater, entries, jobEvents>>
  BY DEF SshKeeps, sshVars, JobsKeep, jobVars
<1>2. Held' = Held
  BY <1>1 DEF Held
<1> QED  BY <1>1, <1>2 DEF Limits

\* A gate that has let nobody in.
LEMMA EmptyMetered ==
    ASSUME NEW late, NEW back
    PROVE  Metered(late, back, EmptyGate, {}, {}, {})
<1>1. EmptyGate \in Gates /\ EmptyGate.occupant = {} /\ EmptyGate.strikes = 0
  BY DEF EmptyGate, Gates
<1>2. Counted({}, EmptyGate, late)
  <2>1. Recent({}, late) = {}
    BY DEF Recent
  <2>2. [q \in {} |-> 0] \in [{} -> DOMAIN EmptyGate.accepted]
    OBVIOUS
  <2> QED  BY <2>1, <2>2 DEF Counted
<1>3. Streak({}, {}) = {} /\ Cardinality({}) = 0 /\ IsFiniteSet({}) /\ Timed({})
  BY FS_EmptySet DEF Streak, Timed
<1> QED  BY <1>1, <1>2, <1>3 DEF Metered, Spread, Running, WaitedOut

\* The calls: of Grants alone, of Grants once the jobs have ticked, and the end
\* of each, which clamps the jobs' clock.
LEMMA GrantsAloneShare ==
    ASSUME Shared, Shared', Limits, NEW t \in ClockReadings, JobsKeep, SshActs(Ticked(gate, t))
    PROVE  Limits'
<1>1. HeldParts
  BY HeldIs
<1>2. JobsLeft(Held) /\ SshActs(Ticked(Held.gate, t))
  BY <1>1, Zenon DEF HeldParts, JobsLeft, JobsKeep, jobVars
<1>3. Good(Held, nextId, claims) /\ Serving(Held, Held, OutcomeLines)
  BY SharedIds, SameServes
<1>4. Sharing(SshSide(Reach(t), jobsHighWater, events), Held)
  BY StartsShared
<1>5. jobsHighWater \in Nat /\ jobsHighWater <= jobsHighWater
  BY ReachParts
<1> QED  BY <1>2, <1>3, <1>4, <1>5, SshShares
LEMMA GrantsTickedShare ==
    ASSUME Shared, Shared', Limits, NEW t \in ClockReadings,
           JobsLeft(JobsTicked(JobsAt(gate, t))),
           SshActs(Ticked(JobsTicked(JobsAt(gate, t)).gate, t))
    PROVE  Limits'
<1> DEFINE k == JobsTicked(JobsAt(gate, t))
<1>1. t \in Time
  BY DEF ClockReadings
<1>2. Good(k, nextId, claims) /\ Serving(Held, k, OutcomeLines)
  BY <1>1, StartsGood
<1>3. Sharing(SshSide(Reach(t), Later(t, jobsHighWater), events), k)
  BY StartsShared
<1>4. JobsLeft(k) /\ SshActs(Ticked(k.gate, t))
  OBVIOUS
<1> HIDE DEF k
<1> QED  BY <1>2, <1>3, <1>4, ReachParts, SshShares
LEMMA BadgeShares ==
    ASSUME Shared, Shared', Limits, NEW t \in ClockReadings, SshTick(Ticked(gate, t)),
           jobsHighWater' = Later(t, jobsHighWater),
           UNCHANGED <<entries, trusted, jobEvents, claims>>
    PROVE  Limits'
<1> DEFINE j == JobsAt(gate, t)
<1>1. t \in Time
  BY DEF ClockReadings
<1>2. Good(j, nextId, claims) /\ Serving(Held, j, OutcomeLines)
  BY <1>1, StartsGood
<1>3. Sharing(SshSide(Reach(t), Later(t, jobsHighWater), events), j)
  BY StartsShared
<1>4. JobsLeft(j) /\ SshActs(Ticked(j.gate, t))
  BY DEF JobsAt, JobsLeft, SshActs
<1> HIDE DEF j
<1> QED  BY <1>2, <1>3, <1>4, ReachParts, SshShares

LEMMA JobsAloneShare ==
    ASSUME Shared, Shared', Limits, NEW t \in ClockReadings, SshKeeps, JobActs(JobsAt(gate, t))
    PROVE  Limits'
<1> DEFINE x == SshSide(Reach(t), Later(t, jobsHighWater), events)
           j == JobsAt(gate, t)
           k == JobsTicked(j)
<1>1. t \in Time
  BY DEF ClockReadings
<1>2. Good(j, nextId, claims) /\ Good(k, nextId, claims)
  BY <1>1, StartsGood
<1>3. Sharing(x, j) /\ Sharing(x, k) /\ Clocked(x, k)
  BY StartsShared
<1>4. \A q \in x.asked : q.id < nextId
  BY SharedIds DEF SshSide
<1>5. JobActs(j)
  OBVIOUS
<1> SUFFICES Sharing(x, Held')
  BY JobsShare
<1> HIDE DEF x, j
<1>6. CASE JobTick(j)
  BY <1>3, <1>6, LeavesShares DEF JobTick
<1> HIDE DEF k
<1>7. CASE \E p \in Projects : JobRequest(k, p, "apply") \/ JobKill(j, p)
  BY <1>2, <1>3, <1>4, <1>7, RequestShares, KillShares
<1>8. CASE \E id, nonce, scope : JobApprove(j, id, nonce, scope)
  BY <1>2, <1>3, <1>8, ApproveShares
<1>9. CASE \E id : JobDecline(k, id)
  BY <1>2, <1>3, <1>9, DeclineShares
<1>10. ASSUME NEW r \in Runners, JobPoll(k, r) \/ \E id : JobClaim(j, r, id)
       PROVE  Sharing(x, Held')
  BY <1>2, <1>3, <1>10, PollShares, ClaimShares
<1>11. ASSUME NEW r \in Runners,
              \/ \E id, scope : JobSubmit(j, r, id, scope)
              \/ \E id : \E res \in {"refused", "plan_failed"} : JobRefuse(j, r, id, res)
       PROVE  Sharing(x, Held')
  BY <1>2, <1>3, <1>11, SubmitShares, RefuseShares
<1>12. ASSUME NEW r \in Runners, NEW id, NEW p,
              NEW res \in {"applied", "apply_failed", "outcome_unknown"},
              JobFinish(j, r, p, id, res)
       PROVE  Sharing(x, Held')
  BY <1>2, <1>3, <1>12, FinishShares
<1> QED  BY <1>5, <1>6, <1>7, <1>8, <1>9, <1>10, <1>11, <1>12, Zenon DEF JobActs, k

LEMMA HandlerShares ==
    ASSUME Shared, Shared', Limits, NEW t \in ClockReadings, Handler(t)
    PROVE  Limits'
<1>1. CASE JobsKeep /\ SshActs(Ticked(gate, t))
  BY <1>1, GrantsAloneShare
<1>2. CASE SshKeeps /\ JobActs(JobsAt(gate, t))
  BY <1>2, JobsAloneShare
<1>3. CASE TicksBoth(t)
  <2>1. /\ JobsLeft(JobsTicked(JobsAt(gate, t)))
        /\ SshActs(Ticked(JobsTicked(JobsAt(gate, t)).gate, t))
    BY <1>3, Zenon DEF TicksBoth, Quiets, SshActs
  <2> QED  BY <2>1, GrantsTickedShare
<1>4. CASE UNCHANGED <<gate, nextId>> /\ SshKeeps /\ JobsKeep
  BY <1>4, SameLimits
<1> QED  BY <1>1, <1>2, <1>3, <1>4, HandlerActs, Zenon DEF Acted

----------------------------------------------------------------------------
\* Nobody has been asked.
LEMMA NobodyAsked ==
    ASSUME NEW j, j = [now |-> 0, entries |-> {}, gate |-> EmptyGate, events |-> {}]
    PROVE  Sharing(SshSide(0, 0, {}), j)
<1> DEFINE x == SshSide(0, 0, {})
<1>1. /\ x.late = 0 /\ x.back = MaxStepBack
      /\ x.asked = {} /\ x.struck = {} /\ x.granted = {} /\ x.now = 0
  BY DEF SshSide, AskedIn, UnapprovedIn, ApprovedIn
<1>2. j.gate = EmptyGate /\ j.events = {} /\ j.entries = {} /\ j.now = 0
  OBVIOUS
<1>3. FiledLines({}) = {} /\ StruckLines({}) = {} /\ GrantedLines({}) = {} /\ AskedLines({}) = {}
  BY DEF FiledLines, StruckLines, GrantedLines, AskedLines
<1> HIDE DEF x
<1>4. Metered(x.late, x.back, j.gate, x.asked \cup FiledLines(j.events),
              x.struck \cup StruckLines(j.events), x.granted \cup GrantedLines(j.events))
  <2>1. Metered(0, MaxStepBack, EmptyGate, {}, {}, {})
    BY EmptyMetered
  <2>2. \A S : S \cup {} = S
    OBVIOUS
  <2> QED  BY <1>1, <1>2, <1>3, <2>1, <2>2
<1>5. Trail(j)
  BY <1>2, <1>3 DEF Trail
<1> QED  BY <1>1, <1>2, <1>4, <1>5 DEF Sharing, x

LEMMA LimitsStep ==
    ASSUME DaemonInv, DaemonInv', Limits, [DaemonNext]_daemonVars
    PROVE  Limits'
<1>1. Shared /\ Shared'
  BY DEF DaemonInv
<1>2. ASSUME NEW t \in ClockReadings, Handler(t)
      PROVE  Limits'
  BY <1>1, <1>2, HandlerShares
<1>3. ASSUME NEW t \in ClockReadings, Reap(t)
      PROVE  Limits'
  BY <1>1, <1>3, GrantsAloneShare DEF Reap, SshActs
<1>4. ASSUME NEW t \in ClockReadings, SaveNextId(t)
      PROVE  Limits'
  BY <1>1, <1>4, BadgeShares DEF SaveNextId
<1>5. CASE AppendLedger \/ ConsoleAppends \/ UNCHANGED daemonVars
  <2>1. UNCHANGED gate /\ SshKeeps /\ JobsKeep
    BY <1>5, Zenon DEF AppendLedger, ConsoleAppends, daemonVars, SshKeeps, JobsKeep
  <2> QED  BY <2>1, SameLimits
<1>6. CASE Crash \/ Boot
  <2>1. CASE Crash
    <3>1. Later(highWater', jobsHighWater') = 0 /\ jobsHighWater' = 0 /\ events' = {}
      BY <2>1 DEF Crash, Later
    <3>2. Held' = [now |-> 0, entries |-> {}, gate |-> EmptyGate, events |-> {}]
      BY <2>1 DEF Crash, Held
    <3> QED  BY <3>1, <3>2, NobodyAsked DEF Limits
  <2>2. CASE Boot
    <3>1. Blank /\ UNCHANGED gate /\ SshKeeps /\ JobsKeep
      BY <2>2 DEF Boot, DaemonInv, OnDisk, SshKeeps, JobsKeep
    <3> QED  BY <3>1, SameLimits
  <2> QED  BY <1>6, <2>1, <2>2
<1> QED  BY <1>2, <1>3, <1>4, <1>5, <1>6, Zenon DEF DaemonNext

LEMMA LimitsHold == DaemonSpec => [](DaemonInv /\ Limits)
<1>1. DaemonInit => DaemonInv /\ Limits
  <2> SUFFICES ASSUME DaemonInit PROVE Limits
    BY DaemonInitHolds
  <2>1. Later(highWater, jobsHighWater) = 0 /\ jobsHighWater = 0 /\ events = {}
    BY DEF DaemonInit, GrantsInit, Later
  <2>2. Held = [now |-> 0, entries |-> {}, gate |-> EmptyGate, events |-> {}]
    BY DEF DaemonInit, GrantsInit, Held
  <2> QED  BY <2>1, <2>2, NobodyAsked DEF Limits
<1>2. DaemonInv /\ Limits /\ [DaemonNext]_daemonVars => (DaemonInv /\ Limits)'
  BY DaemonStep, LimitsStep
<1> QED  BY <1>1, <1>2, PTL DEF DaemonSpec

\* A person is asked no more often for the gate being asked by two: a strike on
\* an SSH request holds back a job as it does a request, and the cap is on both
\* together, whatever call comes when, and however the wall clock steps back
\* (server.rs, `Daemon::with`; Grants::gate_mut; gate.rs, Gate::admit).
THEOREM AskingIsShared == DaemonSpec => []LimitsAreShared
<1>1. DaemonInv /\ Limits => LimitsAreShared
  <2> SUFFICES ASSUME Shared, Limits PROVE LimitsAreShared
    BY DEF DaemonInv
  <2> DEFINE A == AskedIn(events) \cup FiledLines(jobEvents)
             U == UnapprovedIn(events) \cup StruckLines(jobEvents)
             P == ApprovedIn(events) \cup GrantedLines(jobEvents)
  <2>1. Metered(Later(highWater, jobsHighWater), MaxStepBack, gate, A, U, P)
    BY DEF Limits, Sharing, SshSide, Held
  <2>2. Accepted = A /\ Approving = P
    BY DEF Accepted, Approving, Recorded, AskedIn, FiledLines, ApprovedIn, GrantedLines
  <2>3. StrikeLines = U
    BY DEF StrikeLines, Unapproved, UnapprovedIn, StruckLines, Never, AskedJob, ApprovedJob,
           AskedLines, GrantedLines
  <2> HIDE DEF A, U, P
  <2>4. \A e : StrikesInARow(e) = Cardinality(Row(e, U, P))
    BY <2>2, <2>3 DEF StrikesInARow, Row
  <2>5. CooldownIsShared
    BY <2>1, <2>2, <2>3, <2>4 DEF CooldownIsShared, Metered, WaitedOut, RestsUntil
  <2>6. CapIsShared
    BY <2>1, <2>2 DEF CapIsShared, Metered, Spread, Within
  <2> QED  BY <2>5, <2>6 DEF LimitsAreShared
<1> QED  BY <1>1, LimitsHold, PTL

----------------------------------------------------------------------------
(* Grants and Jobs together implement Approvals.  Each of them does already;  *)
(* what is added is that their ids, their questions and what they grant are   *)
(* told apart.                                                                *)

Apart ==
    /\ SshPast \cap JobPast = {}
    /\ SshOpen = {} \/ JobQuestions("waiting") = {}
    /\ \A q \in SshGranted : q.scope \in Scopes
    /\ \A q \in JobQuestions("approved") : q.scope \notin Scopes
    /\ Unasked(entries, jobEvents)

LEMMA ScopesDiffer == \A s \in JobScopes : s \notin Scopes
<1> TAKE s \in JobScopes
<1>1. "host" \notin DOMAIN s
  BY DEF JobScopes, TrustScopes, ApplyScopes
<1>2. \A r \in Scopes : "host" \in DOMAIN r
  BY DEF Scopes
<1> QED  BY <1>1, <1>2

LEMMA KeptApart ==
    ASSUME Shared, Limits
    PROVE  Apart
<1>1. Good(Held, nextId, claims) /\ HeldParts /\ gate \in Gates
  BY SharedIds, HeldIs
<1>2. Trail(Held)
  BY DEF Limits, Sharing
<1>3. SshPast \cap JobPast = {}
  <2> SUFFICES ASSUME NEW r \in AskedIn(events), NEW l \in AskedLines(jobEvents), r.id = l.id
               PROVE  FALSE
    BY DEF SshPast, JobPast, Requested, AskedIn, AskedLines
  <2>1. PICK q \in FiledLines(jobEvents) : q.id = l.id
    BY <1>1, <1>2 DEF Trail, HeldParts
  <2>2. q \in AskedJobs /\ q \in JobLines
    BY <1>1, <2>1, GoodParts DEF FiledLines, AskedJobs, HeldParts
  <2>3. r \in Lines
    BY SoundParts DEF Shared, AskedIn
  <2>4. r = q
    BY <2>1, <2>2 DEF Shared
  <2> QED  BY <2>2, <2>3, <2>4, LinesDiffer
<1>4. SshOpen = {} \/ JobQuestions("waiting") = {}
  <2> SUFFICES ASSUME pending # None, NEW e \in entries, e.state = "waiting"
               PROVE  FALSE
    BY DEF SshOpen, JobQuestions
  <2>1. <<"ssh", pending.id>> \in gate.occupant
    BY DEF Shared, SoundWith, Sound, Slotted, HoldOf
  <2>2. <<"job", e.id>> \in gate.occupant
    BY <1>1 DEF Good, JSlotted, Holders, HoldsSlot, HoldOf, HeldParts
  <2> QED  BY <2>1, <2>2 DEF Shared, OneHolder
<1>5. \A q \in SshGranted : q.scope \in Scopes
  BY DEF SshGranted, SshQuestion, Shared, SoundWith, Sound, Typed, Windows
<1>6. \A q \in JobQuestions("approved") : q.scope \notin Scopes
  <2> SUFFICES ASSUME NEW e \in entries, e.state = "approved"
               PROVE  e.scope \notin Scopes
    BY DEF JobQuestions
  <2>1. e.scope \in JobScopes
    BY <1>1 DEF Good, JTyped, Shaped, HeldParts
  <2> QED  BY <2>1, ScopesDiffer
<1>7. Unasked(entries, jobEvents)
  BY <1>1, <1>2 DEF Trail, OnRecord, HeldParts, Unasked, InPlanning
<1> QED  BY <1>3, <1>4, <1>5, <1>6, <1>7 DEF Apart

SshApart == UNCHANGED <<SshPast, SshOpen, SshGranted, SshUses>>
JobsApart ==
    UNCHANGED <<JobPast, JobQuestions("waiting"), JobQuestions("approved"), JobUses>>

\* Nothing new is asked, granted or used.
LEMMA BothLapse ==
    ASSUME SshApprovals!Lapse \/ SshApart, JobApprovals!Lapse \/ JobsApart
    PROVE  DaemonApprovals!Next
<1>1. /\ SshOpen' \subseteq SshOpen /\ SshGranted' \subseteq SshGranted
      /\ SshPast' = SshPast /\ SshUses' = SshUses
  BY DEF SshApprovals!Lapse, SshApart
<1>2. /\ JobQuestions("waiting")' \subseteq JobQuestions("waiting")
      /\ JobQuestions("approved")' \subseteq JobQuestions("approved")
      /\ JobPast' = JobPast /\ JobUses' = JobUses
  BY DEF JobApprovals!Lapse, JobsApart
<1>3. DaemonApprovals!Lapse
  BY <1>1, <1>2 DEF DaemonApprovals!Lapse
<1> QED  BY <1>3 DEF DaemonApprovals!Next

\* The one asks, grants or uses, and the other stands still.
LEMMA SshMoves ==
    ASSUME Apart, Apart', SshApprovals!Next, JobsApart
    PROVE  DaemonApprovals!Next
<1> DEFINE po == SshPast \cup JobPast
           op == SshOpen \cup JobQuestions("waiting")
           gr == SshGranted \cup JobQuestions("approved")
           us == SshUses \cup JobUses
<1>1. CASE SshApprovals!Lapse
  BY <1>1, BothLapse
<1>2. CASE SshApprovals!Ask
  <2>1. PICK q \in SshOpen' :
            q.id \notin SshPast /\ SshOpen' = {q} /\ SshPast' = SshPast \cup {q.id}
    BY <1>2 DEF SshApprovals!Ask
  <2>2. q.id \notin JobPast /\ JobQuestions("waiting")' = {}
    BY <2>1 DEF Apart, JobsApart
  <2>3. q \in op' /\ op' = {q} /\ q.id \notin po /\ po' = po \cup {q.id}
    BY <2>1, <2>2 DEF JobsApart
  <2>4. gr' \subseteq gr /\ us' = us
    BY <1>2 DEF SshApprovals!Ask, JobsApart
  <2> QED  BY <2>3, <2>4 DEF DaemonApprovals!Next, DaemonApprovals!Ask
<1>3. CASE SshApprovals!Grant
  <2>1. PICK q \in SshOpen : SshGranted' \subseteq SshGranted \cup {q}
    BY <1>3 DEF SshApprovals!Grant
  <2>2. op' = {}
    BY <1>3, <2>1 DEF SshApprovals!Grant, Apart, JobsApart
  <2>3. q \in op /\ gr' \subseteq gr \cup {q} /\ po' = po /\ us' = us
    BY <1>3, <2>1 DEF SshApprovals!Grant, JobsApart
  <2> QED  BY <2>2, <2>3 DEF DaemonApprovals!Next, DaemonApprovals!Grant
<1>4. CASE SshApprovals!Use
  <2>1. PICK q \in SshGranted, u \in SshUses' :
            /\ u.id = q.id /\ SshCovers(q.scope, u.act)
            /\ SshUses' = SshUses \cup {u} /\ SshGranted' \subseteq SshGranted
    BY <1>4 DEF SshApprovals!Use, SshOnce
  <2>2. DaemonCovers(q.scope, u.act) /\ ~DaemonOnce(q.scope)
    BY <2>1 DEF Apart, DaemonCovers, DaemonOnce
  <2>3. /\ q \in gr /\ u \in us' /\ us' = us \cup {u} /\ gr' \subseteq gr
        /\ op' \subseteq op /\ po' = po
    BY <1>4, <2>1 DEF SshApprovals!Use, JobsApart
  <2> QED  BY <2>1, <2>2, <2>3 DEF DaemonApprovals!Next, DaemonApprovals!Use
<1> QED  BY <1>1, <1>2, <1>3, <1>4 DEF SshApprovals!Next

LEMMA JobsMove ==
    ASSUME Apart, Apart', JobApprovals!Next, SshApart
    PROVE  DaemonApprovals!Next
<1> DEFINE po == SshPast \cup JobPast
           op == SshOpen \cup JobQuestions("waiting")
           gr == SshGranted \cup JobQuestions("approved")
           us == SshUses \cup JobUses
<1>1. CASE JobApprovals!Lapse
  BY <1>1, BothLapse
<1>2. CASE JobApprovals!Ask
  <2>1. PICK q \in JobQuestions("waiting")' :
            /\ q.id \notin JobPast /\ JobQuestions("waiting")' = {q}
            /\ JobPast' = JobPast \cup {q.id}
    BY <1>2 DEF JobApprovals!Ask
  <2>2. q.id \notin SshPast /\ SshOpen' = {}
    BY <2>1 DEF Apart, SshApart
  <2>3. q \in op' /\ op' = {q} /\ q.id \notin po /\ po' = po \cup {q.id}
    BY <2>1, <2>2 DEF SshApart
  <2>4. gr' \subseteq gr /\ us' = us
    BY <1>2 DEF JobApprovals!Ask, SshApart
  <2> QED  BY <2>3, <2>4 DEF DaemonApprovals!Next, DaemonApprovals!Ask
<1>3. CASE JobApprovals!Grant
  <2>1. PICK q \in JobQuestions("waiting") :
            JobQuestions("approved")' \subseteq JobQuestions("approved") \cup {q}
    BY <1>3 DEF JobApprovals!Grant
  <2>2. op' = {}
    BY <1>3, <2>1 DEF JobApprovals!Grant, Apart, SshApart
  <2>3. q \in op /\ gr' \subseteq gr \cup {q} /\ po' = po /\ us' = us
    BY <1>3, <2>1 DEF JobApprovals!Grant, SshApart
  <2> QED  BY <2>2, <2>3 DEF DaemonApprovals!Next, DaemonApprovals!Grant
<1>4. CASE JobApprovals!Use
  <2>1. PICK q \in JobQuestions("approved"), u \in JobUses' :
            /\ u.id = q.id /\ JobCovers(q.scope, u.act)
            /\ JobUses' = JobUses \cup {u}
            /\ JobQuestions("approved")' \subseteq JobQuestions("approved") \ {q}
    BY <1>4 DEF JobApprovals!Use, JobOnce
  <2>2. DaemonCovers(q.scope, u.act) /\ DaemonOnce(q.scope) /\ q \notin SshGranted
    BY <2>1 DEF Apart, DaemonCovers, DaemonOnce
  <2>3. /\ q \in gr /\ u \in us' /\ us' = us \cup {u} /\ gr' \subseteq gr \ {q}
        /\ op' \subseteq op /\ po' = po
    BY <1>4, <2>1, <2>2 DEF JobApprovals!Use, SshApart
  <2> QED  BY <2>1, <2>2, <2>3 DEF DaemonApprovals!Next, DaemonApprovals!Use
<1> QED  BY <1>1, <1>2, <1>3, <1>4 DEF JobApprovals!Next

\* Who keeps his variables stands still.
LEMMA KeepersStand == (SshKeeps => SshApart) /\ (JobsKeep => JobsApart)
<1>1. SshKeeps => SshApart
  BY DEF SshKeeps, sshVars, SshApart, SshPast, Requested, SshOpen, SshGranted, SshUses
<1>2. JobsKeep => JobsApart
  BY DEF JobsKeep, jobVars, JobsApart, JobPast, JobQuestions, JobUses
<1> QED  BY <1>1, <1>2

\* What a method of Jobs starts from.
LEMMA StartsIdle ==
    ASSUME Shared, NEW t \in Time
    PROVE  /\ Good(JobsAt(gate, t), nextId, claims) /\ IdleFor(JobsAt(gate, t))
           /\ Good(JobsTicked(JobsAt(gate, t)), nextId, claims)
           /\ IdleFor(JobsTicked(JobsAt(gate, t)))
<1> DEFINE j == JobsAt(gate, t)
<1>1. Good(j, nextId, claims) /\ Good(JobsTicked(j), nextId, claims)
  BY StartsGood
<1>2. j.entries = entries /\ j.events = jobEvents
  BY DEF JobsAt
<1> HIDE DEF j
<1>3. IdleFor(j)
  BY <1>2 DEF IdleFor, Idle
<1>4. IdleFor(JobsTicked(j))
  BY <1>1, <1>3, TickIdle
<1> QED  BY <1>1, <1>3, <1>4 DEF j

LEMMA JobActsRefine ==
    ASSUME Shared, Unasked(entries, jobEvents), NEW t \in Time, JobActs(JobsAt(gate, t))
    PROVE  JobApprovals!Next
<1> DEFINE j == JobsAt(gate, t)
           k == JobsTicked(j)
<1>1. /\ Good(j, nextId, claims) /\ IdleFor(j)
      /\ Good(k, nextId, claims) /\ IdleFor(k)
  BY StartsIdle
<1>2. JobActs(j)
  OBVIOUS
<1> SUFFICES Refined
  BY DEF Refined
<1> HIDE DEF j
<1>3. CASE JobTick(j)
  BY <1>1, <1>3, TickRefines
<1> HIDE DEF k
<1>4. CASE \E p \in Projects : JobRequest(k, p, "apply") \/ JobKill(j, p)
  BY <1>1, <1>4, RequestRefines, KillRefines
<1>5. CASE \E id, nonce, scope : JobApprove(j, id, nonce, scope)
  BY <1>1, <1>5, ApproveRefines
<1>6. CASE \E id : JobDecline(k, id)
  BY <1>1, <1>6, DeclineRefines
<1>7. ASSUME NEW r \in Runners, JobPoll(k, r) \/ \E id : JobClaim(j, r, id)
      PROVE  Refined
  BY <1>1, <1>7, PollRefines, ClaimRefines
<1>8. ASSUME NEW r \in Runners,
             \/ \E id, scope : JobSubmit(j, r, id, scope)
             \/ \E id : \E res \in {"refused", "plan_failed"} : JobRefuse(j, r, id, res)
      PROVE  Refined
  BY <1>1, <1>8, SubmitRefines, RefuseRefines
<1>9. ASSUME NEW r \in Runners, NEW id, NEW p,
             NEW res \in {"applied", "apply_failed", "outcome_unknown"},
             JobFinish(j, r, p, id, res)
      PROVE  Refined
  BY <1>1, <1>9, FinishRefines
<1> QED  BY <1>2, <1>3, <1>4, <1>5, <1>6, <1>7, <1>8, <1>9, Zenon DEF JobActs, k

LEMMA ActedApproves ==
    ASSUME Shared, Apart, Apart', NEW t \in Time, Acted(t)
    PROVE  DaemonApprovals!Next
<1>1. CASE JobsKeep /\ SshActs(Ticked(gate, t))
  <2>1. SshApprovals!Next
    BY <1>1, ActIsAnApproval DEF Shared
  <2> QED  BY <1>1, <2>1, KeepersStand, SshMoves
<1>2. CASE SshKeeps /\ JobActs(JobsAt(gate, t))
  <2>1. JobApprovals!Next
    BY <1>2, JobActsRefine DEF Apart
  <2> QED  BY <1>2, <2>1, KeepersStand, JobsMove
<1>3. CASE TicksBoth(t)
  <2> DEFINE k == JobsTicked(JobsAt(gate, t))
  <2>1. JobsLeft(k) /\ Quiets(Ticked(k.gate, t)) /\ IdleFor(k)
    BY <1>3, StartsIdle DEF TicksBoth
  <2> HIDE DEF k
  <2>2. SshApprovals!Lapse
    BY <2>1, QuietLapses DEF Quiets
  <2>3. Idle(entries, jobEvents, entries', jobEvents') /\ claims' = claims
    BY <2>1 DEF JobsLeft, IdleFor
  <2>4. JobApprovals!Lapse
    BY <2>3, IdleLapses DEF Apart
  <2> QED  BY <2>2, <2>4, BothLapse
<1>4. CASE UNCHANGED <<gate, nextId>> /\ SshKeeps /\ JobsKeep
  BY <1>4, KeepersStand, BothLapse
<1> QED  BY <1>1, <1>2, <1>3, <1>4, Zenon DEF Acted

LEMMA DaemonApproves ==
    ASSUME DaemonInv, Apart, Apart', [DaemonNext]_daemonVars
    PROVE  DaemonApprovals!Next \/ Forgotten
<1>1. Shared
  BY DEF DaemonInv
<1>2. ASSUME NEW t \in ClockReadings, Handler(t)
      PROVE  DaemonApprovals!Next
  <2>1. t \in Time
    BY DEF ClockReadings
  <2> QED  BY <1>1, <1>2, <2>1, HandlerActs, ActedApproves
<1>3. ASSUME NEW t \in ClockReadings, Reap(t) \/ SaveNextId(t)
      PROVE  DaemonApprovals!Next
  <2>1. t \in Time /\ SshTick(Ticked(gate, t))
    BY <1>3 DEF ClockReadings, Reap, SaveNextId
  <2>2. UNCHANGED <<entries, jobEvents, claims>>
    BY <1>3 DEF Reap, JobsKeep, jobVars, SaveNextId
  <2>3. JobsApart
    BY <2>2 DEF JobsApart, JobPast, JobQuestions, JobUses
  <2> QED  BY <2>1, <2>3, QuietLapses, BothLapse
<1>4. CASE AppendLedger \/ ConsoleAppends \/ Boot \/ UNCHANGED daemonVars
  <2>1. SshKeeps /\ JobsKeep
    BY <1>4, Zenon DEF AppendLedger, ConsoleAppends, Boot, daemonVars, SshKeeps, JobsKeep
  <2> QED  BY <2>1, KeepersStand, BothLapse
<1>5. CASE Crash
  <2>1. /\ phase' = "down" /\ pending' = None /\ windows' = {} /\ events' = {} /\ certs' = {}
        /\ entries' = {} /\ jobEvents' = {} /\ claims' = {}
    BY <1>5 DEF Crash
  <2>2. SshPast' = {} /\ SshOpen' = {} /\ SshGranted' = {} /\ SshUses' = {}
    BY <2>1 DEF SshPast, Requested, SshOpen, SshGranted, SshUses
  <2>3. /\ JobPast' = {} /\ JobUses' = {}
        /\ JobQuestions("waiting")' = {} /\ JobQuestions("approved")' = {}
    BY <2>1 DEF JobPast, JobQuestions, JobUses
  <2> QED  BY <2>1, <2>2, <2>3 DEF Forgotten, DaemonApprovals!Init
<1> QED  BY <1>2, <1>3, <1>4, <1>5, Zenon DEF DaemonNext

\* SSH requests and jobs are one person's approvals, in each life of the daemon:
\* a person is asked one question at a time and never the same one twice, and what
\* is signed or handed out was asked, approved and not taken back, whichever
\* handler, tick, kill, failed write or crash comes in between (server.rs,
\* `Daemon`).
THEOREM DaemonIsOneApprover == DaemonSpec => DaemonIsAnApproval
<1>1. DaemonInit => DaemonApprovals!Init
  BY DEF DaemonInit, GrantsInit, DaemonApprovals!Init, SshPast, Requested, SshOpen, SshGranted,
         SshUses, JobPast, JobQuestions, JobUses
<1>2. DaemonInv /\ Limits => Apart
  BY KeptApart DEF DaemonInv
<1>3. DaemonInv /\ Apart /\ Apart' /\ [DaemonNext]_daemonVars
         => [DaemonApprovals!Next \/ Forgotten]_(DaemonApprovals!vars)
  BY DaemonApproves
<1> QED
  BY <1>1, <1>2, <1>3, LimitsHold, PTL DEF DaemonSpec, DaemonIsAnApproval
=============================================================================
