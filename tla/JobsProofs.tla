---------------------------- MODULE JobsProofs ----------------------------
(***************************************************************************)
(* What holds of Jobs for every policy, project, runner and clock.         *)
(*                                                                         *)
(* The parts of the inductive invariant are stated of a record j, what a   *)
(* method is working on, with the next id n and the claims cs: the same    *)
(* formulas speak of the state, of what Lapse and Pruned make of it within *)
(* a method, and of what the method leaves.                                *)
(***************************************************************************)
EXTENDS Jobs, GateProofs

JobRecords == [now: Nat, entries: SUBSET Entries, gate: Gates, events: SUBSET JobLines]
ClaimSet == [id: Nat, scope: JobScopes, at: Nat]

\* What an entry holds in the state it is in.
Shaped(e) ==
    /\ e.state \in {"queued", "working"} => e.scope = None
    /\ e.state \in {"waiting", "approved", "claimed"} => e.scope \in JobScopes /\ e.planAt \in Nat
    /\ e.state = "claimed" => e.claimedAt \in Nat
    /\ e.state # "done" => e.doneAt = None
    /\ e.state = "done" => e.doneAt \in Nat /\ e.result \in Results

JTyped(j, n, cs) ==
    /\ j \in JobRecords /\ n \in Nat /\ cs \subseteq ClaimSet
    /\ \A e \in j.entries : Shaped(e)

\* One entry an id, one entry unfinished.
OneEach(j, n) ==
    /\ \A e \in j.entries : e.id < n
    /\ \A e, f \in j.entries : e.id = f.id => e = f
    /\ \A e, f \in j.entries : e.state # "done" /\ f.state # "done" => e = f

Holders(es) == {<<"job", e.id>> : e \in {x \in es : x.state \in HoldsSlot}}
JSlotted(j) == HoldOf("job", j.gate) = Holders(j.entries)

\* OneOutcomePerJob, and that no line is of an id still to be handed out.
OutcomesIn(ev, id) == {l \in ev : l.id = id /\ l.kind \in OutcomeLines}
LineOf(result) == IF result = "plan_failed" THEN "refused" ELSE result
Told(j, n) ==
    /\ \A l \in j.events : l.id < n
    /\ \A e \in j.entries : e.state # "done" => OutcomesIn(j.events, e.id) = {}
    /\ \A e \in j.entries : e.state = "done" =>
          \E l \in j.events :
              OutcomesIn(j.events, e.id) = {l} /\ l.kind = LineOf(e.result) /\ l.at <= e.doneAt

\* ClaimsWereApproved, and what the ledger shows of a job on its way there.
Never == {"killed", "declined", "timed_out"}
WaitingAt(ev, id, at) == \E w \in ev : w.kind = "waiting" /\ w.id = id /\ w.at = at
ApprovedAt(ev, id, planAt, before) ==
    \E a \in ev : a.kind = "approved" /\ a.id = id /\ a.at < planAt + ApprovalTTL /\ a.at <= before
HandedOut(j, n, cs) ==
    /\ \A c, d \in cs : c.id = d.id => c = d
    /\ \A c \in cs : /\ c.id < n
                     /\ \A l \in OutcomesIn(j.events, c.id) : l.kind \notin Never
                     /\ \E w \in j.events : /\ w.kind = "waiting" /\ w.id = c.id
                                            /\ c.at < w.at + MaxPlanAge
                                            /\ ApprovedAt(j.events, c.id, w.at, c.at)
    /\ \A e \in j.entries :
          /\ e.state \in {"queued", "working", "waiting", "approved"} =>
                \A c \in cs : c.id # e.id
          /\ e.state \in {"waiting", "approved"} => WaitingAt(j.events, e.id, e.planAt)
          /\ e.state = "approved" => ApprovedAt(j.events, e.id, e.planAt, j.now)

Good(j, n, cs) ==
    JTyped(j, n, cs) /\ OneEach(j, n) /\ JSlotted(j) /\ Told(j, n) /\ HandedOut(j, n, cs)

\* The state, as a method would start from it.
Held == [now |-> jobsHighWater, entries |-> entries, gate |-> gate, events |-> jobEvents]
JobsInv ==
    /\ Good(Held, nextId, claims)
    /\ trusted \in [Projects -> Revisions \cup {None}]

\* Every entry of fs continues one of es, with the scope that one had.
Continues(es, fs) ==
    \A f \in fs : \E e \in es : e.id = f.id /\ (e.scope # None => f.scope = e.scope)

----------------------------------------------------------------------------
(* What one entry's step does.                                             *)

\* The components of a good record.
LEMMA GoodParts ==
    ASSUME NEW j, NEW n, NEW cs, Good(j, n, cs)
    PROVE  /\ j \in JobRecords /\ n \in Nat /\ cs \subseteq ClaimSet
           /\ j.now \in Nat /\ j.entries \subseteq Entries /\ j.gate \in Gates
           /\ j.events \subseteq JobLines
           /\ \A e \in j.entries : Shaped(e) /\ e \in Entries /\ e.id \in Nat
                                   /\ e.created \in Nat /\ e.project \in Projects
                                   /\ e.state \in Active \cup {"done"}
BY DEF Good, JTyped, JobRecords, Entries

\* A settled entry.
LEMMA SettledEntry ==
    ASSUME NEW e \in Entries, NEW result \in Results, NEW at \in Nat
    PROVE  /\ Settled(e, result, at) \in Entries /\ Shaped(Settled(e, result, at))
           /\ Settled(e, result, at).id = e.id /\ Settled(e, result, at).state = "done"
           /\ Settled(e, result, at).result = result /\ Settled(e, result, at).doneAt = at
           /\ Settled(e, result, at).scope = e.scope
<1> DEFINE f == Settled(e, result, at)
<1>1. /\ f \in Entries /\ f.id = e.id /\ f.state = "done" /\ f.result = result
      /\ f.doneAt = at /\ f.scope = e.scope
  BY DEF Settled, Entries
<1> HIDE DEF f
<1>2. Shaped(f)
  BY <1>1 DEF Shaped
<1> QED
  BY <1>1, <1>2 DEF f

\* The slot's holder is the unfinished entry, or nobody.
LEMMA SlotOf ==
    ASSUME NEW j, NEW n, NEW cs, Good(j, n, cs), NEW e \in j.entries, e.state # "done"
    PROVE  HoldOf("job", j.gate) = IF e.state \in HoldsSlot THEN {<<"job", e.id>>} ELSE {}
<1>1. \A x \in j.entries : x.state \in HoldsSlot => x = e
  BY DEF Good, OneEach, HoldsSlot
<1> QED
  BY <1>1 DEF Good, JSlotted, Holders

\* An unfinished entry ends, with one outcome line and the slot free.
LEMMA SettleGood ==
    ASSUME NEW j, NEW n, NEW cs, Good(j, n, cs), NEW e \in j.entries, e.state \in Active,
           NEW result \in Results, NEW at \in Nat, at <= j.now,
           LineOf(result) \in Never => e.state # "claimed",
           NEW k \in JobRecords, k.now = j.now, HoldOf("job", k.gate) = {},
           k.entries = (j.entries \ {e}) \cup {Settled(e, result, j.now)},
           k.events = j.events \cup {JobLine(LineOf(result), e, at)}
    PROVE  /\ Good(k, n, cs) /\ Continues(j.entries, k.entries)
           /\ \A f \in k.entries : f.state = "done" \/ f \in j.entries \ {e}
<1> DEFINE f == Settled(e, result, j.now)
           l == JobLine(LineOf(result), e, at)
<1>1. /\ f \in Entries /\ Shaped(f) /\ f.id = e.id /\ f.state = "done"
      /\ f.result = result /\ f.doneAt = j.now /\ f.scope = e.scope
  BY GoodParts, SettledEntry
<1>2. l.id = e.id /\ l.kind = LineOf(result) /\ l.at = at
  BY DEF JobLine
<1>3. k.entries = (j.entries \ {e}) \cup {f} /\ k.events = j.events \cup {l}
  OBVIOUS
<1> HIDE DEF f, l
<1>4. e.state # "done"
  BY DEF Active
<1>5. /\ \A x \in j.entries : x.state # "done" => x = e
      /\ \A x \in j.entries : x.id = e.id => x = e
      /\ \A x, y \in j.entries : x.id = y.id => x = y
      /\ \A x \in j.entries : x.id < n
  BY <1>4 DEF Good, OneEach
<1>6. LineOf(result) \in OutcomeLines
  BY DEF LineOf, Results, OutcomeLines
<1>7. JTyped(k, n, cs)
  BY <1>1, <1>3 DEF Good, JTyped
<1>8. OneEach(k, n)
  BY <1>1, <1>3, <1>5 DEF OneEach
<1>9. JSlotted(k)
  <2>1. \A x \in k.entries : x.state \notin HoldsSlot
    BY <1>1, <1>3, <1>5 DEF HoldsSlot
  <2> QED
    BY <2>1 DEF JSlotted, Holders
<1>10. /\ \A id : id # e.id => OutcomesIn(k.events, id) = OutcomesIn(j.events, id)
       /\ OutcomesIn(k.events, e.id) = {l}
  <2>1. OutcomesIn(j.events, e.id) = {}
    BY <1>4 DEF Good, Told
  <2> QED
    BY <1>2, <1>3, <1>6, <2>1 DEF OutcomesIn
<1>11. Told(k, n)
  <2>1. \A x \in k.events : x.id < n
    BY <1>2, <1>3, <1>5 DEF Good, Told
  <2>2. ASSUME NEW x \in k.entries
        PROVE  /\ x.state = "done"
               /\ \E y \in k.events : /\ OutcomesIn(k.events, x.id) = {y}
                                      /\ y.kind = LineOf(x.result) /\ y.at <= x.doneAt
    <3>1. CASE x = f
      BY <1>1, <1>2, <1>3, <1>10, <3>1
    <3>2. CASE x # f
      <4>1. x \in j.entries /\ x # e /\ x.id # e.id /\ x.state = "done"
        BY <1>3, <1>5, <3>2
      <4>2. PICK y \in j.events : /\ OutcomesIn(j.events, x.id) = {y}
                                  /\ y.kind = LineOf(x.result) /\ y.at <= x.doneAt
        BY <4>1 DEF Good, Told
      <4> QED
        BY <1>3, <1>10, <4>1, <4>2
    <3> QED
      BY <3>1, <3>2
  <2> QED
    BY <2>1, <2>2 DEF Told
<1>12. HandedOut(k, n, cs)
  <2>1. \A c, d \in cs : c.id = d.id => c = d
    BY DEF Good, HandedOut
  <2>2. ASSUME NEW c \in cs
        PROVE  /\ c.id < n
               /\ \A y \in OutcomesIn(k.events, c.id) : y.kind \notin Never
               /\ \E w \in k.events : /\ w.kind = "waiting" /\ w.id = c.id
                                      /\ c.at < w.at + MaxPlanAge
                                      /\ ApprovedAt(k.events, c.id, w.at, c.at)
    <3>1. c.id < n
      BY DEF Good, HandedOut
    <3>2. ASSUME NEW y \in OutcomesIn(k.events, c.id) PROVE y.kind \notin Never
      <4>1. CASE c.id = e.id
        <5>1. e.state = "claimed"
          BY <4>1 DEF Good, HandedOut, Active
        <5> QED
          BY <1>2, <1>10, <3>2, <4>1, <5>1
      <4>2. CASE c.id # e.id
        BY <1>10, <3>2, <4>2 DEF Good, HandedOut
      <4> QED
        BY <4>1, <4>2
    <3>3. \E w \in k.events : /\ w.kind = "waiting" /\ w.id = c.id
                              /\ c.at < w.at + MaxPlanAge
                              /\ ApprovedAt(k.events, c.id, w.at, c.at)
      BY <1>3 DEF Good, HandedOut, ApprovedAt
    <3> QED
      BY <3>1, <3>2, <3>3
  <2>3. \A x \in k.entries : x.state = "done"
    BY <1>1, <1>3, <1>5
  <2> QED
    BY <2>1, <2>2, <2>3 DEF HandedOut
<1>13. Continues(j.entries, k.entries)
  BY <1>1, <1>3 DEF Continues
<1>14. \A x \in k.entries : x.state = "done" \/ x \in j.entries \ {e}
  BY <1>1, <1>3
<1> QED
  BY <1>7, <1>8, <1>9, <1>11, <1>12, <1>13, <1>14 DEF Good

\* An unfinished entry goes on to another state, with lines that are no outcomes.
LEMMA AdvanceGood ==
    ASSUME NEW j, NEW n, NEW cs, Good(j, n, cs), NEW e \in j.entries, e.state \in Active,
           NEW f \in Entries, Shaped(f), f.id = e.id, f.state # "done",
           e.scope # None => f.scope = e.scope,
           NEW new \in SUBSET JobLines,
           \A l \in new : l.id = e.id /\ l.kind \notin OutcomeLines,
           NEW k \in JobRecords, k.now = j.now,
           HoldOf("job", k.gate) = IF f.state \in HoldsSlot THEN {<<"job", e.id>>} ELSE {},
           k.entries = (j.entries \ {e}) \cup {f}, k.events = j.events \cup new,
           f.state # "claimed" => e.state # "claimed",
           f.state \in {"waiting", "approved"} => WaitingAt(k.events, f.id, f.planAt),
           f.state = "approved" => ApprovedAt(k.events, f.id, f.planAt, k.now)
    PROVE  Good(k, n, cs) /\ Continues(j.entries, k.entries)
<1>1. e.state # "done"
  BY DEF Active
<1>2. /\ \A x \in j.entries : x.state # "done" => x = e
      /\ \A x \in j.entries : x.id = e.id => x = e
      /\ \A x, y \in j.entries : x.id = y.id => x = y
      /\ \A x \in j.entries : x.id < n
  BY <1>1 DEF Good, OneEach
<1>3. JTyped(k, n, cs)
  BY DEF Good, JTyped
<1>4. OneEach(k, n)
  BY <1>2 DEF OneEach
<1>5. JSlotted(k)
  <2>1. \A x \in k.entries : x.state \in HoldsSlot => x = f
    BY <1>2 DEF HoldsSlot
  <2>2. f \in k.entries
    OBVIOUS
  <2> QED
    BY <2>1, <2>2 DEF JSlotted, Holders
<1>6. \A id : OutcomesIn(k.events, id) = OutcomesIn(j.events, id)
  BY DEF OutcomesIn
<1>7. Told(k, n)
  <2>1. \A l \in k.events : l.id < n
    BY <1>2 DEF Good, Told
  <2>2. \A x \in k.entries : x.state # "done" => OutcomesIn(k.events, x.id) = {}
    <3>1. OutcomesIn(j.events, e.id) = {}
      BY <1>1 DEF Good, Told
    <3> QED
      BY <1>2, <1>6, <3>1
  <2>3. ASSUME NEW x \in k.entries, x.state = "done"
        PROVE  \E y \in k.events : /\ OutcomesIn(k.events, x.id) = {y}
                                   /\ y.kind = LineOf(x.result) /\ y.at <= x.doneAt
    <3>1. x \in j.entries
      BY <2>3
    <3>2. PICK y \in j.events : /\ OutcomesIn(j.events, x.id) = {y}
                                /\ y.kind = LineOf(x.result) /\ y.at <= x.doneAt
      BY <2>3, <3>1 DEF Good, Told
    <3> QED
      BY <1>6, <3>2
  <2> QED
    BY <2>1, <2>2, <2>3 DEF Told
<1>8. HandedOut(k, n, cs)
  <2>1. \A c, d \in cs : c.id = d.id => c = d
    BY DEF Good, HandedOut
  <2>2. ASSUME NEW c \in cs
        PROVE  /\ c.id < n
               /\ \A y \in OutcomesIn(k.events, c.id) : y.kind \notin Never
               /\ \E w \in k.events : /\ w.kind = "waiting" /\ w.id = c.id
                                      /\ c.at < w.at + MaxPlanAge
                                      /\ ApprovedAt(k.events, c.id, w.at, c.at)
    BY <1>6 DEF Good, HandedOut, ApprovedAt
  <2>3. ASSUME NEW x \in k.entries
        PROVE  /\ x.state \in {"queued", "working", "waiting", "approved"} =>
                     \A c \in cs : c.id # x.id
               /\ x.state \in {"waiting", "approved"} => WaitingAt(k.events, x.id, x.planAt)
               /\ x.state = "approved" => ApprovedAt(k.events, x.id, x.planAt, k.now)
    <3>1. CASE x = f
      <4>1. f.state # "claimed" => \A c \in cs : c.id # e.id
        BY DEF Good, HandedOut, Active
      <4> QED
        BY <3>1, <4>1
    <3>2. CASE x # f
      BY <1>2, <3>2
    <3> QED
      BY <3>1, <3>2
  <2> QED
    BY <2>1, <2>2, <2>3 DEF HandedOut
<1>9. Continues(j.entries, k.entries)
  BY DEF Continues
<1> QED
  BY <1>3, <1>4, <1>5, <1>7, <1>8, <1>9 DEF Good

\* A claimed entry's claim is recorded.
LEMMA ClaimGood ==
    ASSUME NEW j, NEW n, NEW cs, Good(j, n, cs), NEW e \in j.entries, e.state = "claimed",
           \A d \in cs : d.id # e.id,
           NEW c \in ClaimSet, c.id = e.id,
           \E w \in j.events : /\ w.kind = "waiting" /\ w.id = c.id
                               /\ c.at < w.at + MaxPlanAge
                               /\ ApprovedAt(j.events, c.id, w.at, c.at)
    PROVE  Good(j, n, cs \cup {c})
<1>1. OutcomesIn(j.events, e.id) = {} /\ e.id < n
  BY DEF Good, Told, OneEach
<1>2. \A x \in j.entries : x.state # "done" => x = e
  BY DEF Good, OneEach
<1>3. JTyped(j, n, cs \cup {c})
  BY DEF Good, JTyped
<1>4. HandedOut(j, n, cs \cup {c})
  <2>1. \A x, y \in cs \cup {c} : x.id = y.id => x = y
    BY DEF Good, HandedOut
  <2>2. ASSUME NEW d \in cs \cup {c}
        PROVE  /\ d.id < n
               /\ \A y \in OutcomesIn(j.events, d.id) : y.kind \notin Never
               /\ \E w \in j.events : /\ w.kind = "waiting" /\ w.id = d.id
                                      /\ d.at < w.at + MaxPlanAge
                                      /\ ApprovedAt(j.events, d.id, w.at, d.at)
    <3>1. CASE d = c
      BY <1>1, <3>1
    <3>2. CASE d # c
      BY <3>2 DEF Good, HandedOut
    <3> QED
      BY <3>1, <3>2
  <2>3. \A x \in j.entries : x.state \notin {"queued", "working", "waiting", "approved"}
    BY <1>2
  <2> QED
    BY <2>1, <2>2, <2>3 DEF HandedOut
<1> QED
  BY <1>3, <1>4 DEF Good

----------------------------------------------------------------------------
(* What a method does before and after the entry's own step.               *)

\* Another gate with the same jobs in it, and fewer of the entries that are done.
LEMMA SameGood ==
    ASSUME NEW j, NEW n, NEW cs, Good(j, n, cs), NEW k \in JobRecords,
           k.now = j.now, k.events = j.events, HoldOf("job", k.gate) = HoldOf("job", j.gate),
           k.entries \subseteq j.entries,
           \A e \in j.entries : e.state # "done" => e \in k.entries
    PROVE  Good(k, n, cs) /\ Continues(j.entries, k.entries)
<1>1. JTyped(k, n, cs) /\ OneEach(k, n)
  BY DEF Good, JTyped, OneEach
<1>2. JSlotted(k)
  BY DEF Good, JSlotted, Holders, HoldsSlot
<1>3. Told(k, n) /\ HandedOut(k, n, cs)
  BY DEF Good, Told, HandedOut
<1>4. Continues(j.entries, k.entries)
  BY DEF Continues
<1> QED
  BY <1>1, <1>2, <1>3, <1>4 DEF Good

LEMMA ContinuesOn ==
    ASSUME NEW es, NEW fs, NEW gs, Continues(es, fs), Continues(fs, gs)
    PROVE  Continues(es, gs)
BY DEF Continues

\* A deadline is a time.
LEMMA DeadlineIsNat ==
    ASSUME NEW e \in Entries, Shaped(e), e.state \in Active
    PROVE  Deadline(e) \in Nat
<1>1. /\ e.created \in Nat
      /\ {PlanTimeout, ApprovalTTL, MaxPlanAge, ClaimTTL} \subseteq Nat
  BY JobsAssumption DEF Entries
<1>2. CASE e.state \in {"queued", "working"}
  BY <1>1, <1>2 DEF Deadline
<1>3. CASE e.state = "waiting"
  BY <1>1, <1>3 DEF Deadline, Shaped
<1>4. CASE e.state = "approved"
  BY <1>1, <1>4 DEF Deadline, Shaped
<1>5. CASE e.state = "claimed"
  BY <1>1, <1>5 DEF Deadline, Shaped
<1> QED
  BY <1>2, <1>3, <1>4, <1>5 DEF Active

\* What lapsing makes of an entry: never a claimed one killed, declined or timed out.
LEMMA LapseResults ==
    ASSUME NEW e, e.state \in Active
    PROVE  /\ LapseResult(e) \in Results /\ LapseLine(e) = LineOf(LapseResult(e))
           /\ LapseLine(e) \in OutcomeLines
           /\ LineOf(LapseResult(e)) \in Never => e.state # "claimed"
BY DEF LapseResult, LapseLine, LineOf, Results, Never, Active, OutcomeLines

\* At most one entry can be overdue: the one that is not done.
LEMMA OverdueOne ==
    ASSUME NEW j, NEW n, NEW cs, Good(j, n, cs), NEW over \in SUBSET Overdue(j, Active)
    PROVE  \/ over = {}
           \/ \E e \in j.entries : over = {e} /\ e.state \in Active /\ Deadline(e) <= j.now
<1>1. \A e \in over : e \in j.entries /\ e.state \in Active /\ Deadline(e) <= j.now
  BY DEF Overdue
<1>2. \A e, f \in over : e = f
  BY <1>1 DEF Good, OneEach, Active
<1> QED
  BY <1>1, <1>2

\* A change of what a method works on, part by part.
LEMMA Parts ==
    ASSUME NEW j \in JobRecords, NEW es, NEW ev, NEW g
    PROVE  LET k == [j EXCEPT !.entries = es, !.events = ev, !.gate = g]
           IN  /\ k.now = j.now /\ k.entries = es /\ k.events = ev /\ k.gate = g
               /\ es \subseteq Entries /\ ev \subseteq JobLines /\ g \in Gates => k \in JobRecords
BY DEF JobRecords
LEMMA NewEntries ==
    ASSUME NEW j \in JobRecords, NEW es
    PROVE  LET k == [j EXCEPT !.entries = es]
           IN  /\ k.now = j.now /\ k.entries = es /\ k.events = j.events /\ k.gate = j.gate
               /\ es \subseteq Entries => k \in JobRecords
BY DEF JobRecords
LEMMA NewGate ==
    ASSUME NEW j \in JobRecords, NEW g
    PROVE  LET k == [j EXCEPT !.gate = g]
           IN  /\ k.now = j.now /\ k.entries = j.entries /\ k.events = j.events /\ k.gate = g
               /\ g \in Gates => k \in JobRecords
BY DEF JobRecords

\* What Lapse does to each part of j.
LEMMA LapseParts ==
    ASSUME NEW j \in JobRecords, NEW over
    PROVE  LET freed == {<<"job", e.id>> : e \in {x \in over : x.state \in HoldsSlot}}
               g == [j.gate EXCEPT !.occupant = @ \ freed]
               k == Lapse(j, over)
           IN  /\ k.now = j.now
               /\ k.entries = (j.entries \ over)
                              \cup {Settled(e, LapseResult(e), j.now) : e \in over}
               /\ k.gate = IF \E e \in over : Asked(e)
                           THEN StruckAt(g, Deadline(CHOOSE e \in over : Asked(e)))
                           ELSE g
               /\ k.events = j.events \cup {JobLine(LapseLine(e), e, Deadline(e)) : e \in over}
               /\ k.entries \subseteq Entries /\ k.events \subseteq JobLines /\ k.gate \in Gates
                  => k \in JobRecords
<1> DEFINE es == (j.entries \ over) \cup {Settled(e, LapseResult(e), j.now) : e \in over}
           ev == j.events \cup {JobLine(LapseLine(e), e, Deadline(e)) : e \in over}
           freed == {<<"job", e.id>> : e \in {x \in over : x.state \in HoldsSlot}}
           g == [j.gate EXCEPT !.occupant = @ \ freed]
           h == IF \E e \in over : Asked(e)
                THEN StruckAt(g, Deadline(CHOOSE e \in over : Asked(e))) ELSE g
           k == [j EXCEPT !.entries = es, !.events = ev, !.gate = h]
<1>1. Lapse(j, over) = k
  BY Zenon DEF Lapse
<1> HIDE DEF es, ev, h
<1>2. /\ k.now = j.now /\ k.entries = es /\ k.events = ev /\ k.gate = h
      /\ es \subseteq Entries /\ ev \subseteq JobLines /\ h \in Gates => k \in JobRecords
  BY Parts, Zenon
<1> HIDE DEF k
<1>3. /\ Lapse(j, over).now = j.now /\ Lapse(j, over).entries = es
      /\ Lapse(j, over).events = ev /\ Lapse(j, over).gate = h
  BY <1>1, <1>2
<1>4. es \subseteq Entries /\ ev \subseteq JobLines /\ h \in Gates => Lapse(j, over) \in JobRecords
  BY <1>1, <1>2
<1> QED
  BY <1>3, <1>4, Zenon DEF es, ev, h

\* Lapse ends what is overdue, and leaves the rest as it is.
LEMMA LapseGood ==
    ASSUME NEW j, NEW n, NEW cs, Good(j, n, cs), NEW over \in SUBSET Overdue(j, Active)
    PROVE  /\ Good(Lapse(j, over), n, cs) /\ Lapse(j, over).now = j.now
           /\ Continues(j.entries, Lapse(j, over).entries)
           /\ \A e \in Lapse(j, over).entries : e.state = "done" \/ e \in j.entries \ over
           /\ j.entries \ over \subseteq Lapse(j, over).entries
<1> DEFINE freed == {<<"job", e.id>> : e \in {x \in over : x.state \in HoldsSlot}}
           g == [j.gate EXCEPT !.occupant = @ \ freed]
           k == Lapse(j, over)
<1>1. j \in JobRecords /\ over \subseteq j.entries /\ j.gate \in Gates /\ j.now \in Nat
  BY GoodParts DEF Overdue
<1>2. /\ k.now = j.now
      /\ k.entries = (j.entries \ over)
                     \cup {Settled(e, LapseResult(e), j.now) : e \in over}
      /\ k.gate = IF \E e \in over : Asked(e)
                  THEN StruckAt(g, Deadline(CHOOSE e \in over : Asked(e)))
                  ELSE g
      /\ k.events = j.events \cup {JobLine(LapseLine(e), e, Deadline(e)) : e \in over}
      /\ k.entries \subseteq Entries /\ k.events \subseteq JobLines /\ k.gate \in Gates
         => k \in JobRecords
  BY <1>1, LapseParts
<1>3. g \in Gates /\ HoldOf("job", g) = HoldOf("job", j.gate) \ freed
  BY <1>1 DEF Gates, HoldOf
<1> HIDE DEF k, g
<1>4. CASE over = {}
  <2>1. k.now = j.now /\ k.entries = j.entries /\ k.gate = g /\ k.events = j.events
    BY <1>2, <1>4
  <2>2. freed = {}
    BY <1>4
  <2>3. k \in JobRecords
    BY <1>1, <1>2, <1>3, <2>1 DEF JobRecords
  <2>4. Good(k, n, cs) /\ Continues(j.entries, k.entries)
    BY <1>3, <2>1, <2>2, <2>3, SameGood
  <2> QED
    BY <1>4, <2>1, <2>4 DEF k
<1>5. ASSUME NEW e \in j.entries, over = {e}, e.state \in Active, Deadline(e) <= j.now
      PROVE  /\ Good(k, n, cs) /\ k.now = j.now /\ Continues(j.entries, k.entries)
             /\ \A x \in k.entries : x.state = "done" \/ x \in j.entries \ over
             /\ j.entries \ over \subseteq k.entries
  <2>1. e \in Entries /\ Shaped(e) /\ e.id \in Nat /\ e.project \in Projects
    BY GoodParts
  <2>2. Deadline(e) \in Nat
    BY <1>5, <2>1, DeadlineIsNat
  <2>3. /\ LapseResult(e) \in Results /\ LapseLine(e) = LineOf(LapseResult(e))
        /\ LapseLine(e) \in OutcomeLines
        /\ LineOf(LapseResult(e)) \in Never => e.state # "claimed"
    BY <1>5, LapseResults
  <2>4. k.entries = (j.entries \ {e}) \cup {Settled(e, LapseResult(e), j.now)}
    BY <1>2, <1>5
  <2>5. k.events = j.events \cup {JobLine(LineOf(LapseResult(e)), e, Deadline(e))}
    BY <1>2, <1>5, <2>3
  <2>6. freed = IF e.state \in HoldsSlot THEN {<<"job", e.id>>} ELSE {}
    BY <1>5
  <2>7. HoldOf("job", j.gate) = IF e.state \in HoldsSlot THEN {<<"job", e.id>>} ELSE {}
    BY <1>5, SlotOf DEF Active
  <2>8. HoldOf("job", g) = {}
    BY <1>3, <2>6, <2>7
  <2>9. k.gate = IF Asked(e) THEN StruckAt(g, Deadline(e)) ELSE g
    <3>1. Asked(e) => (CHOOSE x \in over : Asked(x)) = e
      BY <1>5
    <3> QED
      BY <1>2, <1>5, <3>1
  <2>10. k.gate \in Gates /\ HoldOf("job", k.gate) = {}
    <3>1. <<"job", 0>> \in Occupants
      BY DEF Occupants
    <3>2. StruckAt(g, Deadline(e)) \in Gates /\ HoldOf("job", StruckAt(g, Deadline(e))) = HoldOf("job", g)
      BY <1>3, <2>2, <3>1, HolderOps
    <3> QED
      BY <1>3, <2>8, <2>9, <3>2
  <2>11. k \in JobRecords
    <3>1. Settled(e, LapseResult(e), j.now) \in Entries
      BY <1>1, <2>1, <2>3, SettledEntry
    <3>2. JobLine(LineOf(LapseResult(e)), e, Deadline(e)) \in JobLines
      BY <2>1, <2>2, <2>3 DEF JobLine, JobLines
    <3>3. k.entries \subseteq Entries /\ k.events \subseteq JobLines
      BY <1>1, <2>4, <2>5, <3>1, <3>2 DEF JobRecords
    <3> QED
      BY <1>2, <2>10, <3>3
  <2>12. k.now = j.now
    BY <1>2
  <2>13. /\ Good(k, n, cs) /\ Continues(j.entries, k.entries)
         /\ \A x \in k.entries : x.state = "done" \/ x \in j.entries \ {e}
    BY <1>5, <2>2, <2>3, <2>4, <2>5, <2>10, <2>11, <2>12, SettleGood
  <2> QED
    BY <1>5, <2>4, <2>12, <2>13
<1> QED
  BY <1>4, <1>5, OverdueOne DEF k

\* Forgetting what is done.
LEMMA PrunedGood ==
    ASSUME NEW j, NEW n, NEW cs, Good(j, n, cs)
    PROVE  /\ Good(Pruned(j), n, cs) /\ Continues(j.entries, Pruned(j).entries)
           /\ Pruned(j).now = j.now /\ Pruned(j).gate = j.gate
           /\ Pruned(j).events = j.events /\ Pruned(j).entries \subseteq j.entries
<1> DEFINE k == Pruned(j)
<1>1. j \in JobRecords /\ \A e \in j.entries : Shaped(e)
  BY GoodParts
<1> DEFINE es == {e \in j.entries : e.doneAt = None \/ e.doneAt + Retention > j.now}
<1>2. /\ k.now = j.now /\ k.entries = es /\ k.gate = j.gate /\ k.events = j.events
      /\ es \subseteq Entries => k \in JobRecords
  BY <1>1, NewEntries DEF Pruned
<1>3. k \in JobRecords
  BY <1>1, <1>2 DEF JobRecords
<1> HIDE DEF k
<1>4. \A e \in j.entries : e.state # "done" => e \in k.entries
  BY <1>1, <1>2 DEF Shaped
<1>5. Good(k, n, cs) /\ Continues(j.entries, k.entries)
  BY <1>2, <1>3, <1>4, SameGood
<1> QED
  BY <1>2, <1>5 DEF k

\* Jobs::tick.
LEMMA TickedGood ==
    ASSUME NEW j, NEW n, NEW cs, Good(j, n, cs)
    PROVE  /\ Good(JobsTicked(j), n, cs) /\ Continues(j.entries, JobsTicked(j).entries)
           /\ JobsTicked(j).now = j.now
           /\ \A e \in JobsTicked(j).entries : e.state = "done" \/ e \in j.entries
<1> DEFINE k == Lapse(j, Overdue(j, Active))
<1>1. /\ Good(k, n, cs) /\ k.now = j.now /\ Continues(j.entries, k.entries)
      /\ \A e \in k.entries : e.state = "done" \/ e \in j.entries
  BY LapseGood
<1>2. JobsTicked(j) = Pruned(k)
  BY DEF JobsTicked
<1> HIDE DEF k
<1> QED
  BY <1>1, <1>2, PrunedGood, ContinuesOn

\* What a method starts from.
LEMMA ReadingGood ==
    ASSUME JobsInv, NEW t \in Nat
    PROVE  /\ Good(JobsAt(gate, t), nextId, claims) /\ JobsAt(gate, t).entries = entries
           /\ nextId \in Nat
<1> DEFINE j == JobsAt(gate, t)
<1>1. /\ Held.now = jobsHighWater /\ Held.entries = entries
      /\ Held.gate = gate /\ Held.events = jobEvents
  BY DEF Held
<1>2. j = [now |-> Later(t, jobsHighWater), entries |-> entries, gate |-> gate,
           events |-> jobEvents]
  BY DEF JobsAt
<1>3. Good(Held, nextId, claims) /\ Held \in JobRecords /\ Held.now \in Nat /\ nextId \in Nat
  BY GoodParts DEF JobsInv
<1>4. Later(t, jobsHighWater) \in Nat /\ jobsHighWater <= Later(t, jobsHighWater)
  BY <1>1, <1>3 DEF Later
<1>5. j \in JobRecords
  BY <1>1, <1>2, <1>3, <1>4 DEF JobRecords, Held
<1> HIDE DEF j
<1>6. JTyped(j, nextId, claims) /\ OneEach(j, nextId) /\ JSlotted(j) /\ Told(j, nextId)
  BY <1>1, <1>2, <1>3, <1>5 DEF Good, JTyped, OneEach, JSlotted, Told
<1>7. HandedOut(j, nextId, claims)
  <2>1. \A id \in Nat : \A planAt :
           ApprovedAt(jobEvents, id, planAt, jobsHighWater) =>
              ApprovedAt(jobEvents, id, planAt, j.now)
    <3>1. \A a \in jobEvents : a.at \in Nat
      BY <1>1, <1>3 DEF JobRecords, JobLines
    <3>2. \A at \in Nat : at <= jobsHighWater => at <= j.now
      BY <1>1, <1>2, <1>3, <1>4
    <3> QED
      BY <3>1, <3>2 DEF ApprovedAt
  <2>2. \A e \in entries : e.id \in Nat
    BY <1>1, <1>3, GoodParts
  <2> QED
    BY <1>1, <1>2, <1>3, <2>1, <2>2 DEF Good, HandedOut
<1> QED
  BY <1>2, <1>3, <1>6, <1>7 DEF Good, j

\* The state a method leaves.
LEMMA LeavesInv ==
    ASSUME NEW k, Good(k, nextId', claims'), Leaves(k), Continues(entries, k.entries),
           trusted' \in [Projects -> Revisions \cup {None}]
    PROVE  JobsInv' /\ Continues(entries, entries')
<1>1. /\ Held'.now = k.now /\ Held'.entries = k.entries
      /\ Held'.gate = k.gate /\ Held'.events = k.events
  BY DEF Held, Leaves
<1>2. Held' \in JobRecords
  <2>1. k \in JobRecords
    BY GoodParts
  <2> QED
    BY <1>1, <2>1 DEF Held, JobRecords
<1>3. Good(Held', nextId', claims')
  BY <1>1, <1>2 DEF Good, JTyped, OneEach, JSlotted, Told, HandedOut
<1> QED
  BY <1>3 DEF JobsInv, Leaves

\* A quiet method's, which takes no id, hands out nothing and trusts nothing.
LEMMA QuietInv ==
    ASSUME JobsInv, NEW k, Good(k, nextId, claims), Leaves(k), JobsQuiet,
           Continues(entries, k.entries)
    PROVE  JobsInv' /\ Continues(entries, entries')
<1>1. Good(k, nextId', claims') /\ trusted' \in [Projects -> Revisions \cup {None}]
  BY DEF JobsQuiet, JobsInv
<1> QED
  BY <1>1, LeavesInv

LEMMA OverdueOf ==
    ASSUME NEW j, NEW states \in SUBSET Active, NEW some
    PROVE  Overdue(j, states) \cap some \in SUBSET Overdue(j, Active)
BY DEF Overdue

----------------------------------------------------------------------------
(* The steps the methods share.                                            *)

LEMMA MovedParts ==
    ASSUME NEW j \in JobRecords, NEW e, NEW f, NEW new
    PROVE  LET k == Moved(j, e, f, new)
           IN  /\ k.now = j.now /\ k.entries = (j.entries \ {e}) \cup {f}
               /\ k.events = j.events \cup new /\ k.gate = j.gate
               /\ f \in Entries /\ new \subseteq JobLines => k \in JobRecords
<1> DEFINE es == (j.entries \ {e}) \cup {f}
           ev == j.events \cup new
           k == [j EXCEPT !.entries = es, !.events = ev]
<1>1. Moved(j, e, f, new) = k
  BY Zenon DEF Moved
<1> HIDE DEF es, ev
<1>2. /\ k.now = j.now /\ k.entries = es /\ k.events = ev /\ k.gate = j.gate
      /\ es \subseteq Entries /\ ev \subseteq JobLines => k \in JobRecords
  BY DEF JobRecords
<1> HIDE DEF k
<1>3. f \in Entries /\ new \subseteq JobLines => es \subseteq Entries /\ ev \subseteq JobLines
  BY DEF es, ev, JobRecords
<1> QED
  BY <1>1, <1>2, <1>3 DEF es, ev

\* A line of the ledger.
LEMMA LineTyped ==
    ASSUME NEW e \in Entries, NEW at \in Nat,
           NEW kind \in OutcomeLines \cup {"requested", "started", "waiting", "approved"}
    PROVE  /\ JobLine(kind, e, at) \in JobLines /\ JobLine(kind, e, at).id = e.id
           /\ JobLine(kind, e, at).kind = kind /\ JobLine(kind, e, at).at = at
BY DEF JobLine, JobLines, Entries

\* SettleGood, with a line of now.
LEMMA SettleNow ==
    ASSUME NEW p, NEW n, NEW cs, Good(p, n, cs), NEW e \in p.entries, e.state \in Active,
           NEW result \in Results, LineOf(result) \in Never => e.state # "claimed",
           NEW k \in JobRecords, k.now = p.now, HoldOf("job", k.gate) = {},
           k.entries = (p.entries \ {e}) \cup {Settled(e, result, p.now)},
           k.events = p.events \cup {JobLine(LineOf(result), e, p.now)}
    PROVE  Good(k, n, cs) /\ Continues(p.entries, k.entries)
<1>1. p.now \in Nat /\ p.now <= p.now /\ e \in Entries
  BY GoodParts
<1>2. Good(k, n, cs)
  BY <1>1, SettleGood
<1>3. /\ Settled(e, result, p.now).id = e.id
      /\ Settled(e, result, p.now).scope = e.scope
  BY <1>1, SettledEntry
<1> QED
  BY <1>2, <1>3 DEF Continues

\* An entry ends now, and the slot with it: freed or never held, struck or not.
LEMMA EndedGood ==
    ASSUME NEW p, NEW n, NEW cs, Good(p, n, cs), NEW e \in p.entries, e.state \in Active,
           NEW result \in Results, LineOf(result) \in Never => e.state # "claimed",
           NEW es, Continues(es, p.entries)
    PROVE  LET m == Ended(p, e, result, LineOf(result))
           IN  /\ e.state \notin HoldsSlot => Good(m, n, cs) /\ Continues(es, m.entries)
               /\ Good(Freed(m, e), n, cs) /\ Continues(es, Freed(m, e).entries)
               /\ /\ Good(Struck(Freed(m, e), p.now), n, cs)
                  /\ Continues(es, Struck(Freed(m, e), p.now).entries)
<1> DEFINE m == Ended(p, e, result, LineOf(result))
           r == Released(p.gate, <<"job", e.id>>)
           q == Freed(m, e)
           s == Struck(q, p.now)
<1>1. /\ p \in JobRecords /\ p.now \in Nat /\ e \in Entries /\ e.id \in Nat
      /\ p.gate \in Gates /\ p.now <= p.now
  BY GoodParts
<1>2. LineOf(result) \in OutcomeLines
  BY DEF LineOf, Results, OutcomeLines
<1>3. /\ Settled(e, result, p.now) \in Entries
      /\ {JobLine(LineOf(result), e, p.now)} \subseteq JobLines
  BY <1>1, <1>2, SettledEntry, LineTyped
<1>4. /\ m.now = p.now /\ m.entries = (p.entries \ {e}) \cup {Settled(e, result, p.now)}
      /\ m.events = p.events \cup {JobLine(LineOf(result), e, p.now)} /\ m.gate = p.gate
      /\ m \in JobRecords
  BY <1>1, <1>3, MovedParts DEF Ended
<1>5. HoldOf("job", p.gate) = IF e.state \in HoldsSlot THEN {<<"job", e.id>>} ELSE {}
  BY SlotOf DEF Active
<1>6. <<"job", e.id>> \in Occupants
  BY <1>1 DEF Occupants
<1>7. r \in Gates /\ HoldOf("job", r) = {}
  BY <1>1, <1>5, <1>6, HolderOps
<1> HIDE DEF m, r
<1>7a. StruckAt(r, p.now) \in Gates /\ HoldOf("job", StruckAt(r, p.now)) = {}
  BY <1>1, <1>6, <1>7, HolderOps
<1>8. /\ q.now = p.now /\ q.entries = m.entries /\ q.events = m.events
      /\ q.gate = r /\ q \in JobRecords
  BY <1>4, <1>7, NewGate DEF Freed, r
<1> HIDE DEF q
<1>9. /\ s.now = p.now /\ s.entries = m.entries /\ s.events = m.events
      /\ s.gate = StruckAt(r, p.now) /\ s \in JobRecords
  BY <1>7a, <1>8, NewGate DEF Struck
<1> HIDE DEF s
<1>10. ASSUME NEW k \in JobRecords, k.now = p.now, k.entries = m.entries,
              k.events = m.events, HoldOf("job", k.gate) = {}
       PROVE  Good(k, n, cs) /\ Continues(es, k.entries)
  <2>1. /\ k.entries = (p.entries \ {e}) \cup {Settled(e, result, p.now)}
        /\ k.events = p.events \cup {JobLine(LineOf(result), e, p.now)}
    BY <1>4, <1>10
  <2>2. Good(k, n, cs) /\ Continues(p.entries, k.entries)
    BY <1>10, <2>1, SettleNow
  <2> QED
    BY <2>2, ContinuesOn
<1>11. e.state \notin HoldsSlot => Good(m, n, cs) /\ Continues(es, m.entries)
  BY <1>4, <1>5, <1>10
<1>12. Good(q, n, cs) /\ Continues(es, q.entries)
  BY <1>7, <1>8, <1>10
<1>13. Good(s, n, cs) /\ Continues(es, s.entries)
  BY <1>7a, <1>9, <1>10
<1> QED
  BY <1>11, <1>12, <1>13 DEF m, q, s

----------------------------------------------------------------------------
(* One lemma per method.                                                   *)

\* Jobs::tick.
LEMMA TickInv ==
    ASSUME JobsInv, NEW j, Good(j, nextId, claims), Continues(entries, j.entries), JobTick(j)
    PROVE  JobsInv' /\ Continues(entries, entries')
BY TickedGood, ContinuesOn, QuietInv DEF JobTick

\* Jobs::poll.
LEMMA PollInv ==
    ASSUME JobsInv, NEW j, Good(j, nextId, claims), Continues(entries, j.entries),
           NEW runner, JobPoll(j, runner)
    PROVE  JobsInv' /\ Continues(entries, entries')
<1> DEFINE mine == {e \in j.entries : RunnerOf[e.project] = runner}
           p == Lapse(j, Overdue(j, {"queued", "working", "approved"}) \cap mine)
           queued == {e \in p.entries \cap mine : e.state = "queued"}
<1>1. Good(p, nextId, claims) /\ Continues(entries, p.entries)
  BY OverdueOf, LapseGood, ContinuesOn DEF Active
<1>2. /\ \/ \E e \in queued : Leaves(Moved(p, e, [e EXCEPT !.state = "working"],
                                           {JobLine("started", e, p.now)}))
         \/ Leaves(p)
      /\ JobsQuiet
  BY DEF JobPoll
<1> HIDE DEF mine, p
<1>3. ASSUME NEW e \in queued,
             Leaves(Moved(p, e, [e EXCEPT !.state = "working"], {JobLine("started", e, p.now)}))
      PROVE  JobsInv' /\ Continues(entries, entries')
  <2> DEFINE f == [e EXCEPT !.state = "working"]
             new == {JobLine("started", e, p.now)}
             k == Moved(p, e, f, new)
  <2>1. /\ p \in JobRecords /\ p.now \in Nat /\ e \in p.entries /\ e \in Entries /\ Shaped(e)
        /\ e.state = "queued"
    BY <1>1, <1>3, GoodParts
  <2>2. /\ f \in Entries /\ f.id = e.id /\ f.state = "working" /\ f.scope = e.scope
        /\ f.doneAt = e.doneAt
    BY <2>1 DEF Entries, Active
  <2> HIDE DEF f
  <2>3. Shaped(f)
    BY <2>1, <2>2 DEF Shaped
  <2>4. new \in SUBSET JobLines /\ \A l \in new : l.id = e.id /\ l.kind \notin OutcomeLines
    BY <2>1, LineTyped DEF OutcomeLines
  <2> HIDE DEF new
  <2>5. /\ k.now = p.now /\ k.entries = (p.entries \ {e}) \cup {f}
        /\ k.events = p.events \cup new /\ k.gate = p.gate /\ k \in JobRecords
    BY <2>1, <2>2, <2>4, MovedParts
  <2> HIDE DEF k
  <2>6. HoldOf("job", k.gate) = {<<"job", e.id>>}
    BY <1>1, <2>1, <2>5, SlotOf DEF HoldsSlot
  <2>7. Good(k, nextId, claims) /\ Continues(p.entries, k.entries)
    BY <1>1, <2>1, <2>2, <2>3, <2>4, <2>5, <2>6, AdvanceGood DEF Active, HoldsSlot
  <2>8. Leaves(k)
    BY <1>3 DEF k, f, new
  <2> QED
    BY <1>1, <1>2, <2>7, <2>8, ContinuesOn, QuietInv
<1> QED
  BY <1>1, <1>2, <1>3, QuietInv

\* Jobs::refuse.
LEMMA RefuseInv ==
    ASSUME JobsInv, NEW j, Good(j, nextId, claims), Continues(entries, j.entries),
           NEW runner, NEW id, NEW result \in {"refused", "plan_failed"},
           JobRefuse(j, runner, id, result)
    PROVE  JobsInv' /\ Continues(entries, entries')
<1> DEFINE p == Lapse(j, Overdue(j, {"queued", "working"}) \cap EntryOf(j, id, Active))
           fits == {e \in EntryOf(p, id, {"working"}) : RunnerOf[e.project] = runner}
<1>1. Good(p, nextId, claims) /\ Continues(entries, p.entries)
  BY OverdueOf, LapseGood, ContinuesOn DEF Active
<1>2. /\ \/ \E e \in fits : Leaves(Freed(Ended(p, e, result, "refused"), e))
         \/ Leaves(p)
      /\ JobsQuiet
  BY DEF JobRefuse
<1> HIDE DEF p
<1>3. ASSUME NEW e \in fits, Leaves(Freed(Ended(p, e, result, "refused"), e))
      PROVE  JobsInv' /\ Continues(entries, entries')
  <2>1. e \in p.entries /\ e.state \in Active /\ e.state # "claimed"
    BY <1>3 DEF EntryOf, Active
  <2>2. result \in Results /\ "refused" = LineOf(result)
    BY DEF Results, LineOf
  <2>3. /\ Good(Freed(Ended(p, e, result, "refused"), e), nextId, claims)
        /\ Continues(entries, Freed(Ended(p, e, result, "refused"), e).entries)
    BY <1>1, <2>1, <2>2, EndedGood
  <2> QED
    BY <1>2, <1>3, <2>3, QuietInv
<1> QED
  BY <1>1, <1>2, <1>3, QuietInv

\* Jobs::decline.
LEMMA DeclineInv ==
    ASSUME JobsInv, NEW j, Good(j, nextId, claims), Continues(entries, j.entries),
           NEW id, JobDecline(j, id)
    PROVE  JobsInv' /\ Continues(entries, entries')
<1>1. ASSUME NEW e \in EntryOf(j, id, {"waiting"}),
             Leaves(Struck(Freed(Ended(j, e, "declined", "declined"), e), j.now))
      PROVE  JobsInv' /\ Continues(entries, entries')
  <2>1. e \in j.entries /\ e.state \in Active /\ e.state # "claimed"
    BY <1>1 DEF EntryOf, Active
  <2>2. "declined" \in Results /\ "declined" = LineOf("declined")
    BY DEF Results, LineOf
  <2> DEFINE k == Struck(Freed(Ended(j, e, "declined", "declined"), e), j.now)
  <2>3. Good(k, nextId, claims) /\ Continues(entries, k.entries)
    BY <2>1, <2>2, EndedGood
  <2> QED
    BY <1>1, <2>3, QuietInv DEF JobDecline
<1> QED
  BY <1>1, QuietInv DEF JobDecline

\* Jobs::refuse_claimed.
LEMMA RefuseClaimedInv ==
    ASSUME JobsInv, NEW j, Good(j, nextId, claims), Continues(entries, j.entries),
           NEW id, JobRefuseClaimed(j, id)
    PROVE  JobsInv' /\ Continues(entries, entries')
<1>1. ASSUME NEW e \in EntryOf(j, id, {"claimed"}), Leaves(Ended(j, e, "refused", "refused"))
      PROVE  JobsInv' /\ Continues(entries, entries')
  <2>1. e \in j.entries /\ e.state \in Active /\ e.state \notin HoldsSlot
    BY <1>1 DEF EntryOf, Active, HoldsSlot
  <2>2. /\ "refused" \in Results /\ "refused" = LineOf("refused")
        /\ LineOf("refused") \notin Never
    BY DEF Results, LineOf, Never
  <2> DEFINE k == Ended(j, e, "refused", "refused")
  <2>3. Good(k, nextId, claims) /\ Continues(entries, k.entries)
    BY <2>1, <2>2, EndedGood
  <2> QED
    BY <1>1, <2>3, QuietInv DEF JobRefuseClaimed
<1> QED
  BY <1>1, QuietInv DEF JobRefuseClaimed

\* What is left unfinished after a method's own lapse was there, and not overdue.
LEMMA NotOverdue ==
    ASSUME NEW j, NEW n, NEW cs, Good(j, n, cs), NEW state \in Active,
           NEW some, NEW e \in some, e.state = state,
           e \in Lapse(j, Overdue(j, {state}) \cap some).entries
    PROVE  /\ e \in j.entries /\ ~(Deadline(e) <= j.now)
           /\ Lapse(j, Overdue(j, {state}) \cap some).now = j.now
<1> DEFINE over == Overdue(j, {state}) \cap some
           p == Lapse(j, over)
<1>1. over \in SUBSET Overdue(j, Active)
  BY OverdueOf
<1> HIDE DEF over
<1>2. p.now = j.now /\ \A x \in p.entries : x.state = "done" \/ x \in j.entries \ over
  BY <1>1, LapseGood
<1>3. e \in p.entries
  BY DEF over
<1> HIDE DEF p
<1>4. e \in j.entries \ over
  BY <1>2, <1>3 DEF Active
<1> QED
  BY <1>2, <1>4 DEF over, Overdue, p

\* Jobs::submit.
LEMMA SubmitInv ==
    ASSUME JobsInv, NEW j, Good(j, nextId, claims), Continues(entries, j.entries),
           NEW runner, NEW id, NEW scope \in JobScopes, JobSubmit(j, runner, id, scope)
    PROVE  JobsInv' /\ Continues(entries, entries')
<1> DEFINE p == Lapse(j, Overdue(j, {"queued", "working"}) \cap EntryOf(j, id, Active))
           fits == {e \in EntryOf(p, id, Submittable) :
                       /\ RunnerOf[e.project] = runner
                       /\ scope.kind = e.kind /\ scope.project = e.project}
           waits(e) == [e EXCEPT !.state = "waiting", !.scope = scope, !.planAt = p.now]
<1>1. Good(p, nextId, claims) /\ Continues(entries, p.entries)
  BY OverdueOf, LapseGood, ContinuesOn DEF Active
<1>2. /\ \/ \E e \in fits : Leaves(Moved(p, e, waits(e), {JobLine("waiting", e, p.now)}))
         \/ \E e \in fits : Leaves(Freed(Ended(p, e, "refused", "refused"), e))
         \/ Leaves(p)
      /\ JobsQuiet
  BY DEF JobSubmit
<1> HIDE DEF p
<1>3. ASSUME NEW e \in fits, Leaves(Moved(p, e, waits(e), {JobLine("waiting", e, p.now)}))
      PROVE  JobsInv' /\ Continues(entries, entries')
  <2> DEFINE f == waits(e)
             new == {JobLine("waiting", e, p.now)}
             k == Moved(p, e, f, new)
  <2>1. /\ p \in JobRecords /\ p.now \in Nat /\ e \in p.entries /\ e \in Entries /\ Shaped(e)
        /\ e.state = "working"
    BY <1>1, <1>3, GoodParts DEF EntryOf, Submittable
  <2>2. /\ f \in Entries /\ f.id = e.id /\ f.state = "waiting" /\ f.scope = scope
        /\ f.planAt = p.now /\ f.doneAt = e.doneAt
    BY <2>1 DEF Entries, Active
  <2> HIDE DEF f
  <2>3. Shaped(f) /\ e.scope = None
    BY <2>1, <2>2 DEF Shaped
  <2>4. new \in SUBSET JobLines /\ \A l \in new : l.id = e.id /\ l.kind \notin OutcomeLines
    BY <2>1, LineTyped DEF OutcomeLines
  <2>5. WaitingAt(new, f.id, f.planAt)
    BY <2>1, <2>2, LineTyped DEF WaitingAt
  <2> HIDE DEF new
  <2>6. /\ k.now = p.now /\ k.entries = (p.entries \ {e}) \cup {f}
        /\ k.events = p.events \cup new /\ k.gate = p.gate /\ k \in JobRecords
    BY <2>1, <2>2, <2>4, MovedParts
  <2> HIDE DEF k
  <2>7. HoldOf("job", k.gate) = {<<"job", e.id>>} /\ WaitingAt(k.events, f.id, f.planAt)
    BY <1>1, <2>1, <2>5, <2>6, SlotOf DEF HoldsSlot, WaitingAt
  <2>8. Good(k, nextId, claims) /\ Continues(p.entries, k.entries)
    BY <1>1, <2>1, <2>2, <2>3, <2>4, <2>6, <2>7, AdvanceGood DEF Active, HoldsSlot
  <2>9. Leaves(k)
    BY <1>3 DEF k, f, new
  <2> QED
    BY <1>1, <1>2, <2>8, <2>9, ContinuesOn, QuietInv
<1>4. ASSUME NEW e \in fits, Leaves(Freed(Ended(p, e, "refused", "refused"), e))
      PROVE  JobsInv' /\ Continues(entries, entries')
  <2>1. e \in p.entries /\ e.state \in Active /\ e.state # "claimed"
    BY <1>4 DEF EntryOf, Active, Submittable
  <2>2. "refused" \in Results /\ "refused" = LineOf("refused")
    BY DEF Results, LineOf
  <2>3. /\ Good(Freed(Ended(p, e, "refused", "refused"), e), nextId, claims)
        /\ Continues(entries, Freed(Ended(p, e, "refused", "refused"), e).entries)
    BY <1>1, <2>1, <2>2, EndedGood
  <2> QED
    BY <1>2, <1>4, <2>3, QuietInv
<1> QED
  BY <1>1, <1>2, <1>3, <1>4, QuietInv

\* Jobs::approve.
LEMMA ApproveInv ==
    ASSUME JobsInv, NEW j, Good(j, nextId, claims), Continues(entries, j.entries),
           NEW id, NEW nonce, NEW scope, JobApprove(j, id, nonce, scope)
    PROVE  JobsInv' /\ Continues(entries, entries')
<1> DEFINE p == Lapse(j, Overdue(j, {"waiting"}) \cap EntryOf(j, id, Active))
           signed == {e \in EntryOf(p, id, {"waiting"}) : nonce = e.id /\ scope = e.scope}
           approved(e) == Moved(p, e, [e EXCEPT !.state = "approved"],
                                {JobLine("approved", e, p.now)})
<1>1. Good(p, nextId, claims) /\ Continues(entries, p.entries)
  BY OverdueOf, LapseGood, ContinuesOn DEF Active
<1>2. /\ \/ \E e \in signed : Leaves([Freed(approved(e), e) EXCEPT !.gate = Forgiven(@)])
         \/ \E e \in signed : Leaves(Freed(Ended(p, e, "refused", "refused"), e))
         \/ Leaves(p)
      /\ JobsQuiet
  BY DEF JobApprove
<1>3. ASSUME NEW e \in signed
      PROVE  e \in p.entries /\ e.state = "waiting" /\ ~(Deadline(e) <= p.now)
  <2>1. e \in p.entries /\ e.state = "waiting" /\ e.id = id
    BY <1>3 DEF EntryOf
  <2>2. e \in j.entries
    BY <2>1, OverdueOf, LapseGood DEF Active
  <2>3. e \in EntryOf(j, id, Active)
    BY <2>1, <2>2 DEF EntryOf, Active
  <2> QED
    BY <2>1, <2>3, NotOverdue DEF Active
<1> HIDE DEF p
<1>4. ASSUME NEW e \in signed,
             Leaves([Freed(approved(e), e) EXCEPT !.gate = Forgiven(@)])
      PROVE  JobsInv' /\ Continues(entries, entries')
  <2> DEFINE f == [e EXCEPT !.state = "approved"]
             new == {JobLine("approved", e, p.now)}
             m == Moved(p, e, f, new)
             q == Freed(m, e)
             k == [q EXCEPT !.gate = Forgiven(q.gate)]
  <2>1. /\ p \in JobRecords /\ p.now \in Nat /\ e \in p.entries /\ e \in Entries /\ Shaped(e)
        /\ e.state = "waiting" /\ p.gate \in Gates /\ e.id \in Nat
    BY <1>1, <1>3, GoodParts
  <2>2. /\ f \in Entries /\ f.id = e.id /\ f.state = "approved" /\ f.scope = e.scope
        /\ f.planAt = e.planAt /\ f.doneAt = e.doneAt
    BY <2>1 DEF Entries, Active
  <2>3. k = [Freed(approved(e), e) EXCEPT !.gate = Forgiven(@)]
    BY Zenon
  <2> HIDE DEF f
  <2>4. Shaped(f)
    BY <2>1, <2>2 DEF Shaped
  <2>5. new \in SUBSET JobLines /\ \A l \in new : l.id = e.id /\ l.kind \notin OutcomeLines
    BY <2>1, LineTyped DEF OutcomeLines
  <2>6. ApprovedAt(new, f.id, f.planAt, p.now)
    <3>1. p.now < e.planAt + ApprovalTTL
      BY <1>3, <2>1, JobsAssumption DEF Deadline, Shaped
    <3>2. p.now <= p.now
      BY <2>1
    <3> QED
      BY <2>1, <2>2, <3>1, <3>2, LineTyped DEF ApprovedAt
  <2> HIDE DEF new
  <2>7. /\ m.now = p.now /\ m.entries = (p.entries \ {e}) \cup {f}
        /\ m.events = p.events \cup new /\ m.gate = p.gate /\ m \in JobRecords
    BY <2>1, <2>2, <2>5, MovedParts
  <2> HIDE DEF m
  <2>8. /\ <<"job", e.id>> \in Occupants
        /\ HoldOf("job", p.gate) = {<<"job", e.id>>}
    BY <1>1, <2>1, SlotOf DEF Occupants, HoldsSlot
  <2>9. /\ q.now = p.now /\ q.entries = m.entries /\ q.events = m.events
        /\ q.gate = Released(p.gate, <<"job", e.id>>) /\ q.gate \in Gates
        /\ HoldOf("job", q.gate) = {} /\ q \in JobRecords
    <3>1. /\ Released(p.gate, <<"job", e.id>>) \in Gates
          /\ HoldOf("job", Released(p.gate, <<"job", e.id>>)) = {}
      BY <2>1, <2>8, HolderOps
    <3> QED
      BY <2>7, <3>1, NewGate DEF Freed
  <2> HIDE DEF q
  <2>10. /\ k.now = p.now /\ k.entries = m.entries /\ k.events = m.events
         /\ HoldOf("job", k.gate) = {} /\ k \in JobRecords
    <3>1. Forgiven(q.gate) \in Gates /\ HoldOf("job", Forgiven(q.gate)) = {}
      BY <2>1, <2>8, <2>9, HolderOps
    <3> QED
      BY <2>9, <3>1, NewGate
  <2>11. Leaves(k)
    BY <1>4, <2>3
  <2> HIDE DEF k
  <2>12. /\ WaitingAt(k.events, f.id, f.planAt)
         /\ ApprovedAt(k.events, f.id, f.planAt, k.now)
    <3>1. WaitingAt(p.events, e.id, e.planAt)
      BY <1>1, <2>1 DEF Good, HandedOut
    <3> QED
      BY <2>2, <2>6, <2>7, <2>10, <3>1 DEF WaitingAt, ApprovedAt
  <2>13. /\ k.entries = (p.entries \ {e}) \cup {f} /\ k.events = p.events \cup new
    BY <2>7, <2>10
  <2>14. Good(k, nextId, claims) /\ Continues(p.entries, k.entries)
    BY <1>1, <2>1, <2>2, <2>4, <2>5, <2>10, <2>12, <2>13, AdvanceGood DEF Active, HoldsSlot
  <2> QED
    BY <1>1, <1>2, <2>11, <2>14, ContinuesOn, QuietInv
<1>5. ASSUME NEW e \in signed, Leaves(Freed(Ended(p, e, "refused", "refused"), e))
      PROVE  JobsInv' /\ Continues(entries, entries')
  <2>1. e \in p.entries /\ e.state \in Active /\ e.state # "claimed"
    BY <1>3, <1>5 DEF Active
  <2>2. "refused" \in Results /\ "refused" = LineOf("refused")
    BY DEF Results, LineOf
  <2>3. /\ Good(Freed(Ended(p, e, "refused", "refused"), e), nextId, claims)
        /\ Continues(entries, Freed(Ended(p, e, "refused", "refused"), e).entries)
    BY <1>1, <2>1, <2>2, EndedGood
  <2> QED
    BY <1>2, <1>5, <2>3, QuietInv
<1> QED
  BY <1>1, <1>2, <1>4, <1>5, QuietInv

\* What still stands is what the scope was signed against.
LEMMA StillTrustedStands ==
    ASSUME trusted \in [Projects -> Revisions \cup {None}], NEW scope \in JobScopes,
           StillTrusted(scope)
    PROVE  Stands(scope)
<1>1. CASE scope \in ApplyScopes
  BY <1>1 DEF StillTrusted, Stands, ApplyTrusted, ApplyScopes
<1>2. CASE scope \in TrustScopes
  <2>1. /\ scope.kind = "trust" /\ scope.project \in Projects
        /\ scope.baseline \in Digests \cup {None}
    BY <1>2 DEF TrustScopes
  <2>2. scope.baseline = IF trusted[scope.project] = None THEN None
                         ELSE trusted[scope.project].digest
    BY <2>1 DEF StillTrusted, BaselineCurrent
  <2>3. CASE trusted[scope.project] = None
    BY <2>1, <2>2, <2>3 DEF Stands
  <2>4. CASE trusted[scope.project] # None
    <3>1. trusted[scope.project] \in Revisions
      BY <2>1, <2>4
    <3>2. /\ trusted[scope.project] \in [digest: {scope.baseline}, schema: Schemas]
          /\ scope.baseline \in Digests
      BY <2>2, <2>4, <3>1 DEF Revisions
    <3>3. scope.baseline # None
      BY <3>2, JobsAssumption
    <3> QED
      BY <2>1, <3>2, <3>3 DEF Stands
  <2> QED
    BY <2>3, <2>4
<1> QED
  BY <1>1, <1>2 DEF JobScopes

\* Jobs::claim: once, in time, and what was signed.
LEMMA ClaimInv ==
    ASSUME JobsInv, NEW j, Good(j, nextId, claims), j.entries = entries,
           NEW runner, NEW id \in Nat, JobClaim(j, runner, id)
    PROVE  JobsInv' /\ Continues(entries, entries') /\ ClaimsStillTrusted
<1> DEFINE mine == {e \in EntryOf(j, id, Active) : RunnerOf[e.project] = runner}
           p == Lapse(j, Overdue(j, {"approved"}) \cap mine)
           ready == {e \in EntryOf(p, id, {"approved"}) : RunnerOf[e.project] = runner}
           takes(e) == [e EXCEPT !.state = "claimed", !.claimedAt = p.now]
           claim(e) == [id |-> id, scope |-> e.scope, at |-> p.now]
<1>1. Good(p, nextId, claims) /\ Continues(entries, p.entries)
  BY OverdueOf, LapseGood DEF Active
<1>2. /\ \/ \E e \in ready :
               /\ StillTrusted(e.scope)
               /\ Leaves(Moved(p, e, takes(e), {}))
               /\ claims' = claims \cup {claim(e)}
         \/ \E e \in ready : Leaves(Ended(p, e, "refused", "refused")) /\ UNCHANGED claims
         \/ Leaves(p) /\ UNCHANGED claims
      /\ UNCHANGED <<nextId, trusted>>
  BY DEF JobClaim
<1>3. ASSUME NEW e \in ready
      PROVE  /\ e \in p.entries /\ e \in entries /\ e.state = "approved" /\ e.id = id
             /\ ~(Deadline(e) <= p.now)
  <2>1. e \in p.entries /\ e.state = "approved" /\ e.id = id
    BY <1>3 DEF EntryOf
  <2>2. e \in j.entries
    BY <2>1, OverdueOf, LapseGood DEF Active
  <2>3. e \in mine
    BY <1>3, <2>1, <2>2 DEF EntryOf, Active
  <2> HIDE DEF mine
  <2> QED
    BY <2>1, <2>3, NotOverdue DEF Active
<1> HIDE DEF p
<1>4. trusted \in [Projects -> Revisions \cup {None}]
      /\ trusted' \in [Projects -> Revisions \cup {None}]
  BY <1>2 DEF JobsInv
<1>5. ASSUME NEW e \in ready, StillTrusted(e.scope),
             Leaves(Moved(p, e, takes(e), {})), claims' = claims \cup {claim(e)}
      PROVE  JobsInv' /\ Continues(entries, entries') /\ ClaimsStillTrusted
  <2> DEFINE f == takes(e)
             new == {}
             k == Moved(p, e, f, new)
             c == claim(e)
  <2>1. /\ p \in JobRecords /\ p.now \in Nat /\ e \in p.entries /\ e \in Entries /\ Shaped(e)
        /\ e.state = "approved" /\ e.scope \in JobScopes /\ e.planAt \in Nat
    BY <1>1, <1>3, GoodParts DEF Shaped
  <2>2. /\ f \in Entries /\ f.id = e.id /\ f.state = "claimed" /\ f.scope = e.scope
        /\ f.planAt = e.planAt /\ f.claimedAt = p.now /\ f.doneAt = e.doneAt
    BY <2>1 DEF Entries, Active
  <2>3. c \in ClaimSet /\ c.id = e.id /\ c.scope = e.scope /\ c.at = p.now
    BY <1>3, <2>1 DEF ClaimSet
  <2> HIDE DEF f
  <2>4. Shaped(f)
    BY <2>1, <2>2 DEF Shaped
  <2>5. new \in SUBSET JobLines /\ \A l \in new : l.id = e.id /\ l.kind \notin OutcomeLines
    OBVIOUS
  <2> HIDE DEF new
  <2>6. /\ k.now = p.now /\ k.entries = (p.entries \ {e}) \cup {f}
        /\ k.events = p.events \cup new /\ k.gate = p.gate /\ k \in JobRecords
    BY <2>1, <2>2, <2>5, MovedParts
  <2> HIDE DEF k, c
  <2>7. HoldOf("job", k.gate) = {}
    BY <1>1, <2>1, <2>6, SlotOf DEF HoldsSlot
  <2>8. Good(k, nextId, claims) /\ Continues(p.entries, k.entries)
    BY <1>1, <2>1, <2>2, <2>4, <2>5, <2>6, <2>7, AdvanceGood DEF Active, HoldsSlot
  <2>9. \A d \in claims : d.id # f.id
    BY <1>1, <2>1, <2>2 DEF Good, HandedOut
  <2>10. \E w \in k.events : /\ w.kind = "waiting" /\ w.id = c.id
                             /\ c.at < w.at + MaxPlanAge
                             /\ ApprovedAt(k.events, c.id, w.at, c.at)
    <3>1. PICK w \in p.events : w.kind = "waiting" /\ w.id = e.id /\ w.at = e.planAt
      BY <1>1, <2>1 DEF Good, HandedOut, WaitingAt
    <3>2. ApprovedAt(p.events, e.id, e.planAt, p.now)
      BY <1>1, <2>1 DEF Good, HandedOut
    <3>3. p.now < e.planAt + MaxPlanAge
      BY <1>3, <2>1, JobsAssumption DEF Deadline
    <3>4. ApprovedAt(k.events, c.id, w.at, c.at)
      BY <2>3, <2>6, <3>1, <3>2 DEF ApprovedAt
    <3> QED
      BY <2>3, <2>6, <3>1, <3>3, <3>4
  <2>11. f \in k.entries
    BY <2>6
  <2>12. Good(k, nextId, claims \cup {c})
    BY <2>2, <2>3, <2>8, <2>9, <2>10, <2>11, ClaimGood
  <2>13. /\ Leaves(k) /\ Good(k, nextId', claims') /\ Continues(entries, k.entries)
    BY <1>1, <1>2, <1>5, <2>8, <2>12, ContinuesOn DEF k, f, c, new
  <2>14. ClaimsStillTrusted
    <3>1. Stands(e.scope)
      BY <1>4, <1>5, <2>1, StillTrustedStands
    <3>2. \A d \in claims' \ claims : d = c
      BY <1>5 DEF c
    <3> QED
      BY <1>3, <2>1, <2>3, <3>1, <3>2 DEF ClaimsStillTrusted
  <2> QED
    BY <1>4, <2>13, <2>14, LeavesInv
<1>6. ASSUME NEW e \in ready, Leaves(Ended(p, e, "refused", "refused")), UNCHANGED claims
      PROVE  JobsInv' /\ Continues(entries, entries')
  <2>1. e \in p.entries /\ e.state \in Active /\ e.state \notin HoldsSlot
        /\ e.state # "claimed"
    BY <1>3, <1>6 DEF Active, HoldsSlot
  <2>2. "refused" \in Results /\ "refused" = LineOf("refused")
    BY DEF Results, LineOf
  <2> DEFINE k == Ended(p, e, "refused", "refused")
  <2>3. Good(k, nextId, claims) /\ Continues(entries, k.entries)
    BY <1>1, <2>1, <2>2, EndedGood
  <2> QED
    BY <1>2, <1>4, <1>6, <2>3, LeavesInv
<1>7. UNCHANGED claims => ClaimsStillTrusted
  BY DEF ClaimsStillTrusted
<1> QED
  BY <1>1, <1>2, <1>4, <1>5, <1>6, <1>7, LeavesInv

\* Jobs::finish.
LEMMA FinishInv ==
    ASSUME JobsInv, NEW j, Good(j, nextId, claims), Continues(entries, j.entries),
           NEW runner, NEW project \in Projects, NEW id \in Nat, id < nextId,
           NEW result \in {"trusted", "applied", "apply_failed", "outcome_unknown"},
           JobFinish(j, runner, project, id, result)
    PROVE  JobsInv' /\ Continues(entries, entries')
<1> DEFINE known == {e \in j.entries : e.id = id}
           line == [kind |-> result, id |-> id, project |-> project, at |-> j.now]
           k == [j EXCEPT !.events = @ \cup {line}]
<1>1. /\ j \in JobRecords /\ j.now \in Nat /\ nextId \in Nat
      /\ id \in Nat /\ id < nextId
  <2>1. nextId \in Nat /\ j \in JobRecords /\ j.now \in Nat
    BY GoodParts
  <2> QED
    BY <2>1
<1>2. /\ \/ \E e \in j.entries : e.state = "claimed" /\ Leaves(Ended(j, e, result, result))
         \/ known = {} /\ result = "outcome_unknown" /\ Leaves(k)
         \/ Leaves(j)
      /\ JobsQuiet
  BY DEF JobFinish, Reportable
<1>3. ASSUME NEW e \in j.entries, e.state = "claimed", Leaves(Ended(j, e, result, result))
      PROVE  JobsInv' /\ Continues(entries, entries')
  <2>1. e.state \in Active /\ e.state \notin HoldsSlot
    BY <1>3 DEF Active, HoldsSlot
  <2>2. result \in Results /\ result = LineOf(result) /\ LineOf(result) \notin Never
    BY DEF Results, LineOf, Never
  <2> DEFINE m == Ended(j, e, result, result)
  <2>3. Good(m, nextId, claims) /\ Continues(entries, m.entries)
    BY <2>1, <2>2, EndedGood
  <2> QED
    BY <1>2, <1>3, <2>3, QuietInv
<1>4. ASSUME known = {}, result = "outcome_unknown"
      PROVE  Good(k, nextId, claims) /\ Continues(entries, k.entries)
  <2>1. /\ line \in JobLines /\ line.id = id /\ line.kind \notin Never
    BY <1>1 DEF JobLines, OutcomeLines, Never
  <2> HIDE DEF line
  <2>2. /\ k.now = j.now /\ k.entries = j.entries /\ k.gate = j.gate
        /\ k.events = j.events \cup {line} /\ k \in JobRecords
    BY <1>1, <2>1 DEF JobRecords
  <2> HIDE DEF k
  <2>3. \A x : x # id => OutcomesIn(k.events, x) = OutcomesIn(j.events, x)
    BY <2>1, <2>2 DEF OutcomesIn
  <2>4. \A e \in k.entries : e.id # id
    BY <1>4, <2>2
  <2>5. JTyped(k, nextId, claims) /\ OneEach(k, nextId) /\ JSlotted(k)
    BY <2>2 DEF Good, JTyped, OneEach, JSlotted
  <2>6. Told(k, nextId)
    <3>1. \A l \in k.events : l.id < nextId
      BY <1>1, <2>1, <2>2 DEF Good, Told
    <3>2. \A e \in k.entries : e.state # "done" => OutcomesIn(k.events, e.id) = {}
      BY <2>2, <2>3, <2>4 DEF Good, Told
    <3>3. \A e \in k.entries : e.state = "done" =>
             \E l \in k.events : /\ OutcomesIn(k.events, e.id) = {l}
                                 /\ l.kind = LineOf(e.result) /\ l.at <= e.doneAt
      BY <2>2, <2>3, <2>4 DEF Good, Told
    <3> QED
      BY <3>1, <3>2, <3>3 DEF Told
  <2>7. HandedOut(k, nextId, claims)
    <3>1. ASSUME NEW c \in claims, NEW y \in OutcomesIn(k.events, c.id)
          PROVE  y.kind \notin Never
      <4>1. CASE y = line
        BY <2>1, <4>1
      <4>2. CASE y # line
        <5>1. y \in OutcomesIn(j.events, c.id)
          BY <2>2, <3>1, <4>2 DEF OutcomesIn
        <5> QED
          BY <5>1 DEF Good, HandedOut
      <4> QED
        BY <4>1, <4>2
    <3>2. ASSUME NEW c \in claims
          PROVE  /\ c.id < nextId
                 /\ \E w \in k.events : /\ w.kind = "waiting" /\ w.id = c.id
                                        /\ c.at < w.at + MaxPlanAge
                                        /\ ApprovedAt(k.events, c.id, w.at, c.at)
      BY <2>2 DEF Good, HandedOut, ApprovedAt
    <3>3. ASSUME NEW e \in k.entries
          PROVE  /\ e.state \in {"queued", "working", "waiting", "approved"} =>
                       \A c \in claims : c.id # e.id
                 /\ e.state \in {"waiting", "approved"} => WaitingAt(k.events, e.id, e.planAt)
                 /\ e.state = "approved" => ApprovedAt(k.events, e.id, e.planAt, k.now)
      BY <2>2 DEF Good, HandedOut, WaitingAt, ApprovedAt
    <3>4. \A c, d \in claims : c.id = d.id => c = d
      BY DEF Good, HandedOut
    <3> QED
      BY <3>1, <3>2, <3>3, <3>4 DEF HandedOut
  <2> QED
    BY <2>2, <2>5, <2>6, <2>7 DEF Good
<1> HIDE DEF k
<1> QED
  BY <1>2, <1>3, <1>4, QuietInv

\* Jobs::kill.
LEMMA KillInv ==
    ASSUME JobsInv, NEW j, Good(j, nextId, claims), Continues(entries, j.entries),
           NEW project, JobKill(j, project)
    PROVE  JobsInv' /\ Continues(entries, entries')
<1> DEFINE hit == {e \in j.entries : e.project = project /\ e.state \in Active \ {"claimed"}}
           freed == {<<"job", e.id>> : e \in {x \in hit : x.state \in HoldsSlot}}
           es == (j.entries \ hit) \cup {Settled(e, "killed", j.now) : e \in hit}
           ev == j.events \cup {JobLine("killed", e, j.now) : e \in hit}
           k == [j EXCEPT
                  !.entries = (@ \ hit) \cup {Settled(e, "killed", j.now) : e \in hit},
                  !.events = @ \cup {JobLine("killed", e, j.now) : e \in hit},
                  !.gate.occupant = @ \ freed]
           g == [j.gate EXCEPT !.occupant = @ \ freed]
           m == [j EXCEPT !.entries = es, !.events = ev, !.gate = g]
           s == Struck(k, j.now)
<1>1. /\ Leaves(IF \E e \in hit : Asked(e) THEN s ELSE k)
      /\ JobsQuiet
  BY Zenon DEF JobKill
<1>2. j \in JobRecords /\ j.now \in Nat /\ j.gate \in Gates
  BY GoodParts
<1>3. k = m
  BY <1>2 DEF JobRecords, Gates
<1>4. g \in Gates /\ HoldOf("job", g) = HoldOf("job", j.gate) \ freed
  BY <1>2 DEF Gates, HoldOf
<1> HIDE DEF es, ev, g
<1>5. /\ m.now = j.now /\ m.entries = es /\ m.events = ev /\ m.gate = g
      /\ es \subseteq Entries /\ ev \subseteq JobLines /\ g \in Gates => m \in JobRecords
  BY <1>2, Parts, Zenon
<1> HIDE DEF k, m, s
<1>6. \A e \in hit : e \in j.entries /\ e.state \in Active /\ e.state # "claimed"
  OBVIOUS
<1>7. \A e, f \in hit : e = f
  BY <1>6 DEF Good, OneEach, Active
<1>8. CASE hit = {}
  <2>1. es = j.entries /\ ev = j.events /\ freed = {}
    BY <1>8 DEF es, ev
  <2>2. m \in JobRecords /\ HoldOf("job", m.gate) = HoldOf("job", j.gate)
    BY <1>2, <1>4, <1>5, <2>1 DEF JobRecords
  <2>3. Good(m, nextId, claims) /\ Continues(j.entries, m.entries)
    BY <1>5, <2>1, <2>2, SameGood
  <2>4. Leaves(m)
    BY <1>1, <1>3, <1>8
  <2> QED
    BY <1>1, <2>3, <2>4, ContinuesOn, QuietInv
<1>9. ASSUME NEW e \in j.entries, hit = {e}, e.state \in Active, e.state # "claimed"
      PROVE  JobsInv' /\ Continues(entries, entries')
  <2>1. e \in Entries /\ e.id \in Nat
    BY GoodParts
  <2>2. "killed" \in Results /\ "killed" = LineOf("killed") /\ "killed" \in OutcomeLines
    BY DEF Results, LineOf, OutcomeLines
  <2>3. /\ es = (j.entries \ {e}) \cup {Settled(e, "killed", j.now)}
        /\ ev = j.events \cup {JobLine(LineOf("killed"), e, j.now)}
    BY <1>9, <2>2 DEF es, ev
  <2>4. es \subseteq Entries /\ ev \subseteq JobLines
    <3>1. Settled(e, "killed", j.now) \in Entries
      BY <1>2, <2>1, <2>2, SettledEntry
    <3>2. JobLine("killed", e, j.now) \in JobLines
      BY <1>2, <2>1, <2>2, LineTyped
    <3> QED
      BY <1>2, <2>2, <2>3, <3>1, <3>2 DEF JobRecords
  <2>5. freed = IF e.state \in HoldsSlot THEN {<<"job", e.id>>} ELSE {}
    BY <1>9
  <2>6. HoldOf("job", j.gate) = IF e.state \in HoldsSlot THEN {<<"job", e.id>>} ELSE {}
    BY <1>9, SlotOf DEF Active
  <2>7. HoldOf("job", g) = {} /\ m \in JobRecords
    BY <1>4, <1>5, <2>4, <2>5, <2>6
  <2>8. /\ s.now = j.now /\ s.entries = es /\ s.events = ev /\ HoldOf("job", s.gate) = {}
        /\ s \in JobRecords
    <3>1. <<"job", e.id>> \in Occupants
      BY <2>1 DEF Occupants
    <3>2. StruckAt(g, j.now) \in Gates /\ HoldOf("job", StruckAt(g, j.now)) = {}
      BY <1>2, <1>4, <2>7, <3>1, HolderOps
    <3> QED
      BY <1>3, <1>5, <2>7, <3>2, NewGate DEF s, Struck
  <2>9. ASSUME NEW q \in JobRecords, q.now = j.now, q.entries = es, q.events = ev,
               HoldOf("job", q.gate) = {}
        PROVE  Good(q, nextId, claims) /\ Continues(j.entries, q.entries)
    <3>1. /\ q.entries = (j.entries \ {e}) \cup {Settled(e, "killed", j.now)}
          /\ q.events = j.events \cup {JobLine(LineOf("killed"), e, j.now)}
      BY <2>3, <2>9
    <3> QED
      BY <1>9, <2>2, <2>9, <3>1, SettleNow
  <2>10. Good(m, nextId, claims) /\ Continues(j.entries, m.entries)
    BY <1>5, <2>7, <2>9
  <2>11. Good(s, nextId, claims) /\ Continues(j.entries, s.entries)
    BY <2>8, <2>9
  <2>12. Leaves(s) \/ Leaves(m)
    BY <1>1, <1>3
  <2> QED
    BY <1>1, <2>10, <2>11, <2>12, ContinuesOn, QuietInv
<1>10. hit = {} \/ \E e \in j.entries : hit = {e} /\ e.state \in Active /\ e.state # "claimed"
  BY <1>6, <1>7
<1> QED
  BY <1>8, <1>9, <1>10

\* A request that finds the slot free finds every entry done or past its slot;
\* one that finds no job in the way finds them all done.
LEMMA FiledGood ==
    ASSUME NEW p, Good(p, nextId, claims), \A e \in p.entries : e.state = "done",
           NEW project \in Projects, NEW kind \in {"trust", "apply"},
           NEW job, job = [id |-> nextId, project |-> project, kind |-> kind,
                           state |-> "queued", result |-> None, scope |-> None,
                           created |-> p.now, planAt |-> None, claimedAt |-> None,
                           doneAt |-> None],
           NEW k \in JobRecords, k.now = p.now, k.entries = p.entries \cup {job},
           k.events = p.events \cup {JobLine("requested", job, p.now)},
           HoldOf("job", k.gate) = {<<"job", nextId>>}
    PROVE  Good(k, nextId + 1, claims)
<1> DEFINE l == JobLine("requested", job, p.now)
<1>1. /\ p \in JobRecords /\ p.now \in Nat /\ nextId \in Nat
      /\ \A e \in p.entries : e.id \in Nat /\ e.id < nextId
      /\ \A x \in p.events : x.id \in Nat /\ x.id < nextId
  <2>1. p.events \subseteq JobLines /\ \A x \in JobLines : x.id \in Nat
    BY GoodParts DEF JobLines
  <2> QED
    BY <2>1, GoodParts DEF Good, OneEach, Told
<1>2. /\ job.id = nextId /\ job.state = "queued" /\ job.scope = None /\ job.doneAt = None
      /\ l.id = nextId /\ l.kind = "requested"
  BY DEF JobLine
<1>3. k.events = p.events \cup {l}
  OBVIOUS
<1> HIDE DEF l
<1>4. \A id : OutcomesIn(k.events, id) = OutcomesIn(p.events, id)
  BY <1>2, <1>3 DEF OutcomesIn, OutcomeLines
<1>5. OutcomesIn(p.events, nextId) = {}
  BY <1>1 DEF OutcomesIn
<1>6. JTyped(k, nextId + 1, claims)
  <2>1. Shaped(job)
    BY <1>2 DEF Shaped
  <2> QED
    BY <1>1, <2>1 DEF Good, JTyped
<1>7. OneEach(k, nextId + 1)
  <2>1. \A e \in k.entries : e.id < nextId + 1
    BY <1>1, <1>2
  <2>2. \A e, f \in k.entries : e.id = f.id => e = f
    <3>1. \A e \in p.entries : e.id # job.id
      BY <1>1, <1>2
    <3> QED
      BY <3>1 DEF Good, OneEach
  <2> QED
    BY <2>1, <2>2 DEF OneEach
<1>8. JSlotted(k)
  <2>1. \A e \in k.entries : e.state \in HoldsSlot => e = job
    BY DEF HoldsSlot
  <2>2. job \in k.entries /\ job.state \in HoldsSlot
    BY <1>2 DEF HoldsSlot
  <2> QED
    BY <1>2, <2>1, <2>2 DEF JSlotted, Holders
<1>9. Told(k, nextId + 1)
  <2>1. \A x \in k.events : x.id < nextId + 1
    BY <1>1, <1>2, <1>3
  <2>2. \A e \in k.entries : e.state # "done" => OutcomesIn(k.events, e.id) = {}
    BY <1>2, <1>4, <1>5
  <2>3. ASSUME NEW e \in k.entries, e.state = "done"
        PROVE  \E x \in k.events : /\ OutcomesIn(k.events, e.id) = {x}
                                   /\ x.kind = LineOf(e.result) /\ x.at <= e.doneAt
    <3>1. e \in p.entries
      BY <1>2, <2>3
    <3>2. PICK x \in p.events : /\ OutcomesIn(p.events, e.id) = {x}
                                /\ x.kind = LineOf(e.result) /\ x.at <= e.doneAt
      BY <2>3, <3>1 DEF Good, Told
    <3> QED
      BY <1>3, <1>4, <3>2
  <2> QED
    BY <2>1, <2>2, <2>3 DEF Told
<1>10. HandedOut(k, nextId + 1, claims)
  <2>1. \A c, d \in claims : c.id = d.id => c = d
    BY DEF Good, HandedOut
  <2>2. ASSUME NEW c \in claims
        PROVE  /\ c.id < nextId + 1 /\ c.id # nextId
               /\ \A y \in OutcomesIn(k.events, c.id) : y.kind \notin Never
               /\ \E w \in k.events : /\ w.kind = "waiting" /\ w.id = c.id
                                      /\ c.at < w.at + MaxPlanAge
                                      /\ ApprovedAt(k.events, c.id, w.at, c.at)
    <3>1. c.id \in Nat /\ c.id < nextId
      BY DEF Good, HandedOut, JTyped, ClaimSet
    <3>2. \A y \in OutcomesIn(k.events, c.id) : y.kind \notin Never
      BY <1>4 DEF Good, HandedOut
    <3>3. \E w \in k.events : /\ w.kind = "waiting" /\ w.id = c.id
                              /\ c.at < w.at + MaxPlanAge
                              /\ ApprovedAt(k.events, c.id, w.at, c.at)
      BY <1>3 DEF Good, HandedOut, ApprovedAt
    <3>4. c.id < nextId + 1 /\ c.id # nextId
      BY <1>1, <3>1
    <3> QED
      BY <3>2, <3>3, <3>4, Zenon
  <2>3. ASSUME NEW x \in k.entries
        PROVE  /\ x.state \in {"queued", "working", "waiting", "approved"} =>
                     \A c \in claims : c.id # x.id
               /\ x.state \notin {"waiting", "approved"}
    BY <1>2, <2>2
  <2> QED
    BY <2>1, <2>2, <2>3 DEF HandedOut
<1> QED
  BY <1>6, <1>7, <1>8, <1>9, <1>10 DEF Good

\* A gate that let a job in.
LEMMA AdmittedJob ==
    ASSUME NEW g \in Gates, NEW at \in Nat, NEW m \in Nat
    PROVE  /\ Admitted(g, at, <<"job", m>>) \in Gates
           /\ HoldOf("job", Admitted(g, at, <<"job", m>>)) = {<<"job", m>>}
<1>1. <<"job", m>> \in Occupants /\ <<"job", m>>[1] = "job"
  BY DEF Occupants
<1> QED
  BY <1>1, GateOps, HoldOps

\* Jobs::request, and file_job's allocate_id.
LEMMA RequestInv ==
    ASSUME JobsInv, NEW j, Good(j, nextId, claims), Continues(entries, j.entries),
           NEW project \in Projects, NEW kind \in {"trust", "apply"},
           JobRequest(j, project, kind)
    PROVE  JobsInv' /\ ScopeStaysFrozen
<1> DEFINE p == Pruned(j)
           g == GateTicked(p.gate, p.now)
           job == [id |-> nextId, project |-> project, kind |-> kind,
                   state |-> "queued", result |-> None, scope |-> None,
                   created |-> p.now, planAt |-> None, claimedAt |-> None,
                   doneAt |-> None]
           h == Admitted(g, p.now, <<"job", nextId>>)
           es == p.entries \cup {job}
           ev == p.events \cup {JobLine("requested", job, p.now)}
           k == [p EXCEPT !.entries = @ \cup {job}, !.gate = h,
                          !.events = @ \cup {JobLine("requested", job, p.now)}]
           m == [p EXCEPT !.gate = g]
<1>1. \/ /\ \A e \in p.entries : e.state = "done"
         /\ Leaves(k) /\ nextId' = nextId + 1 /\ UNCHANGED <<trusted, claims>>
      \/ Leaves(m) /\ JobsQuiet
      \/ Leaves(p) /\ JobsQuiet
  BY Zenon DEF JobRequest, Blocks, AllocateId
<1>2. Good(p, nextId, claims) /\ Continues(entries, p.entries)
  BY PrunedGood, ContinuesOn
<1> HIDE DEF p
<1>3. p \in JobRecords /\ p.now \in Nat /\ p.gate \in Gates /\ nextId \in Nat
  BY <1>2, GoodParts
<1>4. <<"job", nextId>> \in Occupants
  BY <1>3 DEF Occupants
<1>5. g \in Gates /\ HoldOf("job", g) = HoldOf("job", p.gate)
  BY <1>3, <1>4, HolderOps
<1> HIDE DEF g
<1>6. h \in Gates /\ HoldOf("job", h) = {<<"job", nextId>>}
  <2>1. h = Admitted(g, p.now, <<"job", nextId>>)
    BY Zenon
  <2>2. /\ Admitted(g, p.now, <<"job", nextId>>) \in Gates
        /\ HoldOf("job", Admitted(g, p.now, <<"job", nextId>>)) = {<<"job", nextId>>}
    BY <1>3, <1>4, <1>5, AdmittedJob, Zenon
  <2> QED
    BY <2>1, <2>2, Zenon
<1> HIDE DEF h
<1>7. m \in JobRecords /\ m.now = p.now /\ m.entries = p.entries /\ m.events = p.events
      /\ m.gate = g
  BY <1>3, <1>5, NewGate
<1> HIDE DEF m
<1>8. Good(m, nextId, claims) /\ Continues(entries, m.entries)
  BY <1>2, <1>5, <1>7, SameGood
<1>9. ASSUME Continues(entries, entries') PROVE ScopeStaysFrozen
  <2>1. \A e, f \in entries : e.id = f.id => e = f
    BY DEF JobsInv, Good, OneEach, Held
  <2> QED
    BY <1>9, <2>1 DEF ScopeStaysFrozen, Continues
<1>10. CASE Leaves(m) /\ JobsQuiet
  BY <1>8, <1>9, <1>10, QuietInv
<1>11. CASE Leaves(p) /\ JobsQuiet
  BY <1>2, <1>9, <1>11, QuietInv
<1>12. ASSUME \A e \in p.entries : e.state = "done", Leaves(k), nextId' = nextId + 1,
              UNCHANGED <<trusted, claims>>
       PROVE  JobsInv' /\ ScopeStaysFrozen
  <2>1. /\ job \in Entries /\ job.id = nextId
        /\ JobLine("requested", job, p.now) \in JobLines
    BY <1>3 DEF Entries, Active, JobLine, JobLines
  <2>2. k = [p EXCEPT !.entries = es, !.gate = h, !.events = ev]
    OBVIOUS
  <2>3. es \subseteq Entries /\ ev \subseteq JobLines
    BY <1>3, <2>1 DEF JobRecords
  <2> HIDE DEF es, ev
  <2>4. k.now = p.now /\ k.entries = es /\ k.events = ev /\ k.gate = h /\ k \in JobRecords
    BY <1>3, <1>6, <2>2, <2>3 DEF JobRecords
  <2> HIDE DEF k
  <2>5. Good(k, nextId + 1, claims)
    <3>1. k.entries = p.entries \cup {job}
          /\ k.events = p.events \cup {JobLine("requested", job, p.now)}
      BY <2>4 DEF es, ev
    <3>2. job = [id |-> nextId, project |-> project, kind |-> kind,
                 state |-> "queued", result |-> None, scope |-> None,
                 created |-> p.now, planAt |-> None, claimedAt |-> None,
                 doneAt |-> None]
      OBVIOUS
    <3> HIDE DEF job
    <3> QED
      BY <1>2, <1>6, <1>12, <2>4, <3>1, <3>2, FiledGood
  <2>6. /\ Held'.now = k.now /\ Held'.entries = k.entries
        /\ Held'.gate = k.gate /\ Held'.events = k.events
    BY <1>12 DEF Held, Leaves
  <2>7. Held' \in JobRecords
    BY <2>4, <2>6 DEF Held, JobRecords
  <2>8. Good(Held', nextId', claims')
    BY <1>12, <2>5, <2>6, <2>7 DEF Good, JTyped, OneEach, JSlotted, Told, HandedOut
  <2>9. ScopeStaysFrozen
    <3>1. \A e \in entries : e.id \in Nat /\ e.id < nextId
      BY GoodParts DEF JobsInv, Good, OneEach, Held
    <3>2. entries' = p.entries \cup {job}
      BY <1>12, <2>4 DEF Leaves, es
    <3>3. \A e, f \in entries : e.id = f.id => e = f
      BY DEF JobsInv, Good, OneEach, Held
    <3>4. \A e \in entries : e.id # job.id
      BY <1>3, <2>1, <3>1
    <3> QED
      BY <1>2, <3>2, <3>3, <3>4 DEF ScopeStaysFrozen, Continues
  <2> QED
    BY <1>12, <2>8, <2>9 DEF JobsInv
<1> QED
  BY <1>1, <1>10, <1>11, <1>12

\* The daemon passes on what trusted.json says.
LEMMA SetTrustedInv ==
    ASSUME JobsInv, NEW project \in Projects, NEW revision \in Revisions \cup {None},
           SetTrusted(project, revision)
    PROVE  JobsInv' /\ Continues(entries, entries')
<1>1. Held' = Held /\ nextId' = nextId /\ claims' = claims /\ entries' = entries
  BY DEF SetTrusted, Held
<1>2. trusted' \in [Projects -> Revisions \cup {None}]
  BY DEF SetTrusted, JobsInv
<1>3. Continues(entries, entries')
  BY <1>1 DEF Continues
<1> QED
  BY <1>1, <1>2, <1>3 DEF JobsInv

----------------------------------------------------------------------------
(* What Jobs leaves of a gate it is lent, and the lines it records.        *)

\* k comes of j without a holder of another kind losing the slot, or sharing
\* it, and with new lines of these kinds only.
Serving(j, k, kinds) ==
    /\ Lends("ssh", j.gate, k.gate)
    /\ j.events \subseteq k.events
    /\ \A l \in k.events : l \in j.events \/ l.kind \in kinds

LEMMA ServingOn ==
    ASSUME NEW i, NEW j, NEW k, NEW some, NEW more, some \subseteq more,
           Serving(i, j, some), Serving(j, k, more)
    PROVE  Serving(i, k, more)
<1>1. Lends("ssh", i.gate, k.gate)
  BY LendsTwice DEF Serving
<1> QED
  BY <1>1 DEF Serving

LEMMA MovedServes ==
    ASSUME NEW j \in JobRecords, NEW e, NEW f, NEW new, NEW kinds, \A l \in new : l.kind \in kinds
    PROVE  Serving(j, Moved(j, e, f, new), kinds)
<1>1. /\ Moved(j, e, f, new).events = j.events \cup new
      /\ Moved(j, e, f, new).gate = j.gate
  BY MovedParts
<1> QED
  BY <1>1 DEF Serving, Lends

\* An entry gives the slot back, and is or is not struck for it.
LEMMA FreedServes ==
    ASSUME NEW j \in JobRecords, NEW e, e.id \in Nat, NEW kinds
    PROVE  Serving(j, Freed(j, e), kinds) /\ Freed(j, e) \in JobRecords
<1>1. j.gate \in Gates /\ j.now \in Nat
  BY DEF JobRecords
<1>2. /\ Released(j.gate, <<"job", e.id>>) \in Gates
      /\ Lends("ssh", j.gate, Released(j.gate, <<"job", e.id>>))
  BY <1>1, HolderOps, LendOps
<1>3. /\ Freed(j, e).gate = Released(j.gate, <<"job", e.id>>)
      /\ Freed(j, e).events = j.events /\ Freed(j, e) \in JobRecords
  BY <1>2, NewGate DEF Freed
<1> QED
  BY <1>2, <1>3 DEF Serving
LEMMA StruckServes ==
    ASSUME NEW j \in JobRecords, NEW at \in Nat, NEW kinds
    PROVE  Serving(j, Struck(j, at), kinds)
<1>1. j.gate \in Gates
  BY DEF JobRecords
<1>2. StruckAt(j.gate, at) \in Gates /\ Lends("ssh", j.gate, StruckAt(j.gate, at))
  BY <1>1, HolderOps, LendOps, 0 \in Nat
<1>3. Struck(j, at).gate = StruckAt(j.gate, at) /\ Struck(j, at).events = j.events
  BY <1>2, NewGate DEF Struck
<1> QED
  BY <1>2, <1>3 DEF Serving

\* An entry ends: as EndedGood, with an outcome line.
LEMMA EndedServes ==
    ASSUME NEW p, NEW n, NEW cs, Good(p, n, cs), NEW e \in p.entries, e.state \in Active,
           NEW result \in Results, LineOf(result) \in Never => e.state # "claimed"
    PROVE  LET m == Ended(p, e, result, LineOf(result))
           IN  /\ Serving(p, m, OutcomeLines)
               /\ Serving(p, Freed(m, e), OutcomeLines)
               /\ Serving(p, Struck(Freed(m, e), p.now), OutcomeLines)
<1> DEFINE m == Ended(p, e, result, LineOf(result))
           q == Freed(m, e)
<1>1. p \in JobRecords /\ p.now \in Nat /\ e \in Entries /\ e.id \in Nat
  BY GoodParts
<1>2. LineOf(result) \in OutcomeLines
  BY DEF LineOf, Results, OutcomeLines
<1>3. JobLine(LineOf(result), e, p.now).kind \in OutcomeLines
  BY <1>2 DEF JobLine
<1>4. Serving(p, m, OutcomeLines)
  BY <1>1, <1>3, MovedServes DEF Ended
<1>5. m \in JobRecords
  <2>1. /\ Settled(e, result, p.now) \in Entries
        /\ {JobLine(LineOf(result), e, p.now)} \subseteq JobLines
    BY <1>1, <1>2, SettledEntry, LineTyped
  <2> QED
    BY <1>1, <2>1, MovedParts DEF Ended
<1> HIDE DEF m
<1>6. Serving(m, q, OutcomeLines) /\ q \in JobRecords
  BY <1>1, <1>5, FreedServes
<1> HIDE DEF q
<1>7. Serving(q, Struck(q, p.now), OutcomeLines)
  BY <1>1, <1>6, StruckServes
<1>8. Serving(p, q, OutcomeLines) /\ Serving(p, Struck(q, p.now), OutcomeLines)
  BY <1>4, <1>6, <1>7, ServingOn
<1> QED
  BY <1>4, <1>8 DEF q, m

LEMMA LapseServes ==
    ASSUME NEW j, NEW n, NEW cs, Good(j, n, cs), NEW over \in SUBSET Overdue(j, Active)
    PROVE  Serving(j, Lapse(j, over), OutcomeLines)
<1> DEFINE freed == {<<"job", e.id>> : e \in {x \in over : x.state \in HoldsSlot}}
           g == [j.gate EXCEPT !.occupant = @ \ freed]
           k == Lapse(j, over)
<1>1. j \in JobRecords /\ j.gate \in Gates /\ j.now \in Nat
  BY GoodParts
<1>2. /\ k.gate = IF \E e \in over : Asked(e)
                  THEN StruckAt(g, Deadline(CHOOSE e \in over : Asked(e)))
                  ELSE g
      /\ k.events = j.events \cup {JobLine(LapseLine(e), e, Deadline(e)) : e \in over}
  BY <1>1, LapseParts
<1>3. \A e \in over : e \in j.entries /\ e \in Entries /\ Shaped(e) /\ e.state \in Active
  BY GoodParts DEF Overdue
<1>4. \A e \in over : JobLine(LapseLine(e), e, Deadline(e)).kind \in OutcomeLines
  BY <1>3, LapseResults DEF JobLine
<1>5. g \in Gates /\ Lends("ssh", j.gate, g)
  <2>1. g \in Gates /\ g.occupant = j.gate.occupant \ freed
    BY <1>1 DEF Gates
  <2>2. \A o \in freed : o[1] = "job"
    OBVIOUS
  <2> HIDE DEF g, freed
  <2>3. HoldOf("ssh", g) = HoldOf("ssh", j.gate)
    BY <2>1, <2>2 DEF HoldOf
  <2>4. OneHolder(j.gate) => OneHolder(g)
    BY <2>1 DEF OneHolder
  <2> QED
    BY <2>1, <2>3, <2>4 DEF Lends
<1> HIDE DEF g, k
<1>6. Lends("ssh", g, k.gate)
  <2>1. CASE \E e \in over : Asked(e)
    <3> DEFINE e == CHOOSE e \in over : Asked(e)
    <3>1. e \in over
      BY <2>1
    <3> HIDE DEF e
    <3>2. Deadline(e) \in Nat
      BY <1>3, <3>1, DeadlineIsNat
    <3>3. Lends("ssh", g, StruckAt(g, Deadline(e)))
      BY <1>5, <3>2, LendOps, 0 \in Nat
    <3>4. k.gate = StruckAt(g, Deadline(e))
      BY <1>2, <2>1 DEF e
    <3> QED
      BY <3>3, <3>4
  <2>2. CASE ~ \E e \in over : Asked(e)
    BY <1>2, <2>2 DEF Lends
  <2> QED
    BY <2>1, <2>2
<1>7. Lends("ssh", j.gate, k.gate)
  BY <1>5, <1>6, LendsTwice
<1> QED
  BY <1>2, <1>4, <1>7 DEF Serving, k

\* Jobs::tick.
LEMMA TickedServes ==
    ASSUME NEW j, NEW n, NEW cs, Good(j, n, cs)
    PROVE  Serving(j, JobsTicked(j), OutcomeLines)
<1> DEFINE k == Lapse(j, Overdue(j, Active))
<1>1. Good(k, n, cs) /\ Serving(j, k, OutcomeLines)
  BY LapseGood, LapseServes
<1>2. JobsTicked(j) = Pruned(k)
  BY DEF JobsTicked
<1> HIDE DEF k
<1>3. Pruned(k).gate = k.gate /\ Pruned(k).events = k.events
  BY <1>1, PrunedGood
<1> QED
  BY <1>1, <1>2, <1>3 DEF Serving, Lends

\* A step that leaves j lent, and lines of these kinds only.
Served(j, kinds) ==
    /\ Lends("ssh", j.gate, gate')
    /\ j.events \subseteq jobEvents'
    /\ \A l \in jobEvents' : l \in j.events \/ l.kind \in kinds

LEMMA LeavesServed ==
    ASSUME NEW j, NEW k, NEW kinds, Serving(j, k, kinds), Leaves(k)
    PROVE  Served(j, kinds)
BY DEF Serving, Served, Leaves

LEMMA SameServes ==
    ASSUME NEW j, NEW kinds
    PROVE  Serving(j, j, kinds)
BY DEF Serving, Lends

\* A tick before the rest of a call.
LEMMA ServedOn ==
    ASSUME NEW j, NEW k, NEW some, NEW more, some \subseteq more,
           Serving(j, k, some), Served(k, more)
    PROVE  Served(j, more)
<1>1. Lends("ssh", j.gate, gate')
  BY LendsTwice DEF Serving, Served
<1> QED
  BY <1>1 DEF Serving, Served

\* Jobs::poll.
LEMMA PollServes ==
    ASSUME NEW j, NEW n, NEW cs, Good(j, n, cs), NEW runner, JobPoll(j, runner)
    PROVE  Served(j, OutcomeLines \cup {"started"})
<1> DEFINE mine == {e \in j.entries : RunnerOf[e.project] = runner}
           p == Lapse(j, Overdue(j, {"queued", "working", "approved"}) \cap mine)
           kinds == OutcomeLines \cup {"started"}
<1>1. \/ \E e \in p.entries : Leaves(Moved(p, e, [e EXCEPT !.state = "working"],
                                            {JobLine("started", e, p.now)}))
      \/ Leaves(p)
  BY Zenon DEF JobPoll
<1>2. Good(p, n, cs) /\ Serving(j, p, OutcomeLines)
  BY OverdueOf, LapseGood, LapseServes DEF Active
<1> HIDE DEF p
<1>3. p \in JobRecords
  BY <1>2, GoodParts
<1>4. ASSUME NEW e \in p.entries,
             Leaves(Moved(p, e, [e EXCEPT !.state = "working"],
                          {JobLine("started", e, p.now)}))
      PROVE  Served(p, kinds)
  <2>1. JobLine("started", e, p.now).kind \in kinds
    BY DEF JobLine
  <2> QED
    BY <1>3, <1>4, <2>1, MovedServes, LeavesServed
<1>5. Leaves(p) => Served(p, kinds)
  BY SameServes, LeavesServed
<1> QED
  BY <1>1, <1>2, <1>4, <1>5, ServedOn

\* Jobs::submit.
LEMMA SubmitServes ==
    ASSUME NEW j, NEW n, NEW cs, Good(j, n, cs), NEW runner, NEW id, NEW scope,
           JobSubmit(j, runner, id, scope)
    PROVE  Served(j, OutcomeLines \cup {"waiting"})
<1> DEFINE p == Lapse(j, Overdue(j, {"queued", "working"}) \cap EntryOf(j, id, Active))
           kinds == OutcomeLines \cup {"waiting"}
<1>1. \/ \E e \in EntryOf(p, id, Submittable) :
            \/ Leaves(Moved(p, e, [e EXCEPT !.state = "waiting", !.scope = scope,
                                            !.planAt = p.now],
                            {JobLine("waiting", e, p.now)}))
            \/ Leaves(Freed(Ended(p, e, "refused", "refused"), e))
      \/ Leaves(p)
  BY Zenon DEF JobSubmit
<1>2. Good(p, n, cs) /\ Serving(j, p, OutcomeLines)
  BY OverdueOf, LapseGood, LapseServes DEF Active
<1> HIDE DEF p
<1>3. p \in JobRecords
  BY <1>2, GoodParts
<1>4. ASSUME NEW e \in EntryOf(p, id, Submittable),
             Leaves(Moved(p, e, [e EXCEPT !.state = "waiting", !.scope = scope,
                                          !.planAt = p.now],
                          {JobLine("waiting", e, p.now)}))
      PROVE  Served(p, kinds)
  <2>1. JobLine("waiting", e, p.now).kind \in kinds
    BY DEF JobLine
  <2> QED
    BY <1>3, <1>4, <2>1, MovedServes, LeavesServed
<1>5. ASSUME NEW e \in EntryOf(p, id, Submittable),
             Leaves(Freed(Ended(p, e, "refused", "refused"), e))
      PROVE  Served(p, OutcomeLines)
  <2>1. e \in p.entries /\ e.state \in Active
    BY DEF EntryOf, Submittable, Active
  <2>2. "refused" \in Results /\ LineOf("refused") = "refused" /\ "refused" \notin Never
    BY DEF Results, LineOf, Never
  <2>3. Serving(p, Freed(Ended(p, e, "refused", "refused"), e), OutcomeLines)
    BY <1>2, <2>1, <2>2, EndedServes
  <2> QED
    BY <1>5, <2>3, LeavesServed
<1>6. Leaves(p) => Served(p, kinds)
  BY SameServes, LeavesServed
<1>7. Served(p, OutcomeLines) => Served(p, kinds)
  BY DEF Served
<1> QED
  BY <1>1, <1>2, <1>4, <1>5, <1>6, <1>7, ServedOn

\* Jobs::refuse.
LEMMA RefuseServes ==
    ASSUME NEW j, NEW n, NEW cs, Good(j, n, cs), NEW runner, NEW id,
           NEW result \in {"refused", "plan_failed"}, JobRefuse(j, runner, id, result)
    PROVE  Served(j, OutcomeLines)
<1> DEFINE p == Lapse(j, Overdue(j, {"queued", "working"}) \cap EntryOf(j, id, Active))
<1>1. \/ \E e \in EntryOf(p, id, {"working"}) :
            Leaves(Freed(Ended(p, e, result, "refused"), e))
      \/ Leaves(p)
  BY Zenon DEF JobRefuse
<1>2. Good(p, n, cs) /\ Serving(j, p, OutcomeLines)
  BY OverdueOf, LapseGood, LapseServes DEF Active
<1> HIDE DEF p
<1>3. ASSUME NEW e \in EntryOf(p, id, {"working"}),
             Leaves(Freed(Ended(p, e, result, "refused"), e))
      PROVE  Served(p, OutcomeLines)
  <2>1. e \in p.entries /\ e.state \in Active
    BY DEF EntryOf, Active
  <2>2. result \in Results /\ LineOf(result) = "refused" /\ "refused" \notin Never
    BY DEF Results, LineOf, Never
  <2>3. Serving(p, Freed(Ended(p, e, result, "refused"), e), OutcomeLines)
    BY <1>2, <2>1, <2>2, EndedServes
  <2> QED
    BY <1>3, <2>3, LeavesServed
<1>4. Leaves(p) => Served(p, OutcomeLines)
  BY SameServes, LeavesServed
<1> QED
  BY <1>1, <1>2, <1>3, <1>4, ServedOn

\* Jobs::approve.
LEMMA ApproveServes ==
    ASSUME NEW j, NEW n, NEW cs, Good(j, n, cs), NEW id, NEW nonce, NEW scope,
           JobApprove(j, id, nonce, scope)
    PROVE  Served(j, OutcomeLines \cup {"approved"})
<1> DEFINE p == Lapse(j, Overdue(j, {"waiting"}) \cap EntryOf(j, id, Active))
           moved(e) == Moved(p, e, [e EXCEPT !.state = "approved"],
                             {JobLine("approved", e, p.now)})
           kinds == OutcomeLines \cup {"approved"}
<1>1. \/ \E e \in EntryOf(p, id, {"waiting"}) :
            \/ Leaves([Freed(moved(e), e) EXCEPT !.gate = Forgiven(@)])
            \/ Leaves(Freed(Ended(p, e, "refused", "refused"), e))
      \/ Leaves(p)
  BY Zenon DEF JobApprove
<1>2. Good(p, n, cs) /\ Serving(j, p, OutcomeLines)
  BY OverdueOf, LapseGood, LapseServes DEF Active
<1> HIDE DEF p
<1>3. p \in JobRecords /\ p.now \in Nat /\ p.entries \subseteq Entries
  BY <1>2, GoodParts
<1>4. ASSUME NEW e \in EntryOf(p, id, {"waiting"}),
             Leaves([Freed(moved(e), e) EXCEPT !.gate = Forgiven(@)])
      PROVE  Served(p, kinds)
  <2>1. e \in Entries /\ e.id \in Nat /\ e.state = "waiting"
    BY <1>3 DEF EntryOf, Entries
  <2>2. /\ JobLine("approved", e, p.now) \in JobLines
        /\ JobLine("approved", e, p.now).kind = "approved"
    BY <1>3, <2>1, LineTyped
  <2>3. [e EXCEPT !.state = "approved"] \in Entries
    BY <2>1 DEF Entries, Active
  <2>4. moved(e) \in JobRecords
    BY <1>3, <2>2, <2>3, MovedParts
  <2>5. Serving(p, moved(e), kinds)
    BY <1>3, <2>2, MovedServes
  <2> DEFINE m == moved(e)
             q == Freed(m, e)
             k == [q EXCEPT !.gate = Forgiven(@)]
  <2> HIDE DEF m
  <2>6. Serving(m, q, kinds) /\ q \in JobRecords
    BY <2>1, <2>4, FreedServes DEF m
  <2> HIDE DEF q
  <2>7. Serving(q, k, kinds)
    <3>1. q.gate \in Gates
      BY <2>6 DEF JobRecords
    <3>2. Lends("ssh", q.gate, Forgiven(q.gate))
      BY <3>1, LendOps, 0 \in Nat
    <3>3. k = [q EXCEPT !.gate = Forgiven(q.gate)]
      OBVIOUS
    <3>4. k.gate = Forgiven(q.gate) /\ k.events = q.events
      BY <2>6, <3>3, NewGate
    <3> QED
      BY <3>2, <3>4 DEF Serving
  <2>8. Serving(p, k, kinds)
    BY <2>5, <2>6, <2>7, ServingOn DEF m
  <2>9. Leaves(k)
    BY <1>4 DEF q, m
  <2> QED
    BY <2>8, <2>9, LeavesServed
<1>5. ASSUME NEW e \in EntryOf(p, id, {"waiting"}),
             Leaves(Freed(Ended(p, e, "refused", "refused"), e))
      PROVE  Served(p, OutcomeLines)
  <2>1. e \in p.entries /\ e.state \in Active
    BY DEF EntryOf, Active
  <2>2. "refused" \in Results /\ LineOf("refused") = "refused" /\ "refused" \notin Never
    BY DEF Results, LineOf, Never
  <2>3. Serving(p, Freed(Ended(p, e, "refused", "refused"), e), OutcomeLines)
    BY <1>2, <2>1, <2>2, EndedServes
  <2> QED
    BY <1>5, <2>3, LeavesServed
<1>6. Leaves(p) => Served(p, kinds)
  BY SameServes, LeavesServed
<1>7. Served(p, OutcomeLines) => Served(p, kinds)
  BY DEF Served
<1> HIDE DEF moved
<1> QED
  BY <1>1, <1>2, <1>4, <1>5, <1>6, <1>7, ServedOn

\* Jobs::decline.
LEMMA DeclineServes ==
    ASSUME NEW j, NEW n, NEW cs, Good(j, n, cs), NEW id, JobDecline(j, id)
    PROVE  Served(j, OutcomeLines)
<1>1. ASSUME NEW e \in EntryOf(j, id, {"waiting"}),
             Leaves(Struck(Freed(Ended(j, e, "declined", "declined"), e), j.now))
      PROVE  Served(j, OutcomeLines)
  <2>1. e \in j.entries /\ e.state \in Active /\ e.state # "claimed"
    BY DEF EntryOf, Active
  <2>2. "declined" \in Results /\ LineOf("declined") = "declined"
    BY DEF Results, LineOf
  <2>3. Serving(j, Struck(Freed(Ended(j, e, "declined", "declined"), e), j.now), OutcomeLines)
    BY <2>1, <2>2, EndedServes
  <2> QED
    BY <1>1, <2>3, LeavesServed
<1>2. Leaves(j) => Served(j, OutcomeLines)
  BY SameServes, LeavesServed
<1> QED
  BY <1>1, <1>2 DEF JobDecline

\* Jobs::claim.
LEMMA ClaimServes ==
    ASSUME NEW j, NEW n, NEW cs, Good(j, n, cs), NEW runner, NEW id, JobClaim(j, runner, id)
    PROVE  Served(j, OutcomeLines)
<1> DEFINE mine == {e \in EntryOf(j, id, Active) : RunnerOf[e.project] = runner}
           p == Lapse(j, Overdue(j, {"approved"}) \cap mine)
<1>1. \/ \E e \in EntryOf(p, id, {"approved"}) :
            \/ Leaves(Moved(p, e, [e EXCEPT !.state = "claimed", !.claimedAt = p.now], {}))
            \/ Leaves(Ended(p, e, "refused", "refused"))
      \/ Leaves(p)
  BY Zenon DEF JobClaim
<1>2. Good(p, n, cs) /\ Serving(j, p, OutcomeLines)
  BY OverdueOf, LapseGood, LapseServes DEF Active
<1> HIDE DEF p
<1>3. p \in JobRecords
  BY <1>2, GoodParts
<1>4. ASSUME NEW e \in EntryOf(p, id, {"approved"}),
             Leaves(Moved(p, e, [e EXCEPT !.state = "claimed", !.claimedAt = p.now], {}))
      PROVE  Served(p, OutcomeLines)
  BY <1>3, <1>4, MovedServes, LeavesServed
<1>5. ASSUME NEW e \in EntryOf(p, id, {"approved"}),
             Leaves(Ended(p, e, "refused", "refused"))
      PROVE  Served(p, OutcomeLines)
  <2>1. e \in p.entries /\ e.state \in Active
    BY DEF EntryOf, Active
  <2>2. "refused" \in Results /\ LineOf("refused") = "refused" /\ "refused" \notin Never
    BY DEF Results, LineOf, Never
  <2>3. Serving(p, Ended(p, e, "refused", "refused"), OutcomeLines)
    BY <1>2, <2>1, <2>2, EndedServes
  <2> QED
    BY <1>5, <2>3, LeavesServed
<1>6. Leaves(p) => Served(p, OutcomeLines)
  BY SameServes, LeavesServed
<1> QED
  BY <1>1, <1>2, <1>4, <1>5, <1>6, ServedOn

\* Jobs::finish, for a job it knows or not, and Jobs::refuse_claimed.
LEMMA FinishServes ==
    ASSUME NEW j, NEW n, NEW cs, Good(j, n, cs), NEW runner, NEW project, NEW id,
           NEW result \in {"trusted", "applied", "apply_failed", "outcome_unknown"},
           JobFinish(j, runner, project, id, result)
    PROVE  Served(j, OutcomeLines)
<1> DEFINE line == [kind |-> result, id |-> id, project |-> project, at |-> j.now]
<1>1. \/ \E e \in j.entries : e.state = "claimed" /\ Leaves(Ended(j, e, result, result))
      \/ Leaves([j EXCEPT !.events = @ \cup {line}])
      \/ Leaves(j)
  BY Zenon DEF JobFinish, Reportable
<1>2. ASSUME NEW e \in j.entries, e.state = "claimed", Leaves(Ended(j, e, result, result))
      PROVE  Served(j, OutcomeLines)
  <2>1. e.state \in Active
    BY <1>2 DEF Active
  <2>2. result \in Results /\ LineOf(result) = result /\ result \notin Never
    BY DEF Results, LineOf, Never
  <2>3. Serving(j, Ended(j, e, result, result), OutcomeLines)
    BY <2>1, <2>2, EndedServes
  <2> QED
    BY <1>2, <2>3, LeavesServed
<1>3. ASSUME Leaves([j EXCEPT !.events = @ \cup {line}])
      PROVE  Served(j, OutcomeLines)
  <2>1. j \in JobRecords /\ line.kind \in OutcomeLines
    BY GoodParts DEF OutcomeLines
  <2> HIDE DEF line
  <2>2. gate' = j.gate /\ jobEvents' = j.events \cup {line}
    BY <1>3, <2>1 DEF Leaves, JobRecords
  <2> QED
    BY <2>1, <2>2 DEF Served, Lends
<1>4. Leaves(j) => Served(j, OutcomeLines)
  BY SameServes, LeavesServed
<1> QED
  BY <1>1, <1>2, <1>3, <1>4
LEMMA RefuseClaimedServes ==
    ASSUME NEW j, NEW n, NEW cs, Good(j, n, cs), NEW id, JobRefuseClaimed(j, id)
    PROVE  Served(j, OutcomeLines)
<1>1. ASSUME NEW e \in EntryOf(j, id, {"claimed"}), Leaves(Ended(j, e, "refused", "refused"))
      PROVE  Served(j, OutcomeLines)
  <2>1. e \in j.entries /\ e.state \in Active
    BY DEF EntryOf, Active
  <2>2. "refused" \in Results /\ LineOf("refused") = "refused" /\ "refused" \notin Never
    BY DEF Results, LineOf, Never
  <2>3. Serving(j, Ended(j, e, "refused", "refused"), OutcomeLines)
    BY <2>1, <2>2, EndedServes
  <2> QED
    BY <1>1, <2>3, LeavesServed
<1>2. Leaves(j) => Served(j, OutcomeLines)
  BY SameServes, LeavesServed
<1> QED
  BY <1>1, <1>2 DEF JobRefuseClaimed

\* Jobs::kill.
LEMMA KillServes ==
    ASSUME NEW j, NEW n, NEW cs, Good(j, n, cs), NEW project, JobKill(j, project)
    PROVE  Served(j, OutcomeLines)
<1> DEFINE hit == {e \in j.entries : e.project = project /\ e.state \in Active \ {"claimed"}}
           freed == {<<"job", e.id>> : e \in {x \in hit : x.state \in HoldsSlot}}
           es == (j.entries \ hit) \cup {Settled(e, "killed", j.now) : e \in hit}
           ev == j.events \cup {JobLine("killed", e, j.now) : e \in hit}
           g == [j.gate EXCEPT !.occupant = @ \ freed]
           k == [j EXCEPT !.entries = es, !.events = ev, !.gate.occupant = @ \ freed]
<1>1. Leaves(Struck(k, j.now)) \/ Leaves(k)
  BY Zenon DEF JobKill
<1>2. j \in JobRecords /\ j.gate \in Gates /\ j.now \in Nat
  BY GoodParts
<1>3. g \in Gates /\ Lends("ssh", j.gate, g)
  <2>1. g \in Gates /\ g.occupant = j.gate.occupant \ freed
    BY <1>2 DEF Gates
  <2>2. \A o \in freed : o[1] = "job"
    OBVIOUS
  <2> HIDE DEF g, freed
  <2>3. HoldOf("ssh", g) = HoldOf("ssh", j.gate)
    BY <2>1, <2>2 DEF HoldOf
  <2>4. OneHolder(j.gate) => OneHolder(g)
    BY <2>1 DEF OneHolder
  <2> QED
    BY <2>1, <2>3, <2>4 DEF Lends
<1>4. \A l \in ev : l \in j.events \/ l.kind \in OutcomeLines
  BY DEF JobLine, OutcomeLines
<1>5. j.events \subseteq ev
  OBVIOUS
<1> HIDE DEF es, ev
<1>6. k.gate = g /\ k.events = ev
  <2>1. k = [j EXCEPT !.entries = es, !.events = ev, !.gate = g]
    BY Zenon
  <2> HIDE DEF k, g
  <2> QED
    BY <1>2, <2>1 DEF JobRecords
<1>7. Struck(k, j.now).gate = StruckAt(g, j.now) /\ Struck(k, j.now).events = ev
  <2>1. k = [j EXCEPT !.entries = es, !.events = ev, !.gate = g]
    BY Zenon
  <2>2. Struck(k, j.now) = [k EXCEPT !.gate = StruckAt(@, j.now)]
    BY Zenon DEF Struck
  <2> HIDE DEF k, g
  <2> QED
    BY <1>2, <2>1, <2>2 DEF JobRecords
<1> HIDE DEF g, k
<1>8. Lends("ssh", j.gate, StruckAt(g, j.now))
  BY <1>2, <1>3, LendOps, LendsTwice, 0 \in Nat
<1>9. Serving(j, k, OutcomeLines) /\ Serving(j, Struck(k, j.now), OutcomeLines)
  BY <1>3, <1>4, <1>5, <1>6, <1>7, <1>8 DEF Serving
<1> QED
  BY <1>1, <1>9, LeavesServed

\* Jobs::request lets a job into a free slot only.
LEMMA RequestServes ==
    ASSUME NEW j, NEW n, NEW cs, Good(j, n, cs), nextId \in Nat, NEW project, NEW kind,
           JobRequest(j, project, kind)
    PROVE  Served(j, {"requested"})
<1> DEFINE p == Pruned(j)
           g == GateTicked(p.gate, p.now)
           job == [id |-> nextId, project |-> project, kind |-> kind,
                   state |-> "queued", result |-> None, scope |-> None,
                   created |-> p.now, planAt |-> None, claimedAt |-> None,
                   doneAt |-> None]
           line == JobLine("requested", job, p.now)
           h == Admitted(g, p.now, <<"job", nextId>>)
<1>1. \/ /\ Admits(g, p.now)
         /\ Leaves([p EXCEPT !.entries = @ \cup {job}, !.gate = h, !.events = @ \cup {line}])
      \/ Leaves([p EXCEPT !.gate = g])
      \/ Leaves(p)
  BY Zenon DEF JobRequest
<1>2. /\ Good(p, n, cs) /\ p.gate = j.gate /\ p.events = j.events
  BY PrunedGood
<1>3. line.kind = "requested"
  BY DEF JobLine
<1> HIDE DEF p, job, line
<1>4. p \in JobRecords /\ p.now \in Nat /\ p.gate \in Gates
  BY <1>2, GoodParts
<1>5. g \in Gates /\ Lends("ssh", j.gate, g)
  BY <1>2, <1>4, HolderOps, LendOps, 0 \in Nat
<1> HIDE DEF g
<1>6. Admits(g, p.now) => Lends("ssh", j.gate, h)
  <2>1. g.occupant = {} => Lends("ssh", g, h)
    BY <1>4, <1>5, LendOps
  <2> QED
    BY <1>5, <2>1, LendsTwice DEF Admits
<1> HIDE DEF h
<1>7. ASSUME Admits(g, p.now),
             Leaves([p EXCEPT !.entries = @ \cup {job}, !.gate = h, !.events = @ \cup {line}])
      PROVE  Served(j, {"requested"})
  <2>1. gate' = h /\ jobEvents' = p.events \cup {line}
    BY <1>4, <1>7 DEF Leaves, JobRecords
  <2> QED
    BY <1>2, <1>3, <1>6, <1>7, <2>1 DEF Served
<1>8. ASSUME Leaves([p EXCEPT !.gate = g])
      PROVE  Served(j, {"requested"})
  <2>1. gate' = g /\ jobEvents' = p.events
    BY <1>4, <1>8 DEF Leaves, JobRecords
  <2> QED
    BY <1>2, <1>5, <2>1 DEF Served
<1>9. ASSUME Leaves(p)
      PROVE  Served(j, {"requested"})
  BY <1>2, <1>9 DEF Served, Leaves, Lends
<1> QED
  BY <1>1, <1>7, <1>8, <1>9

----------------------------------------------------------------------------
(* The specification.                                                      *)

\* Nothing is filed, recorded or handed out at the start.
LEMMA InitInv ==
    ASSUME JobsInit
    PROVE  JobsInv
<1>1. /\ Held.now = 0 /\ Held.entries = {} /\ Held.gate = EmptyGate /\ Held.events = {}
      /\ nextId = 1 /\ claims = {}
  BY DEF JobsInit, Held
<1>2. EmptyGate \in Gates /\ HoldOf("job", EmptyGate) = {}
  BY DEF EmptyGate, Gates, HoldOf
<1>3. Held \in JobRecords
  <2>1. jobsHighWater \in Nat /\ entries = {} /\ gate \in Gates /\ jobEvents = {}
    BY <1>2 DEF JobsInit
  <2> QED
    BY <2>1 DEF Held, JobRecords
<1>4. JTyped(Held, nextId, claims) /\ OneEach(Held, nextId) /\ Told(Held, nextId)
  BY <1>1, <1>3 DEF JTyped, OneEach, Told
<1>5. JSlotted(Held)
  BY <1>1, <1>2 DEF JSlotted, Holders
<1>6. HandedOut(Held, nextId, claims)
  BY <1>1 DEF HandedOut
<1> QED
  BY <1>4, <1>5, <1>6 DEF JobsInit, JobsInv, Good

\* A step that continues the entries keeps their scopes: an id names one entry.
LEMMA Frozen ==
    ASSUME JobsInv, Continues(entries, entries')
    PROVE  ScopeStaysFrozen
<1>1. \A e, f \in entries : e.id = f.id => e = f
  BY DEF JobsInv, Good, OneEach, Held
<1> QED
  BY <1>1 DEF ScopeStaysFrozen, Continues

\* Every step keeps the invariant, and claims and scopes as they must be.
LEMMA StepInv ==
    ASSUME JobsInv, [JobsNext]_jobsVars
    PROVE  JobsInv' /\ ClaimsStillTrusted /\ ScopeStaysFrozen
<1>1. ASSUME claims' = claims PROVE ClaimsStillTrusted
  BY <1>1 DEF ClaimsStillTrusted
<1>2. CASE UNCHANGED jobsVars
  <2>1. Held' = Held /\ UNCHANGED <<nextId, claims, trusted, entries>>
    BY <1>2 DEF jobsVars, jobVars, Held
  <2>2. Continues(entries, entries')
    BY <2>1 DEF Continues
  <2>3. JobsInv'
    BY <2>1 DEF JobsInv
  <2> QED
    BY <1>1, <2>1, <2>2, <2>3, Frozen
<1>3. ASSUME NEW p \in Projects, NEW rev \in Revisions \cup {None}, SetTrusted(p, rev)
      PROVE  JobsInv' /\ ClaimsStillTrusted /\ ScopeStaysFrozen
  BY <1>1, <1>3, SetTrustedInv, Frozen DEF SetTrusted
<1>4. ASSUME NEW t \in JobReadings,
             LET j == JobsAt(gate, t) IN
               \/ JobTick(j)
               \/ \E p \in Projects, kind \in {"trust", "apply"} :
                     JobRequest(JobsTicked(j), p, kind)
               \/ \E r \in Runners : JobPoll(JobsTicked(j), r)
               \/ \E r \in Runners, id \in Known, sc \in JobScopes : JobSubmit(j, r, id, sc)
               \/ \E r \in Runners, id \in Known, res \in {"refused", "plan_failed"} :
                     JobRefuse(j, r, id, res)
               \/ \E id \in Known, n \in Known, sc \in SignedScopes : JobApprove(j, id, n, sc)
               \/ \E id \in Known : JobDecline(JobsTicked(j), id)
               \/ \E r \in Runners, id \in Known : JobClaim(j, r, id)
               \/ \E r \in Runners, p \in Projects, id \in Known,
                     res \in {"trusted", "applied", "apply_failed", "outcome_unknown"} :
                     JobFinish(j, r, p, id, res)
               \/ \E id \in Known : JobRefuseClaimed(j, id)
               \/ \E p \in Projects : JobKill(j, p)
      PROVE  JobsInv' /\ ClaimsStillTrusted /\ ScopeStaysFrozen
  <2> DEFINE j == JobsAt(gate, t)
             k == JobsTicked(j)
  <2>1. t \in Nat
    BY GateAssumption DEF JobReadings
  <2>2. Good(j, nextId, claims) /\ j.entries = entries /\ nextId \in Nat
    BY <2>1, ReadingGood
  <2>3. Continues(entries, j.entries)
    BY <2>2 DEF Continues
  <2>4. Good(k, nextId, claims) /\ Continues(entries, k.entries)
    BY <2>2, TickedGood
  <2>5. Known \subseteq Nat
    BY <2>2 DEF Known
  <2> HIDE DEF j, k
  <2>6. CASE JobTick(j)
    BY <1>1, <2>2, <2>3, <2>6, TickInv, Frozen DEF JobTick, JobsQuiet
  <2>7. ASSUME NEW p \in Projects, NEW kind \in {"trust", "apply"}, JobRequest(k, p, kind)
        PROVE  JobsInv' /\ ClaimsStillTrusted /\ ScopeStaysFrozen
    <3>1. claims' = claims
      BY <2>7 DEF JobRequest, JobsQuiet
    <3> QED
      BY <1>1, <2>4, <2>7, <3>1, RequestInv
  <2>8. ASSUME NEW r \in Runners, JobPoll(k, r)
        PROVE  JobsInv' /\ ClaimsStillTrusted /\ ScopeStaysFrozen
    BY <1>1, <2>4, <2>8, PollInv, Frozen DEF JobPoll, JobsQuiet
  <2>9. ASSUME NEW r \in Runners, NEW id \in Known, NEW sc \in JobScopes,
               JobSubmit(j, r, id, sc)
        PROVE  JobsInv' /\ ClaimsStillTrusted /\ ScopeStaysFrozen
    BY <1>1, <2>2, <2>3, <2>9, SubmitInv, Frozen DEF JobSubmit, JobsQuiet
  <2>10. ASSUME NEW r \in Runners, NEW id \in Known, NEW res \in {"refused", "plan_failed"},
                JobRefuse(j, r, id, res)
         PROVE  JobsInv' /\ ClaimsStillTrusted /\ ScopeStaysFrozen
    BY <1>1, <2>2, <2>3, <2>10, RefuseInv, Frozen DEF JobRefuse, JobsQuiet
  <2>11. ASSUME NEW id \in Known, NEW n \in Known, NEW sc \in SignedScopes,
                JobApprove(j, id, n, sc)
         PROVE  JobsInv' /\ ClaimsStillTrusted /\ ScopeStaysFrozen
    <3>1. claims' = claims
      BY <2>11, Zenon DEF JobApprove, JobsQuiet
    <3>2. JobsInv' /\ Continues(entries, entries')
      BY <2>2, <2>3, <2>11, ApproveInv, Zenon
    <3> QED
      BY <1>1, <3>1, <3>2, Frozen
  <2>12. ASSUME NEW id \in Known, JobDecline(k, id)
         PROVE  JobsInv' /\ ClaimsStillTrusted /\ ScopeStaysFrozen
    BY <1>1, <2>4, <2>12, DeclineInv, Frozen DEF JobDecline, JobsQuiet
  <2>13. ASSUME NEW r \in Runners, NEW id \in Known, JobClaim(j, r, id)
         PROVE  JobsInv' /\ ClaimsStillTrusted /\ ScopeStaysFrozen
    BY <2>2, <2>5, <2>13, ClaimInv, Frozen
  <2>14. ASSUME NEW r \in Runners, NEW p \in Projects, NEW id \in Known,
                NEW res \in {"trusted", "applied", "apply_failed", "outcome_unknown"},
                JobFinish(j, r, p, id, res)
         PROVE  JobsInv' /\ ClaimsStillTrusted /\ ScopeStaysFrozen
    <3>1. claims' = claims
      BY <2>14, Zenon DEF JobFinish, JobsQuiet
    <3>2. JobsInv' /\ Continues(entries, entries')
      <4>1. id \in Nat /\ id < nextId
        BY <2>2, GoodParts DEF Known
      <4> QED
        BY <2>2, <2>3, <2>14, <4>1, FinishInv, Zenon
    <3> QED
      BY <1>1, <3>1, <3>2, Frozen
  <2>15. ASSUME NEW id \in Known, JobRefuseClaimed(j, id)
         PROVE  JobsInv' /\ ClaimsStillTrusted /\ ScopeStaysFrozen
    BY <1>1, <2>2, <2>3, <2>15, RefuseClaimedInv, Frozen DEF JobRefuseClaimed, JobsQuiet
  <2>16. ASSUME NEW p \in Projects, JobKill(j, p)
         PROVE  JobsInv' /\ ClaimsStillTrusted /\ ScopeStaysFrozen
    BY <1>1, <2>2, <2>3, <2>16, KillInv, Frozen DEF JobKill, JobsQuiet
  <2> QED
    BY <1>4, <2>6, <2>7, <2>8, <2>9, <2>10, <2>11, <2>12, <2>13, <2>14, <2>15, <2>16, Zenon
    DEF j, k
<1> QED
  BY <1>2, <1>3, <1>4, Zenon DEF JobsNext

\* Jobs keeps its invariant from its start on.
LEMMA JobsInvariant == JobsSpec => []JobsInv
<1>1. JobsInv /\ [JobsNext]_jobsVars => JobsInv'
  BY StepInv
<1> QED
  BY <1>1, InitInv, PTL DEF JobsSpec

\* No step of Jobs touches what another kind of request holds of the gate.
LEMMA StepLends ==
    ASSUME JobsInv, [JobsNext]_jobsVars
    PROVE  Lends("ssh", gate, gate')
<1>1. CASE UNCHANGED jobsVars \/ \E p \in Projects, rev \in Revisions \cup {None} : SetTrusted(p, rev)
  <2>1. gate' = gate
    BY <1>1, Zenon DEF jobsVars, SetTrusted
  <2> QED
    BY <2>1 DEF Lends
<1>2. ASSUME NEW t \in JobReadings, NEW j, j = JobsAt(gate, t),
             NEW k, k = JobsTicked(j),
             \/ JobTick(j)
             \/ \E p \in Projects, kind \in {"trust", "apply"} : JobRequest(k, p, kind)
             \/ \E r \in Runners : JobPoll(k, r)
             \/ \E r \in Runners, id \in Known, sc \in JobScopes : JobSubmit(j, r, id, sc)
             \/ \E r \in Runners, id \in Known, res \in {"refused", "plan_failed"} :
                   JobRefuse(j, r, id, res)
             \/ \E id \in Known, n \in Known, sc \in SignedScopes : JobApprove(j, id, n, sc)
             \/ \E id \in Known : JobDecline(k, id)
             \/ \E r \in Runners, id \in Known : JobClaim(j, r, id)
             \/ \E r \in Runners, p \in Projects, id \in Known,
                   res \in {"trusted", "applied", "apply_failed", "outcome_unknown"} :
                   JobFinish(j, r, p, id, res)
             \/ \E id \in Known : JobRefuseClaimed(j, id)
             \/ \E p \in Projects : JobKill(j, p)
      PROVE  Lends("ssh", gate, gate')
  <2>1. t \in Nat
    BY GateAssumption DEF JobReadings
  <2>2. Good(j, nextId, claims) /\ nextId \in Nat
    BY <1>2, <2>1, ReadingGood
  <2>3. j.gate = gate
    BY <1>2 DEF JobsAt
  <2>4. Good(k, nextId, claims) /\ Serving(j, k, OutcomeLines)
    BY <1>2, <2>2, TickedGood, TickedServes
  <2>5. JobTick(j) => Served(j, OutcomeLines)
    BY <1>2, <2>4, LeavesServed DEF JobTick
  <2>6. (\E p \in Projects, kind \in {"trust", "apply"} : JobRequest(k, p, kind))
        => Served(k, {"requested"})
    BY <2>2, <2>4, RequestServes
  <2>7. (\E r \in Runners : JobPoll(k, r)) => Served(k, OutcomeLines \cup {"started"})
    BY <2>4, PollServes
  <2>8. (\E r \in Runners, id \in Known, sc \in JobScopes : JobSubmit(j, r, id, sc))
        => Served(j, OutcomeLines \cup {"waiting"})
    BY <2>2, SubmitServes
  <2>9. (\E r \in Runners, id \in Known, res \in {"refused", "plan_failed"} :
            JobRefuse(j, r, id, res)) => Served(j, OutcomeLines)
    BY <2>2, RefuseServes
  <2>10. (\E id \in Known, n \in Known, sc \in SignedScopes : JobApprove(j, id, n, sc))
         => Served(j, OutcomeLines \cup {"approved"})
    BY <2>2, ApproveServes
  <2>11. (\E id \in Known : JobDecline(k, id)) => Served(k, OutcomeLines)
    BY <2>4, DeclineServes
  <2>12. (\E r \in Runners, id \in Known : JobClaim(j, r, id)) => Served(j, OutcomeLines)
    BY <2>2, ClaimServes
  <2>13. (\E r \in Runners, p \in Projects, id \in Known,
             res \in {"trusted", "applied", "apply_failed", "outcome_unknown"} :
             JobFinish(j, r, p, id, res)) => Served(j, OutcomeLines)
    BY <2>2, FinishServes
  <2>14. (\E id \in Known : JobRefuseClaimed(j, id)) => Served(j, OutcomeLines)
    BY <2>2, RefuseClaimedServes
  <2>15. (\E p \in Projects : JobKill(j, p)) => Served(j, OutcomeLines)
    BY <2>2, KillServes
  <2>16. (\E kinds : Served(j, kinds)) \/ (\E kinds : Served(k, kinds))
    BY <1>2, <2>5, <2>6, <2>7, <2>8, <2>9, <2>10, <2>11, <2>12, <2>13, <2>14, <2>15, Zenon
  <2> QED
    BY <2>3, <2>4, <2>16, LendsTwice DEF Serving, Served
<1> QED
  BY <1>1, <1>2, Zenon DEF JobsNext

\* Nobody else holds the gate when there are only jobs.
JobsAlone == JobsInv /\ HoldOf("ssh", gate) = {}
LEMMA JobsAreAlone == JobsSpec => []JobsAlone
<1>1. JobsInit => JobsAlone
  BY InitInv DEF JobsInit, JobsAlone, EmptyGate, HoldOf
<1>2. JobsAlone /\ [JobsNext]_jobsVars => JobsAlone'
  BY StepInv, StepLends DEF JobsAlone, Lends
<1> QED
  BY <1>1, <1>2, PTL DEF JobsSpec

\* The invariant gives what the runs check.
LEMMA HeldGood ==
    ASSUME JobsAlone
    PROVE  OneJobAtATime /\ LinesTellTheJob
<1>1. /\ Held.now = jobsHighWater /\ Held.entries = entries
      /\ Held.gate = gate /\ Held.events = jobEvents
  BY DEF Held
<1>2. Good(Held, nextId, claims)
  BY DEF JobsAlone, JobsInv
<1>3. JobsTypeOK
  BY <1>1, <1>2, GoodParts DEF JobsTypeOK, JobsAlone, JobsInv, ClaimSet
<1>4. AtMostOneUnfinished
  BY <1>1, <1>2 DEF Good, OneEach, AtMostOneUnfinished, Unfinished
<1>5. SlotIsHeldByJob
  <2>1. gate \in Gates /\ HoldOf("job", gate) = HoldingJobs /\ HoldOf("ssh", gate) = {}
    BY <1>1, <1>2, GoodParts DEF Good, JSlotted, Holders, HoldingJobs, JobsAlone
  <2>2. gate.occupant = HoldOf("ssh", gate) \cup HoldOf("job", gate)
    BY <2>1, SlotParts
  <2> QED
    BY <2>1, <2>2 DEF SlotIsHeldByJob
<1>6. \A id : Outcomes(id) = OutcomesIn(jobEvents, id)
  BY DEF Outcomes, OutcomesIn
<1>7. OneOutcomePerJob
  BY <1>1, <1>2, <1>6 DEF Good, Told, LineOf, OneOutcomePerJob
<1>8. ASSUME NEW c \in claims
      PROVE  /\ \A d \in claims : d.id = c.id => d = c
             /\ \E w, a \in jobEvents :
                   /\ w.kind = "waiting" /\ w.id = c.id
                   /\ a.kind = "approved" /\ a.id = c.id
                   /\ a.at < w.at + ApprovalTTL
                   /\ a.at <= c.at /\ c.at < w.at + MaxPlanAge
             /\ \A l \in Outcomes(c.id) : l.kind \notin {"killed", "declined", "timed_out"}
  <2>1. HandedOut(Held, nextId, claims)
    BY <1>2 DEF Good
  <2>2. \A d \in claims : d.id = c.id => d = c
    BY <2>1 DEF HandedOut
  <2>3. \A l \in Outcomes(c.id) : l.kind \notin {"killed", "declined", "timed_out"}
    BY <1>1, <1>6, <2>1 DEF HandedOut, Never
  <2>4. \E w \in jobEvents : /\ w.kind = "waiting" /\ w.id = c.id
                             /\ c.at < w.at + MaxPlanAge
                             /\ ApprovedAt(jobEvents, c.id, w.at, c.at)
    BY <1>1, <2>1, Zenon DEF HandedOut
  <2> QED
    BY <2>2, <2>3, <2>4 DEF ApprovedAt
<1>9. ClaimsWereApproved
  BY <1>8, Zenon DEF ClaimsWereApproved
<1> QED
  BY <1>3, <1>4, <1>5, <1>7, <1>9 DEF OneJobAtATime, LinesTellTheJob

\* Whatever order filing, planning, answers, lapses, kills and reports come in,
\* at most one job is unfinished, and the shared slot is held by exactly the
\* job a person may still be asked about (Jobs::active and the gate).
THEOREM JobsAreOneAtATime == JobsSpec => []OneJobAtATime
<1>1. JobsAlone => OneJobAtATime
  BY HeldGood
<1> QED
  BY <1>1, JobsAreAlone, PTL

\* A job that is done has exactly one outcome line, agreeing with its result;
\* what a runner was handed was approved in time, once, and never after a kill,
\* a decline or a timeout (the ledger events of src/job.rs).
THEOREM JobLinesAreTrue == JobsSpec => []LinesTellTheJob
<1>1. JobsAlone => LinesTellTheJob
  BY HeldGood
<1> QED
  BY <1>1, JobsAreAlone, PTL

\* What claim hands out is the scope the approver was shown, and the project's
\* trust is still the one that scope names.
THEOREM ClaimsStand == JobsSpec => ClaimsAreSound
<1>1. JobsInv /\ [JobsNext]_jobsVars => [ClaimsStillTrusted /\ ScopeStaysFrozen]_jobsVars
  BY StepInv
<1> QED
  BY <1>1, JobsInvariant, PTL DEF JobsSpec, ClaimsAreSound

----------------------------------------------------------------------------
(* Jobs implements Approvals.                                              *)
(*                                                                         *)
(* What Approvals speaks of is what waits, what is approved, the waiting   *)
(* lines and the claims.  Most of what a method does leaves these alone or *)
(* ends some: Idle says so, of entries es and lines ev that become fs and  *)
(* fv.  The proof adds to JobsInv that a job still being planned has no    *)
(* waiting line, so that its scope is a new question.                      *)

InPlanning == {"queued", "working"}
AskedLines(ev) == {l \in ev : l.kind = "waiting"}
Unasked(es, ev) ==
    \A e \in es, l \in AskedLines(ev) : e.state \in InPlanning => l.id # e.id
Idle(es, ev, fs, fv) ==
    /\ \A f \in fs : f.state \in {"waiting", "approved"} => f \in es
    /\ \A f \in fs : f.state \in InPlanning => \E e \in es : e.id = f.id /\ e.state \in InPlanning
    /\ AskedLines(fv) = AskedLines(ev)
IdleFor(j) == Idle(entries, jobEvents, j.entries, j.events)

\* What is shown of each step.
Refined == JobApprovals!Next /\ Unasked(entries', jobEvents')

LEMMA IdleOn ==
    ASSUME NEW j, NEW k, IdleFor(j), Idle(j.entries, j.events, k.entries, k.events)
    PROVE  IdleFor(k)
BY DEF IdleFor, Idle

\* Entries that end, with lines that ask nothing.
LEMMA EndsAreIdle ==
    ASSUME NEW j, NEW k, \A f \in k.entries : f.state = "done" \/ f \in j.entries,
           NEW new, k.events = j.events \cup new, \A l \in new : l.kind # "waiting"
    PROVE  Idle(j.entries, j.events, k.entries, k.events)
BY DEF Idle, AskedLines, InPlanning

\* A method that leaves an idle record asks, grants and uses nothing.
LEMMA IdleLapses ==
    ASSUME Unasked(entries, jobEvents), Idle(entries, jobEvents, entries', jobEvents'),
           claims' = claims
    PROVE  JobApprovals!Lapse /\ Unasked(entries', jobEvents')
<1>1. Idle(entries, jobEvents, entries', jobEvents')
  OBVIOUS
<1>2. /\ JobQuestions("waiting")' \subseteq JobQuestions("waiting")
      /\ JobQuestions("approved")' \subseteq JobQuestions("approved")
  BY <1>1 DEF Idle, JobQuestions
<1>3. JobPast' = JobPast
  BY <1>1 DEF Idle, AskedLines, JobPast
<1>4. JobUses' = JobUses
  BY DEF JobUses
<1>5. Unasked(entries', jobEvents')
  BY <1>1 DEF Idle, Unasked
<1> QED
  BY <1>2, <1>3, <1>4, <1>5 DEF JobApprovals!Lapse
LEMMA IdleStep ==
    ASSUME Unasked(entries, jobEvents), NEW k, IdleFor(k), Leaves(k), claims' = claims
    PROVE  Refined
<1>1. Idle(entries, jobEvents, entries', jobEvents')
  BY DEF IdleFor, Leaves
<1> QED  BY <1>1, IdleLapses DEF Refined, JobApprovals!Next

\* Lapse and prune ask nothing.
LEMMA LapseIdle ==
    ASSUME NEW j, NEW n, NEW cs, Good(j, n, cs), NEW over \in SUBSET Overdue(j, Active)
    PROVE  Idle(j.entries, j.events, Lapse(j, over).entries, Lapse(j, over).events)
<1> DEFINE k == Lapse(j, over)
           new == {JobLine(LapseLine(e), e, Deadline(e)) : e \in over}
<1>1. \A f \in k.entries : f.state = "done" \/ f \in j.entries
  BY LapseGood
<1>2. j \in JobRecords
  BY GoodParts
<1>3. k.events = j.events \cup new
  BY <1>2, LapseParts, Zenon
<1>4. \A l \in new : l.kind # "waiting"
  <2>1. ASSUME NEW e \in over PROVE JobLine(LapseLine(e), e, Deadline(e)).kind # "waiting"
    <3>1. e.state \in Active
      BY DEF Overdue
    <3>2. LapseLine(e) \in OutcomeLines
      BY <3>1, LapseResults
    <3> QED
      BY <3>2 DEF JobLine, OutcomeLines
  <2> QED
    BY <2>1
<1> HIDE DEF k, new
<1>5. Idle(j.entries, j.events, k.entries, k.events)
  BY <1>1, <1>3, <1>4, EndsAreIdle
<1> QED
  BY <1>5 DEF k

LEMMA TickIdle ==
    ASSUME NEW j, NEW n, NEW cs, Good(j, n, cs), IdleFor(j)
    PROVE  IdleFor(JobsTicked(j))
<1> DEFINE k == Lapse(j, Overdue(j, Active))
<1>1. Idle(j.entries, j.events, k.entries, k.events) /\ Good(k, n, cs)
  BY LapseIdle, LapseGood
<1>2. JobsTicked(j) = Pruned(k)
  BY DEF JobsTicked
<1> HIDE DEF k
<1>3. Pruned(k).events = k.events /\ Pruned(k).entries \subseteq k.entries
  BY <1>1, PrunedGood
<1>4. IdleFor(k)
  BY <1>1, IdleOn
<1> QED
  BY <1>2, <1>3, <1>4 DEF IdleFor, Idle

\* Whatever follows on a settled entry, its gate apart, is idle.
LEMMA EndedIdle ==
    ASSUME NEW p \in JobRecords, IdleFor(p), NEW e \in Entries, NEW result \in Results,
           NEW kind \in OutcomeLines, NEW at
    PROVE  LET m == Ended(p, e, result, kind)
           IN  IdleFor(m) /\ IdleFor(Freed(m, e)) /\ IdleFor(Struck(Freed(m, e), at))
<1> DEFINE f == Settled(e, result, p.now)
           new == {JobLine(kind, e, p.now)}
           m == Ended(p, e, result, kind)
           q == Freed(m, e)
           r == Struck(q, at)
<1>1. p.now \in Nat
  BY DEF JobRecords
<1>2. f \in Entries /\ f.state = "done"
  BY <1>1, SettledEntry
<1>3. new \subseteq JobLines /\ \A l \in new : l.kind # "waiting"
  BY <1>1, LineTyped DEF OutcomeLines
<1>4. m = Moved(p, e, f, new)
  BY DEF Ended
<1> HIDE DEF f, new, m
<1>5. /\ m.entries = (p.entries \ {e}) \cup {f} /\ m.events = p.events \cup new
      /\ m \in JobRecords
  BY <1>2, <1>3, <1>4, MovedParts
<1>6. Idle(p.entries, p.events, m.entries, m.events)
  BY <1>2, <1>3, <1>5, EndsAreIdle
<1>7. q.entries = m.entries /\ q.events = m.events
  BY <1>5, NewGate DEF Freed
<1>8. r.entries = m.entries /\ r.events = m.events
  BY <1>5 DEF Freed, Struck, JobRecords
<1> HIDE DEF q, r
<1>9. IdleFor(m) /\ IdleFor(q) /\ IdleFor(r)
  BY <1>6, <1>7, <1>8, IdleOn DEF IdleFor
<1> QED
  BY <1>9 DEF m, q, r

\* A method's own lapse of some entries, before its work.
LEMMA OwnLapse ==
    ASSUME NEW j, Good(j, nextId, claims), IdleFor(j), NEW states \in SUBSET Active, NEW some
    PROVE  LET p == Lapse(j, Overdue(j, states) \cap some)
           IN  Good(p, nextId, claims) /\ IdleFor(p)
<1> DEFINE over == Overdue(j, states) \cap some
           p == Lapse(j, over)
<1>1. over \in SUBSET Overdue(j, Active)
  BY OverdueOf
<1> HIDE DEF over
<1>2. Good(p, nextId, claims) /\ Idle(j.entries, j.events, p.entries, p.events)
  BY <1>1, LapseGood, LapseIdle
<1> HIDE DEF p
<1>3. IdleFor(p)
  BY <1>2, IdleOn
<1> QED
  BY <1>2, <1>3 DEF p, over

\* The unfinished entry e becomes f: it alone can wait or be approved.
LEMMA AloneIn ==
    ASSUME NEW p, Good(p, nextId, claims), NEW e \in p.entries, e.state # "done", NEW f,
           entries' = (p.entries \ {e}) \cup {f}, NEW state, state # "done"
    PROVE  JobQuestions(state)' =
              IF f.state = state THEN {[id |-> f.id, scope |-> f.scope]} ELSE {}
<1>1. \A x \in entries' : x.state = state <=> x = f /\ f.state = state
  BY DEF Good, OneEach
<1>2. f \in entries'
  OBVIOUS
<1> QED
  BY <1>1, <1>2 DEF JobQuestions

\* No entry is planned after it, unless it is f.
LEMMA AloneUnasked ==
    ASSUME NEW p, Good(p, nextId, claims), NEW e \in p.entries, e.state # "done", NEW f,
           entries' = (p.entries \ {e}) \cup {f}, f.state \notin InPlanning
    PROVE  Unasked(entries', jobEvents')
<1>1. \A x \in entries' : x.state \notin InPlanning
  BY DEF Good, OneEach, InPlanning
<1> QED
  BY <1>1 DEF Unasked

----------------------------------------------------------------------------
(* The methods.                                                            *)

LEMMA TickRefines ==
    ASSUME Unasked(entries, jobEvents), NEW j, Good(j, nextId, claims), IdleFor(j), JobTick(j)
    PROVE  Refined
BY TickIdle, IdleStep DEF JobTick, JobsQuiet

\* Poll starts a job that was planned already, as far as a person can tell.
LEMMA PollRefines ==
    ASSUME Unasked(entries, jobEvents), NEW j, Good(j, nextId, claims), IdleFor(j),
           NEW runner, JobPoll(j, runner)
    PROVE  Refined
<1> DEFINE mine == {e \in j.entries : RunnerOf[e.project] = runner}
           p == Lapse(j, Overdue(j, {"queued", "working", "approved"}) \cap mine)
           queued == {e \in p.entries \cap mine : e.state = "queued"}
<1>1. Good(p, nextId, claims) /\ IdleFor(p)
  BY OwnLapse DEF Active
<1>2. /\ \/ \E e \in queued : Leaves(Moved(p, e, [e EXCEPT !.state = "working"],
                                           {JobLine("started", e, p.now)}))
         \/ Leaves(p)
      /\ claims' = claims
  BY DEF JobPoll, JobsQuiet
<1> HIDE DEF mine, p
<1>3. ASSUME NEW e \in queued,
             Leaves(Moved(p, e, [e EXCEPT !.state = "working"], {JobLine("started", e, p.now)}))
      PROVE  Refined
  <2> DEFINE f == [e EXCEPT !.state = "working"]
             new == {JobLine("started", e, p.now)}
             k == Moved(p, e, f, new)
  <2>1. p \in JobRecords /\ e \in p.entries /\ e \in Entries /\ e.state = "queued"
    BY <1>1, <1>3, GoodParts
  <2>2. f.id = e.id /\ f.state = "working"
    BY <2>1 DEF Entries
  <2>3. \A l \in new : l.kind # "waiting"
    BY DEF JobLine
  <2> HIDE DEF f, new
  <2>4. k.entries = (p.entries \ {e}) \cup {f} /\ k.events = p.events \cup new
    BY <2>1, MovedParts
  <2>5. Leaves(k)
    BY <1>3 DEF f, new
  <2> HIDE DEF k
  <2>6. Idle(p.entries, p.events, k.entries, k.events)
    BY <2>1, <2>2, <2>3, <2>4 DEF Idle, InPlanning, AskedLines
  <2> QED
    BY <1>1, <1>2, <2>5, <2>6, IdleOn, IdleStep
<1> QED
  BY <1>1, <1>2, <1>3, IdleStep

LEMMA RefuseRefines ==
    ASSUME Unasked(entries, jobEvents), NEW j, Good(j, nextId, claims), IdleFor(j),
           NEW runner, NEW id, NEW result \in {"refused", "plan_failed"},
           JobRefuse(j, runner, id, result)
    PROVE  Refined
<1> DEFINE p == Lapse(j, Overdue(j, {"queued", "working"}) \cap EntryOf(j, id, Active))
           fits == {e \in EntryOf(p, id, {"working"}) : RunnerOf[e.project] = runner}
<1>1. Good(p, nextId, claims) /\ IdleFor(p)
  BY OwnLapse DEF Active
<1>2. /\ \/ \E e \in fits : Leaves(Freed(Ended(p, e, result, "refused"), e))
         \/ Leaves(p)
      /\ claims' = claims
  BY DEF JobRefuse, JobsQuiet
<1> HIDE DEF p
<1>3. ASSUME NEW e \in fits, Leaves(Freed(Ended(p, e, result, "refused"), e))
      PROVE  Refined
  <2>1. p \in JobRecords /\ e \in Entries /\ result \in Results /\ "refused" \in OutcomeLines
    BY <1>1, <1>3, GoodParts DEF EntryOf, Results, OutcomeLines
  <2>2. IdleFor(Freed(Ended(p, e, result, "refused"), e))
    BY <1>1, <2>1, EndedIdle
  <2> QED
    BY <1>2, <1>3, <2>2, IdleStep
<1> QED
  BY <1>1, <1>2, <1>3, IdleStep

LEMMA DeclineRefines ==
    ASSUME Unasked(entries, jobEvents), NEW j, Good(j, nextId, claims), IdleFor(j),
           NEW id, JobDecline(j, id)
    PROVE  Refined
<1>1. ASSUME NEW e \in EntryOf(j, id, {"waiting"}),
             Leaves(Struck(Freed(Ended(j, e, "declined", "declined"), e), j.now))
      PROVE  Refined
  <2>1. j \in JobRecords /\ e \in Entries /\ "declined" \in Results \cap OutcomeLines
    BY <1>1, GoodParts DEF EntryOf, Results, OutcomeLines
  <2>2. IdleFor(Struck(Freed(Ended(j, e, "declined", "declined"), e), j.now))
    BY <2>1, EndedIdle
  <2> QED
    BY <1>1, <2>2, IdleStep DEF JobDecline, JobsQuiet
<1> QED
  BY <1>1, IdleStep DEF JobDecline, JobsQuiet

LEMMA RefuseClaimedRefines ==
    ASSUME Unasked(entries, jobEvents), NEW j, Good(j, nextId, claims), IdleFor(j),
           NEW id, JobRefuseClaimed(j, id)
    PROVE  Refined
<1>1. ASSUME NEW e \in EntryOf(j, id, {"claimed"}), Leaves(Ended(j, e, "refused", "refused"))
      PROVE  Refined
  <2>1. j \in JobRecords /\ e \in Entries /\ "refused" \in Results \cap OutcomeLines
    BY <1>1, GoodParts DEF EntryOf, Results, OutcomeLines
  <2>2. IdleFor(Ended(j, e, "refused", "refused"))
    BY <2>1, EndedIdle
  <2> QED
    BY <1>1, <2>2, IdleStep DEF JobRefuseClaimed, JobsQuiet
<1> QED
  BY <1>1, IdleStep DEF JobRefuseClaimed, JobsQuiet

\* Finish ends what was claimed, or adds a line that asks nothing.
LEMMA FinishRefines ==
    ASSUME Unasked(entries, jobEvents), NEW j, Good(j, nextId, claims), IdleFor(j),
           NEW runner, NEW project, NEW id,
           NEW result \in {"trusted", "applied", "apply_failed", "outcome_unknown"},
           JobFinish(j, runner, project, id, result)
    PROVE  Refined
<1> DEFINE line == [kind |-> result, id |-> id, project |-> project, at |-> j.now]
           k == [j EXCEPT !.events = @ \cup {line}]
<1>1. /\ \/ \E e \in j.entries : Leaves(Ended(j, e, result, result))
         \/ Leaves(k)
         \/ Leaves(j)
      /\ claims' = claims
  BY DEF JobFinish, JobsQuiet
<1>2. j \in JobRecords /\ j.entries \subseteq Entries /\ result \in Results \cap OutcomeLines
  BY GoodParts DEF Results, OutcomeLines
<1>3. ASSUME NEW e \in j.entries, Leaves(Ended(j, e, result, result))
      PROVE  Refined
  <2>1. IdleFor(Ended(j, e, result, result))
    BY <1>2, EndedIdle
  <2> QED
    BY <1>1, <1>3, <2>1, IdleStep
<1>4. line.kind # "waiting"
  OBVIOUS
<1> HIDE DEF line
<1>5. k.entries = j.entries /\ k.events = j.events \cup {line}
  BY <1>2 DEF JobRecords
<1> HIDE DEF k
<1>6. IdleFor(k)
  BY <1>4, <1>5 DEF IdleFor, Idle, AskedLines
<1> QED
  BY <1>1, <1>3, <1>6, IdleStep

LEMMA KillRefines ==
    ASSUME Unasked(entries, jobEvents), NEW j, Good(j, nextId, claims), IdleFor(j),
           NEW project, JobKill(j, project)
    PROVE  Refined
<1> DEFINE hit == {e \in j.entries : e.project = project /\ e.state \in Active \ {"claimed"}}
           freed == {<<"job", e.id>> : e \in {x \in hit : x.state \in HoldsSlot}}
           es == (j.entries \ hit) \cup {Settled(e, "killed", j.now) : e \in hit}
           new == {JobLine("killed", e, j.now) : e \in hit}
           ev == j.events \cup new
           k == [j EXCEPT
                  !.entries = (@ \ hit) \cup {Settled(e, "killed", j.now) : e \in hit},
                  !.events = @ \cup {JobLine("killed", e, j.now) : e \in hit},
                  !.gate.occupant = @ \ freed]
           g == [j.gate EXCEPT !.occupant = @ \ freed]
           m == [j EXCEPT !.entries = es, !.events = ev, !.gate = g]
           s == Struck(k, j.now)
<1>1. Leaves(IF \E e \in hit : Asked(e) THEN s ELSE k) /\ claims' = claims
  BY Zenon DEF JobKill, JobsQuiet
<1>2. j \in JobRecords /\ j.now \in Nat /\ j.entries \subseteq Entries
  BY GoodParts
<1>3. k = m
  BY <1>2 DEF JobRecords, Gates
<1>4. \A f \in es : f.state = "done" \/ f \in j.entries
  <2>1. "killed" \in Results
    BY DEF Results
  <2>2. \A e \in hit : Settled(e, "killed", j.now).state = "done"
    BY <1>2, <2>1, SettledEntry
  <2> QED
    BY <2>2
<1>5. \A l \in new : l.kind # "waiting"
  BY DEF JobLine
<1> HIDE DEF es, new, ev, g
<1>6. /\ m.now = j.now /\ m.entries = es /\ m.events = ev /\ m.gate = g
      /\ es \subseteq Entries /\ ev \subseteq JobLines /\ g \in Gates => m \in JobRecords
  BY <1>2, Parts, Zenon
<1> HIDE DEF k, m
<1>7. s.entries = k.entries /\ s.events = k.events
  BY <1>2 DEF s, Struck, k, JobRecords
<1>8. Idle(j.entries, j.events, m.entries, m.events)
  BY <1>4, <1>5, <1>6, EndsAreIdle DEF ev
<1>9. IdleFor(k) /\ IdleFor(s)
  BY <1>3, <1>7, <1>8, IdleOn DEF IdleFor
<1> QED
  BY <1>1, <1>9, IdleStep

\* A job that is filed is nothing a person is asked yet.
LEMMA RequestRefines ==
    ASSUME Unasked(entries, jobEvents), NEW j, Good(j, nextId, claims), IdleFor(j),
           NEW project, NEW kind, JobRequest(j, project, kind)
    PROVE  Refined
<1> DEFINE p == Pruned(j)
           g == GateTicked(p.gate, p.now)
           job == [id |-> nextId, project |-> project, kind |-> kind,
                   state |-> "queued", result |-> None, scope |-> None,
                   created |-> p.now, planAt |-> None, claimedAt |-> None,
                   doneAt |-> None]
           line == JobLine("requested", job, p.now)
           h == Admitted(g, p.now, <<"job", nextId>>)
           es == p.entries \cup {job}
           ev == p.events \cup {line}
           k == [p EXCEPT !.entries = @ \cup {job}, !.gate = h,
                          !.events = @ \cup {JobLine("requested", job, p.now)}]
           m == [p EXCEPT !.gate = g]
<1>1. /\ Leaves(k) \/ Leaves(m) \/ Leaves(p)
      /\ claims' = claims
  BY Zenon DEF JobRequest, JobsQuiet
<1>2. Good(p, nextId, claims) /\ p.events = j.events /\ p.entries \subseteq j.entries
  BY PrunedGood
<1> HIDE DEF p
<1>3. p \in JobRecords
  BY <1>2, GoodParts
<1>4. IdleFor(p)
  BY <1>2 DEF IdleFor, Idle
<1> HIDE DEF g
<1>5. m.entries = p.entries /\ m.events = p.events
  BY <1>3, NewGate
<1> HIDE DEF h, m
<1>6. IdleFor(m)
  BY <1>4, <1>5 DEF IdleFor
<1>7. ASSUME Leaves(k) PROVE Refined
  <2>1. k = [p EXCEPT !.entries = es, !.gate = h, !.events = ev]
    OBVIOUS
  <2>2. job.state = "queued" /\ job.id = nextId /\ line.kind = "requested"
    BY DEF JobLine
  <2> HIDE DEF es, ev, line, job
  <2>3. k.entries = es /\ k.events = ev
    BY <1>3, <2>1 DEF JobRecords
  <2> HIDE DEF k
  <2>4. AskedLines(ev) = AskedLines(jobEvents)
    BY <1>4, <2>2 DEF ev, AskedLines, IdleFor, Idle
  <2>5. entries' = p.entries \cup {job} /\ jobEvents' = ev
    BY <1>7, <2>3 DEF Leaves, es
  <2>6. Unasked(entries', jobEvents')
    <3>1. \A l \in AskedLines(jobEvents) : l.id # nextId
      <4>1. nextId \in Nat /\ \A l \in p.events : l.id < nextId
        BY <1>2, GoodParts DEF Good, Told
      <4>2. AskedLines(jobEvents) \subseteq p.events
        BY <1>4 DEF IdleFor, Idle, AskedLines
      <4> QED
        BY <4>1, <4>2
    <3>2. Unasked(p.entries, jobEvents)
      BY <1>4 DEF IdleFor, Idle, Unasked
    <3> QED
      BY <2>2, <2>4, <2>5, <3>1, <3>2 DEF Unasked
  <2>7. /\ JobQuestions("waiting")' \subseteq JobQuestions("waiting")
        /\ JobQuestions("approved")' \subseteq JobQuestions("approved")
    BY <1>4, <2>2, <2>5 DEF IdleFor, Idle, JobQuestions
  <2>8. JobPast' = JobPast /\ JobUses' = JobUses
    BY <1>1, <2>4, <2>5 DEF AskedLines, JobPast, JobUses
  <2> QED
    BY <2>6, <2>7, <2>8 DEF Refined, JobApprovals!Next, JobApprovals!Lapse
<1> QED
  BY <1>1, <1>4, <1>6, <1>7, IdleStep

\* Submit asks a new question, which takes the place of any other.
LEMMA SubmitRefines ==
    ASSUME Unasked(entries, jobEvents), NEW j, Good(j, nextId, claims), IdleFor(j),
           NEW runner, NEW id, NEW scope, JobSubmit(j, runner, id, scope)
    PROVE  Refined
<1> DEFINE p == Lapse(j, Overdue(j, {"queued", "working"}) \cap EntryOf(j, id, Active))
           fits == {e \in EntryOf(p, id, Submittable) :
                       /\ RunnerOf[e.project] = runner
                       /\ scope.kind = e.kind /\ scope.project = e.project}
           waits(e) == [e EXCEPT !.state = "waiting", !.scope = scope, !.planAt = p.now]
<1>1. Good(p, nextId, claims) /\ IdleFor(p)
  BY OwnLapse DEF Active
<1>2. /\ \/ \E e \in fits : Leaves(Moved(p, e, waits(e), {JobLine("waiting", e, p.now)}))
         \/ \E e \in fits : Leaves(Freed(Ended(p, e, "refused", "refused"), e))
         \/ Leaves(p)
      /\ claims' = claims
  BY DEF JobSubmit, JobsQuiet
<1> HIDE DEF p
<1>3. ASSUME NEW e \in fits, Leaves(Moved(p, e, waits(e), {JobLine("waiting", e, p.now)}))
      PROVE  Refined
  <2> DEFINE f == waits(e)
             line == JobLine("waiting", e, p.now)
             k == Moved(p, e, f, {line})
             q == [id |-> f.id, scope |-> f.scope]
  <2>1. p \in JobRecords /\ e \in p.entries /\ e \in Entries /\ e.state = "working"
    BY <1>1, <1>3, GoodParts DEF EntryOf, Submittable
  <2>2. f.id = e.id /\ f.state = "waiting" /\ line.kind = "waiting" /\ line.id = e.id
    BY <2>1 DEF Entries, JobLine
  <2> HIDE DEF f, line
  <2>3. k.entries = (p.entries \ {e}) \cup {f} /\ k.events = p.events \cup {line}
    BY <2>1, MovedParts
  <2>4. Leaves(k)
    BY <1>3 DEF f, line
  <2> HIDE DEF k
  <2>5. entries' = (p.entries \ {e}) \cup {f} /\ jobEvents' = p.events \cup {line}
    BY <2>3, <2>4 DEF Leaves
  <2>6. JobQuestions("waiting")' = {q} /\ JobQuestions("approved")' = {}
    BY <1>1, <2>1, <2>2, <2>5, AloneIn
  <2>7. AskedLines(jobEvents') = AskedLines(jobEvents) \cup {line}
    BY <1>1, <2>2, <2>5 DEF IdleFor, Idle, AskedLines
  <2>8. JobPast' = JobPast \cup {q.id}
    BY <2>2, <2>7 DEF JobPast, AskedLines
  <2>9. q.id \notin JobPast
    <3>1. \E x \in entries : x.id = e.id /\ x.state \in InPlanning
      BY <1>1, <2>1 DEF IdleFor, Idle, InPlanning
    <3> QED
      BY <2>2, <3>1 DEF Unasked, AskedLines, JobPast
  <2>10. JobUses' = JobUses
    BY <1>2 DEF JobUses
  <2>11. Unasked(entries', jobEvents')
    BY <1>1, <2>1, <2>2, <2>5, AloneUnasked DEF InPlanning
  <2> QED
    BY <2>6, <2>8, <2>9, <2>10, <2>11 DEF Refined, JobApprovals!Next, JobApprovals!Ask
<1>4. ASSUME NEW e \in fits, Leaves(Freed(Ended(p, e, "refused", "refused"), e))
      PROVE  Refined
  <2>1. p \in JobRecords /\ e \in Entries /\ "refused" \in Results \cap OutcomeLines
    BY <1>1, <1>4, GoodParts DEF EntryOf, Results, OutcomeLines
  <2>2. IdleFor(Freed(Ended(p, e, "refused", "refused"), e))
    BY <1>1, <2>1, EndedIdle
  <2> QED
    BY <1>2, <1>4, <2>2, IdleStep
<1> QED
  BY <1>1, <1>2, <1>3, <1>4, IdleStep

\* Approve grants the question that is open, or closes it.
LEMMA ApproveRefines ==
    ASSUME Unasked(entries, jobEvents), NEW j, Good(j, nextId, claims), IdleFor(j),
           NEW id, NEW nonce, NEW scope, JobApprove(j, id, nonce, scope)
    PROVE  Refined
<1> DEFINE p == Lapse(j, Overdue(j, {"waiting"}) \cap EntryOf(j, id, Active))
           signed == {e \in EntryOf(p, id, {"waiting"}) : nonce = e.id /\ scope = e.scope}
           approved(e) == Moved(p, e, [e EXCEPT !.state = "approved"],
                                {JobLine("approved", e, p.now)})
<1>1. Good(p, nextId, claims) /\ IdleFor(p)
  BY OwnLapse DEF Active
<1>2. /\ \/ \E e \in signed : Leaves([Freed(approved(e), e) EXCEPT !.gate = Forgiven(@)])
         \/ \E e \in signed : Leaves(Freed(Ended(p, e, "refused", "refused"), e))
         \/ Leaves(p)
      /\ claims' = claims
  BY DEF JobApprove, JobsQuiet
<1> HIDE DEF p
<1>3. ASSUME NEW e \in signed,
             Leaves([Freed(approved(e), e) EXCEPT !.gate = Forgiven(@)])
      PROVE  Refined
  <2> DEFINE f == [e EXCEPT !.state = "approved"]
             new == {JobLine("approved", e, p.now)}
             m == Moved(p, e, f, new)
             k == [m EXCEPT !.gate = Released(m.gate, <<"job", e.id>>)]
             s == [k EXCEPT !.gate = Forgiven(k.gate)]
             q == [id |-> e.id, scope |-> e.scope]
  <2>1. p \in JobRecords /\ e \in p.entries /\ e \in Entries /\ e.state = "waiting"
    BY <1>1, <1>3, GoodParts DEF EntryOf
  <2>2. f.id = e.id /\ f.scope = e.scope /\ f.state = "approved"
    BY <2>1 DEF Entries
  <2>3. \A l \in new : l.kind # "waiting"
    BY DEF JobLine
  <2>4. Leaves(s)
    <3>1. s = [Freed(approved(e), e) EXCEPT !.gate = Forgiven(@)]
      BY Zenon DEF Freed
    <3> QED
      BY <1>3, <3>1
  <2>5. f \in Entries /\ new \subseteq JobLines
    BY <1>1, <2>1, GoodParts, LineTyped DEF Entries, Active
  <2> HIDE DEF f, new
  <2>6. m.entries = (p.entries \ {e}) \cup {f} /\ m.events = p.events \cup new
        /\ m \in JobRecords
    BY <2>1, <2>5, MovedParts
  <2> HIDE DEF m
  <2>7. k.entries = m.entries /\ k.events = m.events
    BY <2>6, NewGate
  <2>8. s.entries = k.entries /\ s.events = k.events
    BY <2>6 DEF JobRecords
  <2> HIDE DEF k, s
  <2>9. entries' = (p.entries \ {e}) \cup {f} /\ jobEvents' = p.events \cup new
    BY <2>4, <2>6, <2>7, <2>8 DEF Leaves
  <2>10. JobQuestions("waiting")' = {} /\ JobQuestions("approved")' = {q}
    BY <1>1, <2>1, <2>2, <2>9, AloneIn
  <2>11. q \in JobQuestions("waiting")
    BY <1>1, <2>1 DEF IdleFor, Idle, JobQuestions
  <2>12. JobPast' = JobPast
    BY <1>1, <2>3, <2>9 DEF IdleFor, Idle, AskedLines, JobPast
  <2>13. JobUses' = JobUses
    BY <1>2 DEF JobUses
  <2>14. Unasked(entries', jobEvents')
    BY <1>1, <2>1, <2>2, <2>9, AloneUnasked DEF InPlanning
  <2> QED
    BY <2>10, <2>11, <2>12, <2>13, <2>14 DEF Refined, JobApprovals!Next, JobApprovals!Grant
<1>4. ASSUME NEW e \in signed, Leaves(Freed(Ended(p, e, "refused", "refused"), e))
      PROVE  Refined
  <2>1. p \in JobRecords /\ e \in Entries /\ "refused" \in Results \cap OutcomeLines
    BY <1>1, <1>4, GoodParts DEF EntryOf, Results, OutcomeLines
  <2>2. IdleFor(Freed(Ended(p, e, "refused", "refused"), e))
    BY <1>1, <2>1, EndedIdle
  <2> QED
    BY <1>2, <1>4, <2>2, IdleStep
<1> QED
  BY <1>1, <1>2, <1>3, <1>4, IdleStep

\* Claim uses up the approval, for the scope that was shown, or ends it.
LEMMA ClaimRefines ==
    ASSUME Unasked(entries, jobEvents), NEW j, Good(j, nextId, claims), IdleFor(j),
           NEW runner, NEW id, JobClaim(j, runner, id)
    PROVE  Refined
<1> DEFINE mine == {e \in EntryOf(j, id, Active) : RunnerOf[e.project] = runner}
           p == Lapse(j, Overdue(j, {"approved"}) \cap mine)
           ready == {e \in EntryOf(p, id, {"approved"}) : RunnerOf[e.project] = runner}
           takes(e) == [e EXCEPT !.state = "claimed", !.claimedAt = p.now]
           claim(e) == [id |-> id, scope |-> e.scope, at |-> p.now]
<1>1. Good(p, nextId, claims) /\ IdleFor(p)
  BY OwnLapse DEF Active
<1>2. \/ \E e \in ready : Leaves(Moved(p, e, takes(e), {})) /\ claims' = claims \cup {claim(e)}
      \/ \E e \in ready : Leaves(Ended(p, e, "refused", "refused")) /\ claims' = claims
      \/ Leaves(p) /\ claims' = claims
  BY DEF JobClaim
<1> HIDE DEF mine, p
<1>3. ASSUME NEW e \in ready, Leaves(Moved(p, e, takes(e), {})),
             claims' = claims \cup {claim(e)}
      PROVE  Refined
  <2> DEFINE f == takes(e)
             new == {}
             k == Moved(p, e, f, new)
             q == [id |-> e.id, scope |-> e.scope]
             u == [id |-> e.id, act |-> e.scope]
             c == claim(e)
  <2>1. p \in JobRecords /\ e \in p.entries /\ e \in Entries /\ e.state = "approved"
        /\ e.id = id
    BY <1>1, <1>3, GoodParts DEF EntryOf
  <2>2. f.state = "claimed"
    BY <2>1 DEF Entries
  <2> HIDE DEF f, new
  <2>3. k.entries = (p.entries \ {e}) \cup {f} /\ k.events = p.events
    <3>1. k.entries = (p.entries \ {e}) \cup {f} /\ k.events = p.events \cup new
      BY <2>1, MovedParts
    <3> QED
      BY <3>1 DEF new
  <2>4. Leaves(k)
    BY <1>3 DEF f, new
  <2> HIDE DEF k
  <2>5. entries' = (p.entries \ {e}) \cup {f} /\ jobEvents' = p.events
    BY <2>3, <2>4 DEF Leaves
  <2>6. JobQuestions("waiting")' = {} /\ JobQuestions("approved")' = {}
    BY <1>1, <2>1, <2>2, <2>5, AloneIn
  <2>7. q \in JobQuestions("approved")
    BY <1>1, <2>1 DEF IdleFor, Idle, JobQuestions
  <2>8. JobPast' = JobPast
    BY <1>1, <2>5 DEF IdleFor, Idle, AskedLines, JobPast
  <2>9. JobUses' = JobUses \cup {u}
    <3>1. c.id = e.id /\ c.scope = e.scope /\ claims' = claims \cup {c}
      BY <1>3, <2>1
    <3> HIDE DEF c
    <3> QED
      BY <3>1 DEF JobUses
  <2>10. u.id = q.id /\ JobCovers(q.scope, u.act)
    BY DEF JobCovers
  <2>11. Unasked(entries', jobEvents')
    BY <1>1, <2>1, <2>2, <2>5, AloneUnasked DEF InPlanning
  <2> HIDE DEF q, u
  <2>12. JobApprovals!Use
    BY <2>6, <2>7, <2>8, <2>9, <2>10 DEF JobApprovals!Use, JobOnce
  <2> QED
    BY <2>11, <2>12 DEF Refined, JobApprovals!Next
<1>4. ASSUME NEW e \in ready, Leaves(Ended(p, e, "refused", "refused")), claims' = claims
      PROVE  Refined
  <2>1. p \in JobRecords /\ e \in Entries /\ "refused" \in Results \cap OutcomeLines
    BY <1>1, <1>4, GoodParts DEF EntryOf, Results, OutcomeLines
  <2>2. IdleFor(Ended(p, e, "refused", "refused"))
    BY <1>1, <2>1, EndedIdle
  <2> QED
    BY <1>4, <2>2, IdleStep
<1> QED
  BY <1>1, <1>2, <1>3, <1>4, IdleStep

----------------------------------------------------------------------------
(* The specification.                                                      *)

\* Every step is one of Approvals, or changes nothing it speaks of.
LEMMA StepRefines ==
    ASSUME JobsInv, Unasked(entries, jobEvents), [JobsNext]_jobsVars
    PROVE  [JobApprovals!Next]_JobApprovals!vars /\ Unasked(entries', jobEvents')
<1>1. CASE UNCHANGED <<entries, jobEvents, claims>>
  <2>1. Unasked(entries', jobEvents')
    BY <1>1
  <2>2. UNCHANGED JobApprovals!vars
    BY <1>1 DEF JobApprovals!vars, JobPast, JobQuestions, JobUses
  <2> QED
    BY <2>1, <2>2
<1>2. ASSUME NEW t \in JobReadings,
             LET j == JobsAt(gate, t) IN
               \/ JobTick(j)
               \/ \E p \in Projects, kind \in {"trust", "apply"} :
                     JobRequest(JobsTicked(j), p, kind)
               \/ \E r \in Runners : JobPoll(JobsTicked(j), r)
               \/ \E r \in Runners, id \in Known, sc \in JobScopes : JobSubmit(j, r, id, sc)
               \/ \E r \in Runners, id \in Known, res \in {"refused", "plan_failed"} :
                     JobRefuse(j, r, id, res)
               \/ \E id \in Known, n \in Known, sc \in SignedScopes : JobApprove(j, id, n, sc)
               \/ \E id \in Known : JobDecline(JobsTicked(j), id)
               \/ \E r \in Runners, id \in Known : JobClaim(j, r, id)
               \/ \E r \in Runners, p \in Projects, id \in Known,
                     res \in {"trusted", "applied", "apply_failed", "outcome_unknown"} :
                     JobFinish(j, r, p, id, res)
               \/ \E id \in Known : JobRefuseClaimed(j, id)
               \/ \E p \in Projects : JobKill(j, p)
      PROVE  Refined
  <2> DEFINE j == JobsAt(gate, t)
             k == JobsTicked(j)
  <2>1. t \in Nat
    BY GateAssumption DEF JobReadings
  <2>2. Good(j, nextId, claims) /\ j.entries = entries
    BY <2>1, ReadingGood
  <2>3. j.events = jobEvents
    BY DEF JobsAt
  <2> HIDE DEF j
  <2>4. IdleFor(j)
    BY <2>2, <2>3 DEF IdleFor, Idle
  <2>5. Good(k, nextId, claims) /\ IdleFor(k)
    BY <2>2, <2>4, TickedGood, TickIdle
  <2> HIDE DEF k
  <2>6. CASE JobTick(j)
    BY <2>2, <2>4, <2>6, TickRefines
  <2>7. CASE \E p \in Projects, kind \in {"trust", "apply"} : JobRequest(k, p, kind)
    BY <2>5, <2>7, RequestRefines
  <2>8. CASE \E r \in Runners : JobPoll(k, r)
    BY <2>5, <2>8, PollRefines
  <2>9. CASE \E r \in Runners, id \in Known, sc \in JobScopes : JobSubmit(j, r, id, sc)
    BY <2>2, <2>4, <2>9, SubmitRefines
  <2>10. CASE \E r \in Runners, id \in Known, res \in {"refused", "plan_failed"} :
                 JobRefuse(j, r, id, res)
    BY <2>2, <2>4, <2>10, RefuseRefines
  <2>11. CASE \E id \in Known, n \in Known, sc \in SignedScopes : JobApprove(j, id, n, sc)
    BY <2>2, <2>4, <2>11, ApproveRefines
  <2>12. CASE \E id \in Known : JobDecline(k, id)
    BY <2>5, <2>12, DeclineRefines
  <2>13. CASE \E r \in Runners, id \in Known : JobClaim(j, r, id)
    BY <2>2, <2>4, <2>13, ClaimRefines
  <2>14. CASE \E r \in Runners, p \in Projects, id \in Known,
                 res \in {"trusted", "applied", "apply_failed", "outcome_unknown"} :
                 JobFinish(j, r, p, id, res)
    BY <2>2, <2>4, <2>14, FinishRefines
  <2>15. CASE \E id \in Known : JobRefuseClaimed(j, id)
    BY <2>2, <2>4, <2>15, RefuseClaimedRefines
  <2>16. CASE \E p \in Projects : JobKill(j, p)
    BY <2>2, <2>4, <2>16, KillRefines
  <2> QED
    BY <1>2, <2>6, <2>7, <2>8, <2>9, <2>10, <2>11, <2>12, <2>13, <2>14, <2>15, <2>16, Zenon
    DEF j, k
<1>3. CASE \E p \in Projects, rev \in Revisions \cup {None} : SetTrusted(p, rev)
  BY <1>1, <1>3 DEF SetTrusted
<1>4. CASE UNCHANGED jobsVars
  BY <1>1, <1>4 DEF jobsVars, jobVars
<1> QED
  BY <1>2, <1>3, <1>4, Zenon DEF JobsNext, Refined

\* Whatever order filing, planning, submissions, answers, lapses, kills, claims
\* and reports come in, a person is asked of one scope at a time and of a job
\* once, and what a runner is handed is a scope that was shown and approved,
\* once (Jobs::submit, approve and claim).
THEOREM JobsAreApprovals == JobsSpec => JobIsAnApproval
<1>1. JobsInit => JobApprovals!Init /\ Unasked(entries, jobEvents)
  BY DEF JobsInit, JobApprovals!Init, JobPast, JobQuestions, JobUses, Unasked
<1>2. JobsInv /\ Unasked(entries, jobEvents) /\ [JobsNext]_jobsVars
         => [JobApprovals!Next]_JobApprovals!vars /\ Unasked(entries, jobEvents)'
  BY StepRefines
<1> QED
  BY <1>1, <1>2, JobsInvariant, PTL DEF JobsSpec, JobIsAnApproval, JobApprovals!Spec

----------------------------------------------------------------------------
(* How often a person is asked, about jobs and about what else the gate is    *)
(* lent for: x is a record of what that is (asked, struck and granted are its *)
(* lines), of the latest time `late` of any clock, of how far `back` one may  *)
(* be, and of a time `now` that the jobs' own has reached.                    *)

FiledLines(ev) == {l \in ev : l.kind = "requested"}
GrantedLines(ev) == {l \in ev : l.kind = "approved"}
StruckLines(ev) ==
    {l \in ev : /\ l.kind \in Never
                /\ \E w \in AskedLines(ev) : w.id = l.id
                /\ \A a \in GrantedLines(ev) : a.id # l.id}

\* What the ledger shows of a job that is not done.
OnRecord(e, ev, now) ==
    /\ e.created <= now
    /\ \E q \in FiledLines(ev) : q.id = e.id /\ q.at = e.created
    /\ e.state \in InPlanning => \A l \in AskedLines(ev) : l.id # e.id
    /\ e.state = "waiting" => e.created <= e.planAt
    /\ e.state \in HoldsSlot <=> \A l \in GrantedLines(ev) : l.id # e.id
Trail(j) ==
    /\ \A l \in AskedLines(j.events) \cup GrantedLines(j.events) :
          \E q \in FiledLines(j.events) : q.id = l.id
    /\ \A e \in j.entries : e.state # "done" => OnRecord(e, j.events, j.now)

Sharing(x, j) ==
    /\ Metered(x.late, x.back, j.gate, x.asked \cup FiledLines(j.events),
               x.struck \cup StruckLines(j.events), x.granted \cup GrantedLines(j.events))
    /\ Trail(j)
    /\ \A f \in x.struck \cup x.granted, e \in j.entries : f.id # e.id
    /\ x.now \in Nat /\ x.now <= j.now

\* The gate forgets nothing, and only entries that are done are forgotten.
LEMMA SameShares ==
    ASSUME NEW j, NEW n, NEW cs, Good(j, n, cs), NEW x, Sharing(x, j),
           NEW k, k.now \in Nat, j.now <= k.now, k.entries \subseteq j.entries,
           k.events = j.events, k.gate \in Gates, k.gate.occupant \subseteq j.gate.occupant,
           k.gate.accepted = j.gate.accepted, k.gate.strikes = j.gate.strikes,
           k.gate.cooldownUntil = j.gate.cooldownUntil
    PROVE  Sharing(x, k)
<1>1. j.now \in Nat /\ \A e \in j.entries : e.created \in Nat
  BY GoodParts
<1>2. \A e \in k.entries : e.created <= j.now => e.created <= k.now
  BY <1>1
<1>3. Trail(k)
  BY <1>2 DEF Sharing, Trail, OnRecord
<1>4. Metered(x.late, x.back, k.gate, x.asked \cup FiledLines(k.events),
              x.struck \cup StruckLines(k.events), x.granted \cup GrantedLines(k.events))
  BY MeteredSame DEF Sharing
<1> QED  BY <1>1, <1>3, <1>4 DEF Sharing

\* The lines of the one entry that is not done.
LEMMA OwnLines ==
    ASSUME NEW j, NEW n, NEW cs, Good(j, n, cs), NEW x, Sharing(x, j),
           NEW e \in j.entries, e.state \in Active
    PROVE  /\ OnRecord(e, j.events, j.now) /\ e.state # "done"
           /\ \A l \in j.events : l.kind \in OutcomeLines => l.id # e.id
           /\ e.state = "waiting" => \E w \in AskedLines(j.events) : w.id = e.id
           /\ e.state \in HoldsSlot => <<"job", e.id>> \in j.gate.occupant
           /\ \A y \in j.entries : y.state # "done" => y = e
           /\ \A y \in x.struck \cup StruckLines(j.events) : y.id # e.id
           /\ \A y \in x.granted : y.id # e.id
<1>1. e.state # "done"
  BY DEF Active
<1>2. OnRecord(e, j.events, j.now)
  BY <1>1 DEF Sharing, Trail
<1>3. OutcomesIn(j.events, e.id) = {}
  BY <1>1 DEF Good, Told
<1>4. \A l \in j.events : l.kind \in OutcomeLines => l.id # e.id
  BY <1>3 DEF OutcomesIn
<1>5. e.state = "waiting" => \E w \in AskedLines(j.events) : w.id = e.id
  BY DEF Good, HandedOut, WaitingAt, AskedLines
<1>6. e.state \in HoldsSlot => <<"job", e.id>> \in j.gate.occupant
  BY <1>1, SlotOf DEF HoldOf
<1>7. \A y \in j.entries : y.state # "done" => y = e
  BY <1>1 DEF Good, OneEach
<1>8. \A y \in StruckLines(j.events) : y.id # e.id
  BY <1>4 DEF StruckLines, Never, OutcomeLines
<1> QED  BY <1>1, <1>2, <1>4, <1>5, <1>6, <1>7, <1>8 DEF Sharing

\* A job ends: it is a strike if a person was being asked, and did not answer
\* with a yes.
LEMMA SettleShares ==
    ASSUME NEW j, NEW n, NEW cs, Good(j, n, cs), NEW x, Sharing(x, j),
           NEW e \in j.entries, e.state \in Active, NEW f, f.id = e.id, f.state = "done",
           NEW l, l.id = e.id, l.at \in Nat, l.kind \in OutcomeLines,
           e.state = "waiting" => e.created <= l.at,
           NEW k, k.now = j.now, k.entries = (j.entries \ {e}) \cup {f},
           k.events = j.events \cup {l}, k.gate \in Gates,
           k.gate.occupant \subseteq j.gate.occupant, k.gate.accepted = j.gate.accepted,
           IF e.state = "waiting" /\ l.kind \in Never
           THEN /\ k.gate.strikes = j.gate.strikes + 1
                /\ k.gate.cooldownUntil = l.at + Cooldown(j.gate.strikes + 1)
           ELSE /\ k.gate.strikes = j.gate.strikes
                /\ k.gate.cooldownUntil = j.gate.cooldownUntil
    PROVE  Sharing(x, k)
<1>1. /\ FiledLines(k.events) = FiledLines(j.events)
      /\ AskedLines(k.events) = AskedLines(j.events)
      /\ GrantedLines(k.events) = GrantedLines(j.events)
  BY DEF FiledLines, AskedLines, GrantedLines, OutcomeLines
<1>2. /\ OnRecord(e, j.events, j.now) /\ e.state # "done"
      /\ e.state = "waiting" => \E w \in AskedLines(j.events) : w.id = e.id
      /\ e.state \in HoldsSlot => <<"job", e.id>> \in j.gate.occupant
      /\ \A y \in j.entries : y.state # "done" => y = e
      /\ \A y \in x.struck \cup StruckLines(j.events) : y.id # e.id
      /\ \A y \in x.granted : y.id # e.id
  BY OwnLines
<1>3. Trail(k)
  <2>1. \A y \in k.entries : y.state = "done"
    BY <1>2
  <2> QED  BY <1>1, <2>1 DEF Sharing, Trail
<1>4. \A y \in x.struck \cup x.granted, z \in k.entries : y.id # z.id
  BY DEF Sharing
<1>5. CASE e.state = "waiting" /\ l.kind \in Never
  <2>1. \A a \in GrantedLines(j.events) : a.id # e.id
    BY <1>2, <1>5 DEF OnRecord, HoldsSlot
  <2>2. StruckLines(k.events) = StruckLines(j.events) \cup {l}
    BY <1>1, <1>2, <1>5, <2>1 DEF StruckLines
  <2>3. PICK r \in FiledLines(j.events) : r.id = e.id /\ r.at = e.created
    BY <1>2 DEF OnRecord
  <2>4. <<"job", e.id>> \in j.gate.occupant
    BY <1>2, <1>5 DEF HoldsSlot
  <2> DEFINE A == x.asked \cup FiledLines(j.events)
             U == x.struck \cup StruckLines(j.events)
             P == x.granted \cup GrantedLines(j.events)
             o == <<"job", e.id>>
  <2>5. \A y \in U \cup P : y.id # o[2]
    BY <1>2, <2>1
  <2>6. Metered(x.late, x.back, j.gate, A, U, P)
    BY DEF Sharing
  <2>7. r \in A /\ r.id = o[2] /\ l.id = o[2] /\ r.at <= l.at /\ o \in j.gate.occupant
    BY <1>5, <2>3, <2>4
  <2> HIDE DEF A, U, P, o
  <2>8. Metered(x.late, x.back, k.gate, A, U \cup {l}, P)
    BY <1>5, <2>5, <2>6, <2>7, MeteredStrike
  <2> QED  BY <1>1, <1>3, <1>4, <2>2, <2>8 DEF Sharing, A, U, P
<1>6. CASE ~(e.state = "waiting" /\ l.kind \in Never)
  <2>1. l \notin StruckLines(k.events)
    <3>1. CASE l.kind \notin Never
      BY <3>1 DEF StruckLines
    <3>2. CASE e.state \in InPlanning
      BY <1>1, <1>2, <3>2 DEF StruckLines, OnRecord
    <3>3. CASE e.state \notin HoldsSlot
      BY <1>1, <1>2, <3>3 DEF StruckLines, OnRecord
    <3> QED  BY <1>6, <3>1, <3>2, <3>3 DEF HoldsSlot, InPlanning
  <2>2. StruckLines(k.events) = StruckLines(j.events)
    BY <1>1, <2>1 DEF StruckLines
  <2>3. Metered(x.late, x.back, k.gate, x.asked \cup FiledLines(j.events),
                x.struck \cup StruckLines(j.events), x.granted \cup GrantedLines(j.events))
    BY <1>6, MeteredSame DEF Sharing
  <2> QED  BY <1>1, <1>3, <1>4, <2>2, <2>3 DEF Sharing
<1> QED  BY <1>5, <1>6

\* A job moves on, and no answer was given.
LEMMA AdvanceShares ==
    ASSUME NEW j, NEW n, NEW cs, Good(j, n, cs), NEW x, Sharing(x, j),
           NEW e \in j.entries, e.state \in Active, NEW f, f.id = e.id,
           NEW new, \A l \in new : l.id = e.id /\ l.kind \in {"started", "waiting"},
           NEW k, k.now = j.now, k.entries = (j.entries \ {e}) \cup {f},
           k.events = j.events \cup new, k.gate = j.gate, OnRecord(f, k.events, k.now)
    PROVE  Sharing(x, k)
<1>1. /\ FiledLines(k.events) = FiledLines(j.events)
      /\ GrantedLines(k.events) = GrantedLines(j.events)
      /\ \A l \in AskedLines(k.events) : l \in AskedLines(j.events) \/ l.id = e.id
      /\ AskedLines(j.events) \subseteq AskedLines(k.events)
  BY DEF FiledLines, AskedLines, GrantedLines
<1>2. /\ OnRecord(e, j.events, j.now)
      /\ \A l \in j.events : l.kind \in OutcomeLines => l.id # e.id
      /\ \A y \in j.entries : y.state # "done" => y = e
  BY OwnLines
<1>3. Trail(k)
  <2>1. \A y \in k.entries : y.state # "done" => y = f
    BY <1>2
  <2>2. \E q \in FiledLines(j.events) : q.id = e.id
    BY <1>2 DEF OnRecord
  <2>3. \A l \in AskedLines(k.events) \cup GrantedLines(k.events) :
            \E q \in FiledLines(k.events) : q.id = l.id
    BY <1>1, <2>2 DEF Sharing, Trail
  <2> QED  BY <2>1, <2>3 DEF Trail
<1>4. StruckLines(k.events) = StruckLines(j.events)
  <2>1. \A l \in k.events : l.kind \in Never => l \in j.events /\ l.id # e.id
    BY <1>2 DEF Never, OutcomeLines
  <2> QED  BY <1>1, <2>1 DEF StruckLines
<1>5. \A y \in x.struck \cup x.granted, z \in k.entries : y.id # z.id
  BY DEF Sharing
<1> QED  BY <1>1, <1>3, <1>4, <1>5 DEF Sharing

\* A job is approved: the strikes are forgotten, and it gives the slot back.
LEMMA ForgiveShares ==
    ASSUME NEW j, NEW n, NEW cs, Good(j, n, cs), NEW x, Sharing(x, j),
           NEW e \in j.entries, e.state = "waiting",
           NEW f, f.id = e.id, f.state = "approved", f.created = e.created,
           NEW l, l.id = e.id, l.at \in Nat, l.kind = "approved",
           NEW k, k.now = j.now, k.entries = (j.entries \ {e}) \cup {f},
           k.events = j.events \cup {l}, k.gate \in Gates,
           k.gate.occupant \subseteq j.gate.occupant, k.gate.accepted = j.gate.accepted,
           k.gate.strikes = 0, k.gate.cooldownUntil = 0
    PROVE  Sharing(x, k)
<1>1. /\ FiledLines(k.events) = FiledLines(j.events)
      /\ AskedLines(k.events) = AskedLines(j.events)
      /\ GrantedLines(k.events) = GrantedLines(j.events) \cup {l}
  BY DEF FiledLines, AskedLines, GrantedLines
<1>2. /\ OnRecord(e, j.events, j.now)
      /\ \A y \in j.events : y.kind \in OutcomeLines => y.id # e.id
      /\ <<"job", e.id>> \in j.gate.occupant
      /\ \A y \in j.entries : y.state # "done" => y = e
      /\ \A y \in x.struck \cup StruckLines(j.events) : y.id # e.id
      /\ \A y \in x.granted : y.id # e.id
  BY OwnLines DEF HoldsSlot, Active
<1>3. PICK r \in FiledLines(j.events) : r.id = e.id /\ r.at = e.created
  BY <1>2 DEF OnRecord
<1>4. Trail(k)
  <2>1. \A y \in k.entries : y.state # "done" => y = f
    BY <1>2
  <2>2. OnRecord(f, k.events, k.now)
    BY <1>1, <1>2 DEF OnRecord, InPlanning, HoldsSlot
  <2>3. \A y \in AskedLines(k.events) \cup GrantedLines(k.events) :
            \E q \in FiledLines(k.events) : q.id = y.id
    BY <1>1, <1>3 DEF Sharing, Trail
  <2> QED  BY <2>1, <2>2, <2>3 DEF Trail
<1>5. StruckLines(k.events) = StruckLines(j.events)
  <2>1. \A y \in k.events : y.kind \in Never => y \in j.events /\ y.id # e.id
    BY <1>2 DEF Never, OutcomeLines
  <2> QED  BY <1>1, <2>1 DEF StruckLines
<1>6. \A y \in x.struck \cup x.granted, z \in k.entries : y.id # z.id
  BY DEF Sharing
<1> DEFINE A == x.asked \cup FiledLines(j.events)
           U == x.struck \cup StruckLines(j.events)
           P == x.granted \cup GrantedLines(j.events)
           o == <<"job", e.id>>
<1>7. \A y \in U \cup P : y.id # o[2]
  BY <1>2 DEF OnRecord, HoldsSlot
<1>8. Metered(x.late, x.back, j.gate, A, U, P)
  BY DEF Sharing
<1>9. r \in A /\ r.id = o[2] /\ l.id = o[2] /\ o \in j.gate.occupant
  BY <1>2, <1>3
<1> HIDE DEF A, U, P, o
<1>10. Metered(x.late, x.back, k.gate, A, U, P \cup {l})
  BY <1>7, <1>8, <1>9, MeteredApprove
<1> QED  BY <1>1, <1>4, <1>5, <1>6, <1>10 DEF Sharing, A, U, P

\* What is overdue ends: a person who was being asked cannot have been before
\* the job was filed.
LEMMA LapseShares ==
    ASSUME NEW j, NEW n, NEW cs, Good(j, n, cs), NEW x, Sharing(x, j),
           NEW over \in SUBSET Overdue(j, Active)
    PROVE  Sharing(x, Lapse(j, over))
<1> DEFINE freed == {<<"job", e.id>> : e \in {y \in over : y.state \in HoldsSlot}}
           g == [j.gate EXCEPT !.occupant = @ \ freed]
           k == Lapse(j, over)
<1>1. j \in JobRecords /\ j.gate \in Gates /\ j.now \in Nat /\ j.now <= j.now
  BY GoodParts
<1>2. /\ k.now = j.now
      /\ k.entries = (j.entries \ over) \cup {Settled(e, LapseResult(e), j.now) : e \in over}
      /\ k.gate = IF \E e \in over : Asked(e)
                  THEN StruckAt(g, Deadline(CHOOSE e \in over : Asked(e)))
                  ELSE g
      /\ k.events = j.events \cup {JobLine(LapseLine(e), e, Deadline(e)) : e \in over}
  BY <1>1, LapseParts
<1>3. Good(k, n, cs)
  BY LapseGood
<1>4. k.gate \in Gates /\ k.now \in Nat
  BY <1>3, GoodParts
<1>5. /\ g \in Gates /\ g.occupant \subseteq j.gate.occupant /\ g.accepted = j.gate.accepted
      /\ g.strikes = j.gate.strikes /\ g.cooldownUntil = j.gate.cooldownUntil
  BY <1>1 DEF Gates
<1> HIDE DEF k, g, freed
<1>6. CASE over = {}
  <2>1. k.entries = j.entries /\ k.events = j.events /\ k.gate = g
    BY <1>2, <1>6
  <2> QED  BY <1>1, <1>2, <1>5, <2>1, SameShares DEF k
<1>7. ASSUME NEW e \in j.entries, over = {e}, e.state \in Active
      PROVE  Sharing(x, k)
  <2>1. e \in Entries /\ Shaped(e) /\ e.id \in Nat
    BY GoodParts
  <2>2. Deadline(e) \in Nat
    BY <1>7, <2>1, DeadlineIsNat
  <2> DEFINE f == Settled(e, LapseResult(e), j.now)
             l == JobLine(LapseLine(e), e, Deadline(e))
  <2>3. LapseResult(e) \in Results /\ LapseLine(e) \in OutcomeLines
    BY <1>7, LapseResults
  <2>4. f.id = e.id /\ f.state = "done"
    BY <1>1, <2>1, <2>3, SettledEntry
  <2>5. l.id = e.id /\ l.at = Deadline(e) /\ l.kind = LapseLine(e)
    BY DEF JobLine
  <2>6. k.entries = (j.entries \ {e}) \cup {f} /\ k.events = j.events \cup {l}
    BY <1>2, <1>7
  <2>7. k.gate = IF e.state = "waiting" THEN StruckAt(g, Deadline(e)) ELSE g
    <3>1. Asked(e) => (CHOOSE y \in over : Asked(y)) = e
      BY <1>7
    <3> QED  BY <1>2, <1>7, <3>1 DEF Asked
  <2>8. e.state = "waiting" => l.kind \in Never
    BY <2>5 DEF LapseLine, LapseResult, Never
  <2>9. /\ StruckAt(g, Deadline(e)).accepted = g.accepted
        /\ StruckAt(g, Deadline(e)).strikes = g.strikes + 1
        /\ StruckAt(g, Deadline(e)).cooldownUntil = Deadline(e) + Cooldown(g.strikes + 1)
        /\ StruckAt(g, Deadline(e)).occupant = g.occupant
    BY <1>5, <2>2, StruckParts
  <2>10. e.state = "waiting" => e.created <= Deadline(e)
    <3>1. OnRecord(e, j.events, j.now)
      BY <1>7, OwnLines
    <3>2. e.state = "waiting" => e.planAt \in Nat /\ e.created \in Nat /\ ApprovalTTL \in Nat
      BY <2>1, JobsAssumption DEF Shaped, Entries
    <3> QED  BY <3>1, <3>2 DEF OnRecord, Deadline
  <2> HIDE DEF f, l
  <2> QED
    BY <1>2, <1>4, <1>5, <1>7, <2>2, <2>3, <2>4, <2>5, <2>6, <2>7, <2>8, <2>9, <2>10,
       SettleShares
<1> QED  BY <1>6, <1>7, OverdueOne DEF k

LEMMA PrunedShares ==
    ASSUME NEW j, NEW n, NEW cs, Good(j, n, cs), NEW x, Sharing(x, j)
    PROVE  Sharing(x, Pruned(j))
<1>1. /\ Pruned(j).now = j.now /\ Pruned(j).gate = j.gate
      /\ Pruned(j).events = j.events /\ Pruned(j).entries \subseteq j.entries
      /\ j.now \in Nat /\ j.gate \in Gates
  BY PrunedGood, GoodParts
<1>2. j.now <= j.now
  BY <1>1
<1> QED  BY <1>1, <1>2, SameShares
LEMMA TickedShares ==
    ASSUME NEW j, NEW n, NEW cs, Good(j, n, cs), NEW x, Sharing(x, j)
    PROVE  Sharing(x, JobsTicked(j))
<1> DEFINE k == Lapse(j, Overdue(j, Active))
<1>1. Good(k, n, cs) /\ Sharing(x, k)
  BY LapseGood, LapseShares
<1>2. JobsTicked(j) = Pruned(k)
  BY DEF JobsTicked
<1> HIDE DEF k
<1> QED  BY <1>1, <1>2, PrunedShares

\* The state a method leaves, and the one it starts from.
LEMMA LeavesShares ==
    ASSUME NEW x, NEW k, Sharing(x, k), Leaves(k)
    PROVE  Sharing(x, Held')
<1>1. /\ Held'.now = k.now /\ Held'.entries = k.entries
      /\ Held'.gate = k.gate /\ Held'.events = k.events
  BY DEF Held, Leaves
<1> QED  BY <1>1, Zenon DEF Sharing, Trail
LEMMA ReadingShares ==
    ASSUME JobsInv, NEW t \in Nat, NEW y, Sharing(y, Held),
           NEW x, x.late = y.late, x.back = y.back, x.asked = y.asked,
           x.struck = y.struck, x.granted = y.granted, x.now = Later(t, jobsHighWater)
    PROVE  Sharing(x, JobsAt(gate, t))
<1> DEFINE j == JobsAt(gate, t)
<1>1. /\ Held.now = jobsHighWater /\ Held.entries = entries
      /\ Held.gate = gate /\ Held.events = jobEvents
  BY DEF Held
<1>2. Good(Held, nextId, claims) /\ Held.now \in Nat /\ Held.gate \in Gates
  BY GoodParts DEF JobsInv
<1>3. /\ j.now = Later(t, jobsHighWater) /\ j.entries = entries /\ j.gate = gate
      /\ j.events = jobEvents
  BY DEF JobsAt
<1>4. j.now \in Nat /\ Held.now <= j.now /\ j.now <= j.now
  BY <1>1, <1>2, <1>3 DEF Later
<1> HIDE DEF j
<1>5. Sharing(y, j)
  BY <1>1, <1>2, <1>3, <1>4, SameShares
<1>6. x.now = j.now
  BY <1>3
<1> QED  BY <1>4, <1>5, <1>6 DEF Sharing, j

\* As EndedGood: an entry ends now.  It is struck if it was waiting and nobody
\* said no, and is not if it was refused or not waiting.
LEMMA EndedShares ==
    ASSUME NEW p, NEW n, NEW cs, Good(p, n, cs), NEW x, Sharing(x, p),
           NEW e \in p.entries, e.state \in Active, NEW result \in Results
    PROVE  LET m == Ended(p, e, result, LineOf(result))
           IN  IF e.state = "waiting" /\ LineOf(result) \in Never
               THEN Sharing(x, Struck(Freed(m, e), p.now))
               ELSE Sharing(x, m) /\ Sharing(x, Freed(m, e))
<1> DEFINE f == Settled(e, result, p.now)
           l == JobLine(LineOf(result), e, p.now)
           m == Ended(p, e, result, LineOf(result))
           r == Released(p.gate, <<"job", e.id>>)
           q == Freed(m, e)
           s == Struck(q, p.now)
<1>1. /\ p \in JobRecords /\ p.now \in Nat /\ e \in Entries /\ e.id \in Nat
      /\ p.gate \in Gates /\ e.created \in Nat
  BY GoodParts
<1>2. LineOf(result) \in OutcomeLines
  BY DEF LineOf, Results, OutcomeLines
<1>3. /\ f \in Entries /\ f.id = e.id /\ f.state = "done"
      /\ l \in JobLines /\ l.id = e.id /\ l.kind = LineOf(result) /\ l.at = p.now
  BY <1>1, <1>2, SettledEntry, LineTyped
<1>4. m = Moved(p, e, f, {l})
  BY DEF Ended
<1> HIDE DEF f, l, m
<1>5. /\ m.now = p.now /\ m.entries = (p.entries \ {e}) \cup {f}
      /\ m.events = p.events \cup {l} /\ m.gate = p.gate /\ m \in JobRecords
  BY <1>1, <1>3, <1>4, MovedParts
<1>6. <<"job", e.id>> \in Occupants
  BY <1>1 DEF Occupants
<1>7. /\ r \in Gates /\ r.occupant \subseteq p.gate.occupant /\ r.accepted = p.gate.accepted
      /\ r.strikes = p.gate.strikes /\ r.cooldownUntil = p.gate.cooldownUntil
  BY <1>1, <1>6, ReleasedParts
<1> HIDE DEF r
<1>8. /\ StruckAt(r, p.now) \in Gates /\ StruckAt(r, p.now).occupant = r.occupant
      /\ StruckAt(r, p.now).accepted = r.accepted
      /\ StruckAt(r, p.now).strikes = r.strikes + 1
      /\ StruckAt(r, p.now).cooldownUntil = p.now + Cooldown(r.strikes + 1)
  BY <1>1, <1>7, StruckParts
<1>9. /\ q.now = p.now /\ q.entries = m.entries /\ q.events = m.events
      /\ q.gate = r /\ q \in JobRecords
  BY <1>5, <1>7, NewGate DEF Freed, r
<1> HIDE DEF q
<1>10. /\ s.now = p.now /\ s.entries = m.entries /\ s.events = m.events /\ s.gate = StruckAt(r, p.now)
  BY <1>8, <1>9, NewGate DEF Struck
<1> HIDE DEF s
<1>11. e.state = "waiting" => e.created <= l.at
  BY <1>3, OwnLines DEF OnRecord
<1>12. CASE e.state = "waiting" /\ LineOf(result) \in Never
  <2>1. Sharing(x, s)
    BY <1>1, <1>2, <1>3, <1>5, <1>7, <1>8, <1>10, <1>11, <1>12, SettleShares
  <2> QED  BY <1>12, <2>1 DEF s, q, m
<1>13. CASE ~(e.state = "waiting" /\ LineOf(result) \in Never)
  <2>1. Sharing(x, m)
    BY <1>1, <1>2, <1>3, <1>5, <1>11, <1>13, SettleShares
  <2>2. Sharing(x, q)
    BY <1>1, <1>2, <1>3, <1>5, <1>7, <1>9, <1>11, <1>13, SettleShares
  <2> QED  BY <1>13, <2>1, <2>2 DEF q, m
<1> QED  BY <1>12, <1>13

\* Jobs::poll: a job that starts is still being planned.
LEMMA PollShares ==
    ASSUME NEW j, NEW n, NEW cs, Good(j, n, cs), NEW x, Sharing(x, j),
           NEW runner, JobPoll(j, runner)
    PROVE  Sharing(x, Held')
<1> DEFINE mine == {e \in j.entries : RunnerOf[e.project] = runner}
           p == Lapse(j, Overdue(j, {"queued", "working", "approved"}) \cap mine)
<1>1. \/ \E e \in p.entries : /\ e.state = "queued"
                              /\ Leaves(Moved(p, e, [e EXCEPT !.state = "working"],
                                              {JobLine("started", e, p.now)}))
      \/ Leaves(p)
  BY Zenon DEF JobPoll
<1>2. Good(p, n, cs) /\ Sharing(x, p)
  BY OverdueOf, LapseGood, LapseShares DEF Active
<1> HIDE DEF p
<1>3. ASSUME NEW e \in p.entries, e.state = "queued",
             Leaves(Moved(p, e, [e EXCEPT !.state = "working"], {JobLine("started", e, p.now)}))
      PROVE  Sharing(x, Held')
  <2> DEFINE f == [e EXCEPT !.state = "working"]
             new == {JobLine("started", e, p.now)}
             k == Moved(p, e, f, new)
  <2>1. p \in JobRecords /\ e \in Entries
    BY <1>2, GoodParts
  <2>2. f.id = e.id /\ f.state = "working" /\ f.created = e.created
    BY <2>1 DEF Entries
  <2>3. \A l \in new : l.id = e.id /\ l.kind = "started"
    BY DEF JobLine
  <2> HIDE DEF f, new
  <2>4. /\ k.now = p.now /\ k.entries = (p.entries \ {e}) \cup {f}
        /\ k.events = p.events \cup new /\ k.gate = p.gate
    BY <2>1, MovedParts
  <2>5. Leaves(k)
    BY <1>3 DEF k, f, new
  <2> HIDE DEF k
  <2>6. OnRecord(f, k.events, k.now)
    <3>1. OnRecord(e, p.events, p.now)
      BY <1>2, <1>3, OwnLines DEF Active
    <3>2. /\ FiledLines(k.events) = FiledLines(p.events)
          /\ AskedLines(k.events) = AskedLines(p.events)
          /\ GrantedLines(k.events) = GrantedLines(p.events)
      BY <2>3, <2>4 DEF FiledLines, AskedLines, GrantedLines
    <3> QED  BY <1>3, <2>2, <2>4, <3>1, <3>2 DEF OnRecord, InPlanning, HoldsSlot
  <2>7. Sharing(x, k)
    BY <1>2, <1>3, <2>2, <2>3, <2>4, <2>6, AdvanceShares DEF Active
  <2> QED  BY <2>5, <2>7, LeavesShares
<1> QED  BY <1>1, <1>2, <1>3, LeavesShares

\* Jobs::submit: the job waits from now on, for all the ledger shows of it.
LEMMA SubmitShares ==
    ASSUME NEW j, NEW n, NEW cs, Good(j, n, cs), NEW x, Sharing(x, j),
           NEW runner, NEW id, NEW scope, JobSubmit(j, runner, id, scope)
    PROVE  Sharing(x, Held')
<1> DEFINE p == Lapse(j, Overdue(j, {"queued", "working"}) \cap EntryOf(j, id, Active))
<1>1. \/ \E e \in EntryOf(p, id, Submittable) :
            \/ Leaves(Moved(p, e, [e EXCEPT !.state = "waiting", !.scope = scope,
                                            !.planAt = p.now],
                            {JobLine("waiting", e, p.now)}))
            \/ Leaves(Freed(Ended(p, e, "refused", "refused"), e))
      \/ Leaves(p)
  BY Zenon DEF JobSubmit
<1>2. Good(p, n, cs) /\ Sharing(x, p)
  BY OverdueOf, LapseGood, LapseShares DEF Active
<1> HIDE DEF p
<1>3. ASSUME NEW e \in EntryOf(p, id, Submittable)
      PROVE  e \in p.entries /\ e.state = "working" /\ e.state \in Active
  BY DEF EntryOf, Submittable, Active
<1>4. ASSUME NEW e \in EntryOf(p, id, Submittable),
             Leaves(Moved(p, e, [e EXCEPT !.state = "waiting", !.scope = scope,
                                          !.planAt = p.now],
                          {JobLine("waiting", e, p.now)}))
      PROVE  Sharing(x, Held')
  <2> DEFINE f == [e EXCEPT !.state = "waiting", !.scope = scope, !.planAt = p.now]
             new == {JobLine("waiting", e, p.now)}
             k == Moved(p, e, f, new)
  <2>1. p \in JobRecords /\ e \in Entries
    BY <1>2, <1>3, GoodParts
  <2>2. f.id = e.id /\ f.state = "waiting" /\ f.created = e.created /\ f.planAt = p.now
    BY <2>1 DEF Entries
  <2>3. \A l \in new : l.id = e.id /\ l.kind = "waiting"
    BY DEF JobLine
  <2> HIDE DEF f, new
  <2>4. /\ k.now = p.now /\ k.entries = (p.entries \ {e}) \cup {f}
        /\ k.events = p.events \cup new /\ k.gate = p.gate
    BY <2>1, MovedParts
  <2>5. Leaves(k)
    BY <1>4 DEF k, f, new
  <2> HIDE DEF k
  <2>6. OnRecord(f, k.events, k.now)
    <3>1. OnRecord(e, p.events, p.now)
      BY <1>2, <1>3, OwnLines
    <3>2. /\ FiledLines(k.events) = FiledLines(p.events)
          /\ GrantedLines(k.events) = GrantedLines(p.events)
      BY <2>3, <2>4 DEF FiledLines, GrantedLines
    <3> QED  BY <1>3, <2>2, <2>4, <3>1, <3>2 DEF OnRecord, InPlanning, HoldsSlot
  <2>7. Sharing(x, k)
    BY <1>2, <1>3, <2>2, <2>3, <2>4, <2>6, AdvanceShares
  <2> QED  BY <2>5, <2>7, LeavesShares
<1>5. ASSUME NEW e \in EntryOf(p, id, Submittable),
             Leaves(Freed(Ended(p, e, "refused", "refused"), e))
      PROVE  Sharing(x, Held')
  <2>1. "refused" \in Results /\ LineOf("refused") = "refused" /\ "refused" \notin Never
    BY DEF Results, LineOf, Never
  <2>2. Sharing(x, Freed(Ended(p, e, "refused", "refused"), e))
    BY <1>2, <1>3, <2>1, EndedShares
  <2> QED  BY <1>5, <2>2, LeavesShares
<1> QED  BY <1>1, <1>2, <1>4, <1>5, LeavesShares

\* Jobs::refuse.
LEMMA RefuseShares ==
    ASSUME NEW j, NEW n, NEW cs, Good(j, n, cs), NEW x, Sharing(x, j),
           NEW runner, NEW id, NEW result \in {"refused", "plan_failed"},
           JobRefuse(j, runner, id, result)
    PROVE  Sharing(x, Held')
<1> DEFINE p == Lapse(j, Overdue(j, {"queued", "working"}) \cap EntryOf(j, id, Active))
<1>1. \/ \E e \in EntryOf(p, id, {"working"}) :
            Leaves(Freed(Ended(p, e, result, "refused"), e))
      \/ Leaves(p)
  BY Zenon DEF JobRefuse
<1>2. Good(p, n, cs) /\ Sharing(x, p)
  BY OverdueOf, LapseGood, LapseShares DEF Active
<1> HIDE DEF p
<1>3. ASSUME NEW e \in EntryOf(p, id, {"working"}),
             Leaves(Freed(Ended(p, e, result, "refused"), e))
      PROVE  Sharing(x, Held')
  <2>1. e \in p.entries /\ e.state \in Active
    BY DEF EntryOf, Active
  <2>2. result \in Results /\ LineOf(result) = "refused" /\ "refused" \notin Never
    BY DEF Results, LineOf, Never
  <2>3. Sharing(x, Freed(Ended(p, e, result, "refused"), e))
    BY <1>2, <2>1, <2>2, EndedShares
  <2> QED  BY <1>3, <2>3, LeavesShares
<1> QED  BY <1>1, <1>2, <1>3, LeavesShares

\* Jobs::approve.
LEMMA ApproveShares ==
    ASSUME NEW j, NEW n, NEW cs, Good(j, n, cs), NEW x, Sharing(x, j),
           NEW id, NEW nonce, NEW scope, JobApprove(j, id, nonce, scope)
    PROVE  Sharing(x, Held')
<1> DEFINE p == Lapse(j, Overdue(j, {"waiting"}) \cap EntryOf(j, id, Active))
           moved(e) == Moved(p, e, [e EXCEPT !.state = "approved"],
                             {JobLine("approved", e, p.now)})
<1>1. \/ \E e \in EntryOf(p, id, {"waiting"}) :
            \/ Leaves([Freed(moved(e), e) EXCEPT !.gate = Forgiven(@)])
            \/ Leaves(Freed(Ended(p, e, "refused", "refused"), e))
      \/ Leaves(p)
  BY Zenon DEF JobApprove
<1>2. Good(p, n, cs) /\ Sharing(x, p)
  BY OverdueOf, LapseGood, LapseShares DEF Active
<1> HIDE DEF p
<1>3. ASSUME NEW e \in EntryOf(p, id, {"waiting"})
      PROVE  e \in p.entries /\ e.state = "waiting" /\ e.state \in Active
  BY DEF EntryOf, Active
<1>4. ASSUME NEW e \in EntryOf(p, id, {"waiting"}),
             Leaves([Freed(moved(e), e) EXCEPT !.gate = Forgiven(@)])
      PROVE  Sharing(x, Held')
  <2> DEFINE f == [e EXCEPT !.state = "approved"]
             l == JobLine("approved", e, p.now)
             m == Moved(p, e, f, {l})
             r == Released(p.gate, <<"job", e.id>>)
             q == Freed(m, e)
             k == [q EXCEPT !.gate = Forgiven(q.gate)]
  <2>1. /\ p \in JobRecords /\ p.now \in Nat /\ e \in Entries /\ e.id \in Nat
        /\ p.gate \in Gates
    BY <1>2, <1>3, GoodParts
  <2>2. f \in Entries /\ f.id = e.id /\ f.state = "approved" /\ f.created = e.created
    BY <2>1 DEF Entries, Active
  <2>3. l \in JobLines /\ l.id = e.id /\ l.at = p.now /\ l.kind = "approved"
    BY <2>1, LineTyped
  <2>4. k = [Freed(moved(e), e) EXCEPT !.gate = Forgiven(@)]
    BY Zenon
  <2>5. Leaves(k)
    BY <1>4, <2>4
  <2> HIDE DEF f, l
  <2>6. /\ m.now = p.now /\ m.entries = (p.entries \ {e}) \cup {f}
        /\ m.events = p.events \cup {l} /\ m.gate = p.gate /\ m \in JobRecords
    BY <2>1, <2>2, <2>3, MovedParts
  <2> HIDE DEF m
  <2>7. <<"job", e.id>> \in Occupants
    BY <2>1 DEF Occupants
  <2>8. /\ r \in Gates /\ r.occupant \subseteq p.gate.occupant /\ r.accepted = p.gate.accepted
    BY <2>1, <2>7, ReleasedParts
  <2>9. /\ q.now = p.now /\ q.entries = m.entries /\ q.events = m.events
        /\ q.gate = r /\ q \in JobRecords
    BY <2>6, <2>8, NewGate DEF Freed
  <2> HIDE DEF q, r
  <2>10. /\ Forgiven(r) \in Gates /\ Forgiven(r).occupant = r.occupant
         /\ Forgiven(r).accepted = r.accepted /\ Forgiven(r).strikes = 0
         /\ Forgiven(r).cooldownUntil = 0
    BY <2>8, ForgivenParts
  <2>11. /\ k.now = p.now /\ k.entries = m.entries /\ k.events = m.events
         /\ k.gate = Forgiven(r)
    BY <2>9, <2>10, NewGate
  <2> HIDE DEF k
  <2>12. Sharing(x, k)
    BY <1>2, <1>3, <2>1, <2>2, <2>3, <2>6, <2>8, <2>10, <2>11, ForgiveShares
  <2> QED  BY <2>5, <2>12, LeavesShares
<1>5. ASSUME NEW e \in EntryOf(p, id, {"waiting"}),
             Leaves(Freed(Ended(p, e, "refused", "refused"), e))
      PROVE  Sharing(x, Held')
  <2>1. "refused" \in Results /\ LineOf("refused") = "refused" /\ "refused" \notin Never
    BY DEF Results, LineOf, Never
  <2>2. Sharing(x, Freed(Ended(p, e, "refused", "refused"), e))
    BY <1>2, <1>3, <2>1, EndedShares
  <2> QED  BY <1>5, <2>2, LeavesShares
<1> HIDE DEF moved
<1> QED  BY <1>1, <1>2, <1>4, <1>5, LeavesShares

\* Jobs::decline.
LEMMA DeclineShares ==
    ASSUME NEW j, NEW n, NEW cs, Good(j, n, cs), NEW x, Sharing(x, j), NEW id, JobDecline(j, id)
    PROVE  Sharing(x, Held')
<1>1. ASSUME NEW e \in EntryOf(j, id, {"waiting"}),
             Leaves(Struck(Freed(Ended(j, e, "declined", "declined"), e), j.now))
      PROVE  Sharing(x, Held')
  <2>1. e \in j.entries /\ e.state \in Active /\ e.state = "waiting"
    BY DEF EntryOf, Active
  <2>2. "declined" \in Results /\ LineOf("declined") = "declined" /\ "declined" \in Never
    BY DEF Results, LineOf, Never
  <2>3. Sharing(x, Struck(Freed(Ended(j, e, "declined", "declined"), e), j.now))
    BY <2>1, <2>2, EndedShares
  <2> QED  BY <1>1, <2>3, LeavesShares
<1> QED  BY <1>1, LeavesShares DEF JobDecline

\* Jobs::claim: what is claimed was approved, and has the slot no more.
LEMMA ClaimShares ==
    ASSUME NEW j, NEW n, NEW cs, Good(j, n, cs), NEW x, Sharing(x, j),
           NEW runner, NEW id, JobClaim(j, runner, id)
    PROVE  Sharing(x, Held')
<1> DEFINE mine == {e \in EntryOf(j, id, Active) : RunnerOf[e.project] = runner}
           p == Lapse(j, Overdue(j, {"approved"}) \cap mine)
<1>1. \/ \E e \in EntryOf(p, id, {"approved"}) :
            \/ Leaves(Moved(p, e, [e EXCEPT !.state = "claimed", !.claimedAt = p.now], {}))
            \/ Leaves(Ended(p, e, "refused", "refused"))
      \/ Leaves(p)
  BY Zenon DEF JobClaim
<1>2. Good(p, n, cs) /\ Sharing(x, p)
  BY OverdueOf, LapseGood, LapseShares DEF Active
<1> HIDE DEF p
<1>3. ASSUME NEW e \in EntryOf(p, id, {"approved"})
      PROVE  e \in p.entries /\ e.state = "approved" /\ e.state \in Active
  BY DEF EntryOf, Active
<1>4. ASSUME NEW e \in EntryOf(p, id, {"approved"}),
             Leaves(Moved(p, e, [e EXCEPT !.state = "claimed", !.claimedAt = p.now], {}))
      PROVE  Sharing(x, Held')
  <2> DEFINE f == [e EXCEPT !.state = "claimed", !.claimedAt = p.now]
             new == {}
             k == Moved(p, e, f, new)
  <2>1. p \in JobRecords /\ e \in Entries
    BY <1>2, <1>3, GoodParts
  <2>2. f.id = e.id /\ f.state = "claimed" /\ f.created = e.created
    BY <2>1 DEF Entries
  <2> HIDE DEF f, new
  <2>3. /\ k.now = p.now /\ k.entries = (p.entries \ {e}) \cup {f}
        /\ k.events = p.events \cup new /\ k.gate = p.gate
    BY <2>1, MovedParts
  <2>4. Leaves(k)
    BY <1>4 DEF k, f, new
  <2> HIDE DEF k
  <2>5. OnRecord(f, k.events, k.now)
    <3>1. OnRecord(e, p.events, p.now)
      BY <1>2, <1>3, OwnLines
    <3>2. k.events = p.events
      BY <2>3 DEF new
    <3> QED  BY <1>3, <2>2, <2>3, <3>1, <3>2 DEF OnRecord, InPlanning, HoldsSlot
  <2>6. \A l \in new : l.id = e.id /\ l.kind \in {"started", "waiting"}
    BY DEF new
  <2>7. Sharing(x, k)
    BY <1>2, <1>3, <2>2, <2>3, <2>5, <2>6, AdvanceShares
  <2> QED  BY <2>4, <2>7, LeavesShares
<1>5. ASSUME NEW e \in EntryOf(p, id, {"approved"}), Leaves(Ended(p, e, "refused", "refused"))
      PROVE  Sharing(x, Held')
  <2>1. "refused" \in Results /\ LineOf("refused") = "refused" /\ "refused" \notin Never
    BY DEF Results, LineOf, Never
  <2>2. Sharing(x, Ended(p, e, "refused", "refused"))
    BY <1>2, <1>3, <2>1, EndedShares
  <2> QED  BY <1>5, <2>2, LeavesShares
<1> QED  BY <1>1, <1>2, <1>4, <1>5, LeavesShares

\* Jobs::finish: a report costs nothing, whether the job is known or not.
LEMMA FinishShares ==
    ASSUME NEW j, NEW n, NEW cs, Good(j, n, cs), NEW x, Sharing(x, j),
           NEW runner, NEW project, NEW id,
           NEW result \in {"trusted", "applied", "apply_failed", "outcome_unknown"},
           JobFinish(j, runner, project, id, result)
    PROVE  Sharing(x, Held')
<1> DEFINE line == [kind |-> result, id |-> id, project |-> project, at |-> j.now]
<1>1. \/ \E e \in j.entries : e.state = "claimed" /\ Leaves(Ended(j, e, result, result))
      \/ Leaves([j EXCEPT !.events = @ \cup {line}])
      \/ Leaves(j)
  BY Zenon DEF JobFinish, Reportable
<1>2. ASSUME NEW e \in j.entries, e.state = "claimed", Leaves(Ended(j, e, result, result))
      PROVE  Sharing(x, Held')
  <2>1. e.state \in Active /\ e.state # "waiting"
    BY <1>2 DEF Active
  <2>2. result \in Results /\ LineOf(result) = result
    BY DEF Results, LineOf
  <2>3. Sharing(x, Ended(j, e, result, result))
    BY <2>1, <2>2, EndedShares
  <2> QED  BY <1>2, <2>3, LeavesShares
<1>3. ASSUME Leaves([j EXCEPT !.events = @ \cup {line}])
      PROVE  Sharing(x, Held')
  <2> DEFINE k == [j EXCEPT !.events = @ \cup {line}]
  <2>1. j \in JobRecords /\ line.kind \notin Never \cup {"requested", "waiting", "approved"}
    BY GoodParts DEF Never
  <2> HIDE DEF line
  <2>2. /\ k.now = j.now /\ k.entries = j.entries /\ k.gate = j.gate
        /\ k.events = j.events \cup {line}
    BY <2>1 DEF JobRecords
  <2> HIDE DEF k
  <2>3. /\ FiledLines(k.events) = FiledLines(j.events)
        /\ AskedLines(k.events) = AskedLines(j.events)
        /\ GrantedLines(k.events) = GrantedLines(j.events)
    BY <2>1, <2>2 DEF FiledLines, AskedLines, GrantedLines
  <2>4. StruckLines(k.events) = StruckLines(j.events)
    BY <2>1, <2>2, <2>3 DEF StruckLines
  <2>5. \A e : OnRecord(e, j.events, j.now) => OnRecord(e, k.events, k.now)
    BY <2>2, <2>3 DEF OnRecord
  <2>6. Trail(k)
    <3>1. Trail(j)
      BY DEF Sharing
    <3> QED  BY <2>2, <2>3, <2>5, <3>1 DEF Trail
  <2>7. Sharing(x, k)
    <3>1. Metered(x.late, x.back, k.gate, x.asked \cup FiledLines(k.events),
                  x.struck \cup StruckLines(k.events), x.granted \cup GrantedLines(k.events))
      BY <2>2, <2>3, <2>4 DEF Sharing
    <3> QED  BY <2>2, <2>6, <3>1 DEF Sharing
  <2> QED  BY <1>3, <2>7, LeavesShares DEF k
<1> QED  BY <1>1, <1>2, <1>3, LeavesShares

\* Jobs::kill_project: what holds no slot costs nothing.
LEMMA KillShares ==
    ASSUME NEW j, NEW n, NEW cs, Good(j, n, cs), NEW x, Sharing(x, j),
           NEW project, JobKill(j, project)
    PROVE  Sharing(x, Held')
<1> DEFINE hit == {e \in j.entries : e.project = project /\ e.state \in Active \ {"claimed"}}
           freed == {<<"job", e.id>> : e \in {y \in hit : y.state \in HoldsSlot}}
           es == (j.entries \ hit) \cup {Settled(e, "killed", j.now) : e \in hit}
           ev == j.events \cup {JobLine("killed", e, j.now) : e \in hit}
           k == [j EXCEPT
                  !.entries = (@ \ hit) \cup {Settled(e, "killed", j.now) : e \in hit},
                  !.events = @ \cup {JobLine("killed", e, j.now) : e \in hit},
                  !.gate.occupant = @ \ freed]
           g == [j.gate EXCEPT !.occupant = @ \ freed]
           m == [j EXCEPT !.entries = es, !.events = ev, !.gate = g]
           s == Struck(m, j.now)
<1>1. Leaves(IF \E e \in hit : Asked(e) THEN Struck(k, j.now) ELSE k)
  BY Zenon DEF JobKill
<1>2. j \in JobRecords /\ j.now \in Nat /\ j.now <= j.now /\ j.gate \in Gates
  BY GoodParts
<1>3. k = m
  BY <1>2 DEF JobRecords, Gates
<1>4. /\ g \in Gates /\ g.occupant \subseteq j.gate.occupant /\ g.accepted = j.gate.accepted
      /\ g.strikes = j.gate.strikes /\ g.cooldownUntil = j.gate.cooldownUntil
  BY <1>2 DEF Gates
<1> HIDE DEF es, ev, g
<1>5. /\ m.now = j.now /\ m.entries = es /\ m.events = ev /\ m.gate = g
      /\ es \subseteq Entries /\ ev \subseteq JobLines /\ g \in Gates => m \in JobRecords
  BY <1>2, Parts, Zenon
<1> HIDE DEF k, m, s
<1>6. \A e \in hit : e \in j.entries /\ e.state \in Active /\ e.state # "claimed"
  OBVIOUS
<1>7. \A e, f \in hit : e = f
  BY <1>6 DEF Good, OneEach, Active
<1>8. CASE hit = {}
  <2>1. es = j.entries /\ ev = j.events
    BY <1>8 DEF es, ev
  <2>2. Sharing(x, m)
    BY <1>2, <1>4, <1>5, <2>1, SameShares
  <2>3. Leaves(m)
    BY <1>1, <1>3, <1>8
  <2> QED  BY <2>2, <2>3, LeavesShares
<1>9. ASSUME NEW e \in j.entries, hit = {e}, e.state \in Active, e.state # "claimed"
      PROVE  Sharing(x, Held')
  <2> DEFINE f == Settled(e, "killed", j.now)
             l == JobLine("killed", e, j.now)
  <2>1. e \in Entries /\ e.id \in Nat /\ e.created \in Nat
    BY GoodParts
  <2>2. "killed" \in Results /\ "killed" \in OutcomeLines /\ "killed" \in Never
    BY DEF Results, OutcomeLines, Never
  <2>3. /\ f \in Entries /\ f.id = e.id /\ f.state = "done"
        /\ l \in JobLines /\ l.id = e.id /\ l.kind = "killed" /\ l.at = j.now
    BY <1>2, <2>1, <2>2, SettledEntry, LineTyped
  <2>4. /\ es = (j.entries \ {e}) \cup {f} /\ ev = j.events \cup {l}
    BY <1>9 DEF es, ev
  <2> HIDE DEF f, l
  <2>5. m \in JobRecords
    BY <1>2, <1>4, <1>5, <2>3, <2>4 DEF JobRecords
  <2>6. e.state = "waiting" => e.created <= l.at
    BY <1>9, <2>3, OwnLines DEF OnRecord
  <2>7. CASE Asked(e)
    <3>2. /\ StruckAt(g, j.now) \in Gates /\ StruckAt(g, j.now).occupant = g.occupant
          /\ StruckAt(g, j.now).accepted = g.accepted
          /\ StruckAt(g, j.now).strikes = g.strikes + 1
          /\ StruckAt(g, j.now).cooldownUntil = j.now + Cooldown(g.strikes + 1)
      BY <1>2, <1>4, StruckParts
    <3>3. s.now = j.now /\ s.entries = es /\ s.events = ev /\ s.gate = StruckAt(g, j.now)
      BY <1>5, <2>5, <3>2, NewGate DEF s, Struck
    <3>4. e.state = "waiting"
      BY <2>7 DEF Asked
    <3>5. Sharing(x, s)
      BY <1>2, <1>4, <1>9, <2>2, <2>3, <2>4, <2>6, <3>2, <3>3, <3>4, SettleShares
    <3>6. Leaves(s)
      BY <1>1, <1>3, <1>9, <2>7 DEF s
    <3> QED  BY <3>5, <3>6, LeavesShares
  <2>8. CASE ~Asked(e)
    <3>1. e.state # "waiting"
      BY <2>8 DEF Asked
    <3>2. Sharing(x, m)
      BY <1>2, <1>4, <1>5, <1>9, <2>2, <2>3, <2>4, <3>1, SettleShares
    <3>3. Leaves(m)
      BY <1>1, <1>3, <1>9, <2>8
    <3> QED  BY <3>2, <3>3, LeavesShares
  <2> QED  BY <2>7, <2>8
<1>10. hit = {} \/ \E e \in j.entries : hit = {e} /\ e.state \in Active /\ e.state # "claimed"
  BY <1>6, <1>7
<1> QED
  BY <1>8, <1>9, <1>10

\* A job's clock, as it asks.
Clocked(x, j) == /\ x.late \in Nat /\ x.back \in Nat
                 /\ j.now <= x.late /\ x.late <= j.now + x.back

\* Jobs::request: the job is filed under an id no line has yet.
LEMMA RequestShares ==
    ASSUME NEW j, NEW cs, Good(j, nextId, cs), NEW x, Sharing(x, j), Clocked(x, j),
           \A q \in x.asked : q.id < nextId,
           NEW project \in Projects, NEW kind \in {"trust", "apply"},
           JobRequest(j, project, kind)
    PROVE  Sharing(x, Held')
<1> DEFINE p == Pruned(j)
           g == GateTicked(p.gate, p.now)
           job == [id |-> nextId, project |-> project, kind |-> kind,
                   state |-> "queued", result |-> None, scope |-> None,
                   created |-> p.now, planAt |-> None, claimedAt |-> None,
                   doneAt |-> None]
           h == Admitted(g, p.now, <<"job", nextId>>)
           es == p.entries \cup {job}
           ev == p.events \cup {JobLine("requested", job, p.now)}
           k == [p EXCEPT !.entries = @ \cup {job}, !.gate = h,
                          !.events = @ \cup {JobLine("requested", job, p.now)}]
           m == [p EXCEPT !.gate = g]
<1>1. \/ /\ \A e \in p.entries : e.state = "done"
         /\ Admits(g, p.now) /\ Leaves(k)
      \/ Leaves(m)
      \/ Leaves(p)
  BY Zenon DEF JobRequest, Blocks
<1>2. Good(p, nextId, cs) /\ Sharing(x, p) /\ p.now = j.now
  BY PrunedGood, PrunedShares
<1> HIDE DEF p
<1>3. /\ p \in JobRecords /\ p.now \in Nat /\ p.now <= p.now /\ p.gate \in Gates
      /\ nextId \in Nat
      /\ \A l \in p.events : l.id \in Nat /\ l.id < nextId
  <2>1. p.events \subseteq JobLines /\ \A l \in JobLines : l.id \in Nat
    BY <1>2, GoodParts DEF JobLines
  <2> QED  BY <1>2, <2>1, GoodParts DEF Good, OneEach, Told
<1>4. <<"job", nextId>> \in Occupants
  BY <1>3 DEF Occupants
<1>5. g \in Gates /\ h \in Gates
  BY <1>3, <1>4, GateOps
<1> DEFINE A == x.asked \cup FiledLines(p.events)
           U == x.struck \cup StruckLines(p.events)
           P == x.granted \cup GrantedLines(p.events)
<1>6. Metered(x.late, x.back, g, A, U, P)
  <2>1. Metered(x.late, x.back, p.gate, A, U, P)
    BY <1>2 DEF Sharing
  <2> HIDE DEF A, U, P
  <2> QED  BY <1>2, <1>3, <2>1, MeteredTick DEF Clocked
<1> HIDE DEF g, h
<1>7. m.now = p.now /\ m.entries = p.entries /\ m.events = p.events /\ m.gate = g
  BY <1>3, <1>5, NewGate
<1> HIDE DEF m
<1>8. Sharing(x, m)
  BY <1>2, <1>6, <1>7 DEF Sharing, Trail
<1>9. ASSUME \A e \in p.entries : e.state = "done", Admits(g, p.now), Leaves(k)
      PROVE  Sharing(x, Held')
  <2> DEFINE l == JobLine("requested", job, p.now)
  <2>1. /\ job \in Entries /\ job.id = nextId /\ job.state = "queued" /\ job.created = p.now
        /\ l \in JobLines /\ l.id = nextId /\ l.kind = "requested" /\ l.at = p.now
    BY <1>3 DEF Entries, Active, JobLine, JobLines
  <2>2. k = [p EXCEPT !.entries = es, !.gate = h, !.events = ev]
    OBVIOUS
  <2>3. es \subseteq Entries /\ ev \subseteq JobLines
    BY <1>3, <2>1 DEF JobRecords
  <2>4. es = p.entries \cup {job} /\ ev = p.events \cup {l}
    OBVIOUS
  <2> HIDE DEF es, ev, job, l
  <2>5. k.now = p.now /\ k.entries = es /\ k.events = ev /\ k.gate = h
    BY <1>3, <1>5, <2>2, <2>3 DEF JobRecords
  <2> HIDE DEF k
  <2>6. /\ FiledLines(k.events) = FiledLines(p.events) \cup {l}
        /\ AskedLines(k.events) = AskedLines(p.events)
        /\ GrantedLines(k.events) = GrantedLines(p.events)
    BY <2>1, <2>4, <2>5 DEF FiledLines, AskedLines, GrantedLines
  <2>7. StruckLines(k.events) = StruckLines(p.events)
    BY <2>1, <2>4, <2>5, <2>6 DEF StruckLines, Never
  <2>8. \A q \in A : q.id < l.id
    BY <1>3, <2>1 DEF FiledLines
  <2>9. Metered(x.late, x.back, h, A \cup {l}, U, P)
    <3> DEFINE o == <<"job", nextId>>
    <3>1. o \in Occupants /\ l.id = o[2] /\ h = Admitted(g, p.now, o)
      BY <1>4, <2>1 DEF h
    <3>2. x.late \in Nat /\ x.back \in Nat /\ x.late <= p.now + x.back
      BY <1>2 DEF Clocked
    <3> HIDE DEF A, U, P, o
    <3> QED  BY <1>3, <1>6, <1>9, <2>1, <2>8, <3>1, <3>2, MeteredAdmit
  <2>10. \A f \in U \cup P : f.id # nextId
    <3>1. \A q \in A : q.id # nextId
      BY <1>3, <2>1, <2>8 DEF Metered
    <3> QED  BY <1>6, <3>1 DEF Metered
  <2>11. OnRecord(job, k.events, k.now)
    <3>1. l \in FiledLines(k.events) /\ l.id = job.id /\ l.at = job.created
      BY <2>1, <2>6
    <3>2. \A y \in AskedLines(k.events) : y.id # job.id
      BY <1>3, <2>1, <2>6 DEF AskedLines
    <3>3. \A y \in GrantedLines(k.events) : y.id # job.id
      BY <1>3, <2>1, <2>6 DEF GrantedLines
    <3> QED  BY <1>3, <2>1, <2>5, <3>1, <3>2, <3>3 DEF OnRecord, HoldsSlot
  <2>12. Trail(k)
    <3>1. \A e \in k.entries : e.state # "done" => e = job
      BY <1>9, <2>4, <2>5
    <3> QED  BY <1>2, <2>6, <2>11, <3>1 DEF Sharing, Trail
  <2>13. \A f \in x.struck \cup x.granted, e \in k.entries : f.id # e.id
    BY <1>2, <2>1, <2>4, <2>5, <2>10 DEF Sharing
  <2>14. Sharing(x, k)
    BY <1>2, <2>5, <2>6, <2>7, <2>9, <2>12, <2>13 DEF Sharing
  <2> QED  BY <1>9, <2>14, LeavesShares
<1> QED  BY <1>1, <1>2, <1>8, <1>9, LeavesShares

----------------------------------------------------------------------------
(* What a strike is charged for.                                           *)

\* A person was asked of e, and it came to nothing at `at`.
Ran(e, f, at) ==
    /\ e.id = f.id /\ e.state = "waiting" /\ f.state = "done"
    /\ f.result \in {"declined", "timed_out", "killed"} /\ f.doneAt = at
\* j has no more strikes than there were, or an entry that accounts for it.
Charged(es, g, j) ==
    j.gate.strikes > g.strikes => \E e \in es, f \in j.entries : Ran(e, f, j.now)
\* Whoever waits in j waited before.
NoneNew(es, j) == \A f \in j.entries : f.state = "waiting" => f \in es
Charging(es, g, j) == Charged(es, g, j) /\ NoneNew(es, j)

\* k has the strikes of j, and forgets nothing that ended now.
LEMMA SameCharged ==
    ASSUME NEW es, NEW g \in Gates, NEW j, Charged(es, g, j),
           NEW k, k.now = j.now, j.gate \in Gates, k.gate \in Gates,
           k.gate.strikes <= j.gate.strikes,
           \A f \in j.entries : f.state = "done" /\ f.doneAt = j.now => f \in k.entries
    PROVE  Charged(es, g, k)
<1>1. j.gate.strikes \in Nat /\ k.gate.strikes \in Nat /\ g.strikes \in Nat
  BY DEF Gates
<1> QED
  BY <1>1 DEF Charged, Ran

\* The end of an entry that waits is charged for.
LEMMA EndCharged ==
    ASSUME NEW es, NEW g, NEW j, NoneNew(es, j), NEW e \in j.entries, e.state = "waiting",
           e \in Entries, j.now \in Nat,
           NEW result \in {"declined", "timed_out", "killed"},
           NEW k, k.now = j.now, Settled(e, result, j.now) \in k.entries
    PROVE  Charged(es, g, k)
<1>1. result \in Results
  BY DEF Results
<1>2. Ran(e, Settled(e, result, j.now), k.now)
  BY <1>1, SettledEntry DEF Ran
<1> QED
  BY <1>2 DEF Charged, NoneNew

LEMMA LapseCharges ==
    ASSUME NEW j, NEW n, NEW cs, Good(j, n, cs), NEW over \in SUBSET Overdue(j, Active),
           NEW es, NEW g \in Gates, Charging(es, g, j)
    PROVE  Charging(es, g, Lapse(j, over))
<1> DEFINE freed == {<<"job", e.id>> : e \in {x \in over : x.state \in HoldsSlot}}
           h == [j.gate EXCEPT !.occupant = @ \ freed]
           k == Lapse(j, over)
<1>1. j \in JobRecords /\ j.gate \in Gates /\ j.now \in Nat /\ j.entries \subseteq Entries
  BY GoodParts
<1>2. /\ k.now = j.now
      /\ k.entries = (j.entries \ over) \cup {Settled(e, LapseResult(e), j.now) : e \in over}
      /\ k.gate = IF \E e \in over : Asked(e)
                  THEN StruckAt(h, Deadline(CHOOSE e \in over : Asked(e)))
                  ELSE h
  BY <1>1, LapseParts
<1>3. Good(k, n, cs) /\ \A e \in k.entries : e.state = "done" \/ e \in j.entries \ over
  BY LapseGood
<1>4. k.gate \in Gates
  BY <1>3, GoodParts
<1>5. h \in Gates /\ h.strikes = j.gate.strikes
  BY <1>1 DEF Gates
<1>6. \A e \in over : e \in j.entries /\ e.state \in Active
  BY DEF Overdue
<1> HIDE DEF k, h
<1>7. NoneNew(es, k)
  BY <1>3 DEF Charging, NoneNew
<1>8. CASE \E e \in over : Asked(e)
  <2>1. PICK e \in over : Asked(e)
    BY <1>8
  <2>2. e.state = "waiting" /\ LapseResult(e) = "timed_out"
    BY <2>1 DEF Asked, LapseResult
  <2>3. Settled(e, "timed_out", j.now) \in k.entries
    BY <1>2, <2>1, <2>2
  <2>4. Charged(es, g, k)
    BY <1>1, <1>2, <1>6, <2>1, <2>2, <2>3, EndCharged DEF Charging
  <2> QED
    BY <1>7, <2>4 DEF Charging, k
<1>9. CASE ~\E e \in over : Asked(e)
  <2>1. k.gate.strikes = j.gate.strikes /\ j.gate.strikes \in Nat
    BY <1>1, <1>2, <1>5, <1>9 DEF Gates
  <2>2. \A f \in j.entries : f.state = "done" => f \in k.entries
    BY <1>2, <1>6 DEF Active
  <2>3. Charged(es, g, k)
    BY <1>1, <1>2, <1>4, <2>1, <2>2, SameCharged DEF Charging
  <2> QED
    BY <1>7, <2>3 DEF Charging, k
<1> QED
  BY <1>8, <1>9

LEMMA PrunedCharges ==
    ASSUME NEW j, NEW n, NEW cs, Good(j, n, cs), NEW es, NEW g \in Gates, Charging(es, g, j)
    PROVE  Charging(es, g, Pruned(j))
<1>1. /\ Pruned(j).now = j.now /\ Pruned(j).gate = j.gate
      /\ Pruned(j).entries \subseteq j.entries
      /\ j \in JobRecords /\ j.now \in Nat /\ j.gate \in Gates
  BY PrunedGood, GoodParts
<1>2. Pruned(j).entries = {e \in j.entries : e.doneAt = None \/ e.doneAt + Retention > j.now}
  BY <1>1 DEF Pruned, JobRecords
<1>3. j.now + Retention > j.now
  BY <1>1, JobsAssumption
<1>4. \A f \in j.entries : f.doneAt = j.now => f \in Pruned(j).entries
  BY <1>2, <1>3
<1>5. j.gate.strikes <= j.gate.strikes
  BY <1>1 DEF Gates
<1>6. Charged(es, g, Pruned(j))
  BY <1>1, <1>4, <1>5, SameCharged DEF Charging
<1> QED
  BY <1>1, <1>6 DEF Charging, NoneNew

LEMMA TickedCharges ==
    ASSUME NEW j, NEW n, NEW cs, Good(j, n, cs), NEW es, NEW g \in Gates, Charging(es, g, j)
    PROVE  Charging(es, g, JobsTicked(j))
<1> DEFINE k == Lapse(j, Overdue(j, Active))
<1>1. Good(k, n, cs) /\ Charging(es, g, k)
  BY LapseGood, LapseCharges
<1>2. JobsTicked(j) = Pruned(k)
  BY DEF JobsTicked
<1> HIDE DEF k
<1> QED
  BY <1>1, <1>2, PrunedCharges

\* An entry that is not done goes on, or ends without a strike.
LEMMA MovedCharges ==
    ASSUME NEW j, NEW n, NEW cs, Good(j, n, cs), NEW es, NEW g \in Gates, Charging(es, g, j),
           NEW e \in j.entries, e.state # "done", NEW f,
           NEW k, k.now = j.now, k.entries = (j.entries \ {e}) \cup {f},
           k.gate \in Gates, k.gate.strikes <= j.gate.strikes
    PROVE  Charged(es, g, k)
<1>1. j.gate \in Gates
  BY GoodParts
<1>2. \A x \in j.entries : x.state = "done" => x \in k.entries
  OBVIOUS
<1> QED
  BY <1>1, <1>2, SameCharged DEF Charging

\* The three gates a method leaves it at.
LEMMA EndedCharges ==
    ASSUME NEW p, NEW n, NEW cs, Good(p, n, cs), NEW es, NEW g \in Gates, Charging(es, g, p),
           NEW e \in p.entries, e.state # "done", NEW result, NEW kind
    PROVE  LET m == Ended(p, e, result, kind)
           IN  /\ Charged(es, g, m) /\ Charged(es, g, Freed(m, e))
               /\ e.state = "waiting" /\ result \in {"declined", "killed"}
                     => Charged(es, g, Struck(Freed(m, e), p.now))
<1> DEFINE f == Settled(e, result, p.now)
           m == Ended(p, e, result, kind)
           r == Released(p.gate, <<"job", e.id>>)
           q == Freed(m, e)
           s == Struck(q, p.now)
<1>1. p \in JobRecords /\ p.gate \in Gates /\ p.now \in Nat /\ p.entries \subseteq Entries
  BY GoodParts
<1>2. m.now = p.now /\ m.entries = (p.entries \ {e}) \cup {f} /\ m.gate = p.gate
  <2> DEFINE new == {JobLine(kind, e, p.now)}
  <2>1. m = Moved(p, e, f, new)
    BY Zenon DEF Ended
  <2> HIDE DEF m, f, new
  <2> QED
    BY <1>1, <2>1, MovedParts
<1>3. r \in Gates /\ r.strikes = p.gate.strikes
  BY <1>1 DEF Released, Gates
<1>4. q.now = p.now /\ q.entries = m.entries /\ q.gate = r
  BY <1>1, <1>2 DEF Freed, Ended, Moved, JobRecords
<1>5. s.now = p.now /\ s.entries = m.entries
  BY <1>1, <1>4 DEF Struck, Freed, Ended, Moved, JobRecords
<1> HIDE DEF m, q, s, r
<1>6. p.gate.strikes <= p.gate.strikes
  BY <1>1 DEF Gates
<1>7. Charged(es, g, m)
  BY <1>1, <1>2, <1>6, MovedCharges
<1>8. Charged(es, g, q)
  BY <1>2, <1>3, <1>4, <1>6, MovedCharges
<1>9. ASSUME e.state = "waiting", result \in {"declined", "killed"} PROVE Charged(es, g, s)
  <2>1. f \in s.entries
    BY <1>2, <1>5
  <2> QED
    BY <1>1, <1>5, <1>9, <2>1, EndCharged DEF Charging
<1> QED
  BY <1>7, <1>8, <1>9 DEF m, q, s

\* The state a method leaves.
LEMMA LeavesCharged ==
    ASSUME NEW es, NEW g, NEW k, Charged(es, g, k), Leaves(k)
    PROVE  Charged(es, g, Held')
<1>1. Held'.now = k.now /\ Held'.entries = k.entries /\ Held'.gate = k.gate
  BY DEF Held, Leaves
<1> QED
  BY <1>1 DEF Charged

\* The entries that a method of its own lapses first.
LEMMA OwnCharges ==
    ASSUME NEW j, NEW n, NEW cs, Good(j, n, cs), NEW es, NEW g \in Gates, Charging(es, g, j),
           NEW states \in SUBSET Active, NEW some
    PROVE  LET p == Lapse(j, Overdue(j, states) \cap some)
           IN  Good(p, n, cs) /\ Charging(es, g, p)
<1> DEFINE over == Overdue(j, states) \cap some
<1>1. over \in SUBSET Overdue(j, Active)
  BY OverdueOf
<1> HIDE DEF over
<1>2. Good(Lapse(j, over), n, cs) /\ Charging(es, g, Lapse(j, over))
  BY <1>1, LapseGood, LapseCharges
<1> QED
  BY <1>2 DEF over

\* An entry goes on, and leaves the gate alone.
LEMMA OnCharges ==
    ASSUME NEW p, NEW n, NEW cs, Good(p, n, cs), NEW es, NEW g \in Gates, Charging(es, g, p),
           NEW e \in p.entries, e.state # "done", NEW f, NEW new, Leaves(Moved(p, e, f, new))
    PROVE  Charged(es, g, Held')
<1> DEFINE k == Moved(p, e, f, new)
<1>1. p \in JobRecords /\ p.gate \in Gates
  BY GoodParts
<1>2. k.now = p.now /\ k.entries = (p.entries \ {e}) \cup {f} /\ k.gate = p.gate
  BY <1>1, MovedParts
<1> HIDE DEF k
<1>3. p.gate.strikes <= p.gate.strikes
  BY <1>1 DEF Gates
<1>4. Charged(es, g, k)
  BY <1>1, <1>2, <1>3, MovedCharges
<1> QED
  BY <1>4, LeavesCharged DEF k

LEMMA PollCharges ==
    ASSUME NEW j, NEW n, NEW cs, Good(j, n, cs), NEW es, NEW g \in Gates, Charging(es, g, j),
           NEW runner, JobPoll(j, runner)
    PROVE  Charged(es, g, Held')
<1> DEFINE mine == {e \in j.entries : RunnerOf[e.project] = runner}
           p == Lapse(j, Overdue(j, {"queued", "working", "approved"}) \cap mine)
<1>1. Good(p, n, cs) /\ Charging(es, g, p)
  BY OwnCharges DEF Active
<1>2. \/ \E e \in p.entries : /\ e.state = "queued"
                              /\ Leaves(Moved(p, e, [e EXCEPT !.state = "working"],
                                              {JobLine("started", e, p.now)}))
      \/ Leaves(p)
  BY Zenon DEF JobPoll
<1> HIDE DEF p
<1> QED
  BY <1>1, <1>2, OnCharges, LeavesCharged DEF Charging

LEMMA SubmitCharges ==
    ASSUME NEW j, NEW n, NEW cs, Good(j, n, cs), NEW es, NEW g \in Gates, Charging(es, g, j),
           NEW runner, NEW id, NEW scope, JobSubmit(j, runner, id, scope)
    PROVE  Charged(es, g, Held')
<1> DEFINE p == Lapse(j, Overdue(j, {"queued", "working"}) \cap EntryOf(j, id, Active))
<1>1. Good(p, n, cs) /\ Charging(es, g, p)
  BY OwnCharges DEF Active
<1>2. \/ \E e \in EntryOf(p, id, Submittable) :
            \/ Leaves(Moved(p, e, [e EXCEPT !.state = "waiting", !.scope = scope,
                                            !.planAt = p.now],
                            {JobLine("waiting", e, p.now)}))
            \/ Leaves(Freed(Ended(p, e, "refused", "refused"), e))
      \/ Leaves(p)
  BY Zenon DEF JobSubmit
<1>3. \A e \in EntryOf(p, id, Submittable) : e \in p.entries /\ e.state # "done"
  BY DEF EntryOf, Submittable
<1> HIDE DEF p
<1>4. \A e \in EntryOf(p, id, Submittable) :
         Charged(es, g, Freed(Ended(p, e, "refused", "refused"), e))
  BY <1>1, <1>3, EndedCharges
<1> QED
  BY <1>1, <1>2, <1>3, <1>4, OnCharges, LeavesCharged DEF Charging

LEMMA RefuseCharges ==
    ASSUME NEW j, NEW n, NEW cs, Good(j, n, cs), NEW es, NEW g \in Gates, Charging(es, g, j),
           NEW runner, NEW id, NEW result, JobRefuse(j, runner, id, result)
    PROVE  Charged(es, g, Held')
<1> DEFINE p == Lapse(j, Overdue(j, {"queued", "working"}) \cap EntryOf(j, id, Active))
<1>1. Good(p, n, cs) /\ Charging(es, g, p)
  BY OwnCharges DEF Active
<1>2. \/ \E e \in EntryOf(p, id, {"working"}) : Leaves(Freed(Ended(p, e, result, "refused"), e))
      \/ Leaves(p)
  BY Zenon DEF JobRefuse
<1>3. \A e \in EntryOf(p, id, {"working"}) : e \in p.entries /\ e.state # "done"
  BY DEF EntryOf
<1> HIDE DEF p
<1>4. \A e \in EntryOf(p, id, {"working"}) :
         Charged(es, g, Freed(Ended(p, e, result, "refused"), e))
  BY <1>1, <1>3, EndedCharges
<1> QED
  BY <1>1, <1>2, <1>4, LeavesCharged DEF Charging

\* An approval takes strikes back.
LEMMA ApproveCharges ==
    ASSUME NEW j, NEW n, NEW cs, Good(j, n, cs), NEW es, NEW g \in Gates, Charging(es, g, j),
           NEW id, NEW nonce, NEW scope, JobApprove(j, id, nonce, scope)
    PROVE  Charged(es, g, Held')
<1> DEFINE p == Lapse(j, Overdue(j, {"waiting"}) \cap EntryOf(j, id, Active))
           moved(e) == Moved(p, e, [e EXCEPT !.state = "approved"],
                             {JobLine("approved", e, p.now)})
<1>1. Good(p, n, cs) /\ Charging(es, g, p)
  BY OwnCharges DEF Active
<1>2. \/ \E e \in EntryOf(p, id, {"waiting"}) :
            \/ Leaves([Freed(moved(e), e) EXCEPT !.gate = Forgiven(@)])
            \/ Leaves(Freed(Ended(p, e, "refused", "refused"), e))
      \/ Leaves(p)
  BY Zenon DEF JobApprove
<1>3. \A e \in EntryOf(p, id, {"waiting"}) : e \in p.entries /\ e.state # "done"
  BY DEF EntryOf
<1> HIDE DEF p
<1>4. \A e \in EntryOf(p, id, {"waiting"}) :
         Charged(es, g, Freed(Ended(p, e, "refused", "refused"), e))
  BY <1>1, <1>3, EndedCharges
<1>5. ASSUME NEW e \in EntryOf(p, id, {"waiting"}),
             Leaves([Freed(moved(e), e) EXCEPT !.gate = Forgiven(@)])
      PROVE  Charged(es, g, Held')
  <2> DEFINE f == [e EXCEPT !.state = "approved"]
             new == {JobLine("approved", e, p.now)}
             m == Moved(p, e, f, new)
             r == Released(m.gate, <<"job", e.id>>)
             k == [m EXCEPT !.gate = r]
             s == [k EXCEPT !.gate = Forgiven(k.gate)]
  <2>1. p \in JobRecords /\ e \in p.entries /\ e \in Entries /\ e.state = "waiting"
        /\ p.gate \in Gates
    BY <1>1, <1>5, GoodParts DEF EntryOf
  <2>2. Leaves(s)
    <3>1. s = [Freed(moved(e), e) EXCEPT !.gate = Forgiven(@)]
      BY Zenon DEF Freed
    <3> QED
      BY <1>5, <3>1
  <2>3. f \in Entries /\ new \subseteq JobLines
    BY <1>1, <2>1, GoodParts, LineTyped DEF Entries, Active
  <2> HIDE DEF f, new
  <2>4. /\ m.now = p.now /\ m.entries = (p.entries \ {e}) \cup {f} /\ m.gate = p.gate
        /\ m \in JobRecords
    BY <2>1, <2>3, MovedParts
  <2>5. r \in Gates
    BY <2>1, <2>4 DEF Released, Gates
  <2> HIDE DEF m, r
  <2>6. k.now = m.now /\ k.entries = m.entries /\ k.gate = r /\ k \in JobRecords
    BY <2>4, <2>5, NewGate
  <2> HIDE DEF k
  <2>7. Forgiven(r) \in Gates /\ Forgiven(r).strikes = 0
    BY <2>5 DEF Forgiven, Gates
  <2>8. s.now = p.now /\ s.entries = (p.entries \ {e}) \cup {f} /\ s.gate = Forgiven(r)
    BY <2>4, <2>6, NewGate
  <2> HIDE DEF s
  <2>9. 0 <= p.gate.strikes
    BY <2>1 DEF Gates
  <2>10. Charged(es, g, s)
    BY <1>1, <1>3, <2>1, <2>7, <2>8, <2>9, MovedCharges
  <2> QED
    BY <2>2, <2>10, LeavesCharged
<1> QED
  BY <1>1, <1>2, <1>4, <1>5, LeavesCharged DEF Charging

LEMMA DeclineCharges ==
    ASSUME NEW j, NEW n, NEW cs, Good(j, n, cs), NEW es, NEW g \in Gates, Charging(es, g, j),
           NEW id, JobDecline(j, id)
    PROVE  Charged(es, g, Held')
<1>1. \A e \in EntryOf(j, id, {"waiting"}) : e \in j.entries /\ e.state = "waiting"
  BY DEF EntryOf
<1>2. \A e \in EntryOf(j, id, {"waiting"}) :
         Charged(es, g, Struck(Freed(Ended(j, e, "declined", "declined"), e), j.now))
  BY <1>1, EndedCharges
<1> QED
  BY <1>2, LeavesCharged DEF JobDecline, Charging

LEMMA ClaimCharges ==
    ASSUME NEW j, NEW n, NEW cs, Good(j, n, cs), NEW es, NEW g \in Gates, Charging(es, g, j),
           NEW runner, NEW id, JobClaim(j, runner, id)
    PROVE  Charged(es, g, Held')
<1> DEFINE mine == {e \in EntryOf(j, id, Active) : RunnerOf[e.project] = runner}
           p == Lapse(j, Overdue(j, {"approved"}) \cap mine)
<1>1. Good(p, n, cs) /\ Charging(es, g, p)
  BY OwnCharges DEF Active
<1>2. \/ \E e \in EntryOf(p, id, {"approved"}) :
            \/ Leaves(Moved(p, e, [e EXCEPT !.state = "claimed", !.claimedAt = p.now], {}))
            \/ Leaves(Ended(p, e, "refused", "refused"))
      \/ Leaves(p)
  BY Zenon DEF JobClaim
<1>3. \A e \in EntryOf(p, id, {"approved"}) : e \in p.entries /\ e.state # "done"
  BY DEF EntryOf
<1> HIDE DEF p
<1>4. \A e \in EntryOf(p, id, {"approved"}) : Charged(es, g, Ended(p, e, "refused", "refused"))
  BY <1>1, <1>3, EndedCharges
<1> QED
  BY <1>1, <1>2, <1>3, <1>4, OnCharges, LeavesCharged DEF Charging

LEMMA FinishCharges ==
    ASSUME NEW j, NEW n, NEW cs, Good(j, n, cs), NEW es, NEW g \in Gates, Charging(es, g, j),
           NEW runner, NEW project, NEW id, NEW result, JobFinish(j, runner, project, id, result)
    PROVE  Charged(es, g, Held')
<1> DEFINE line == [kind |-> result, id |-> id, project |-> project, at |-> j.now]
           k == [j EXCEPT !.events = @ \cup {line}]
<1>1. \/ \E e \in j.entries : e.state # "done" /\ Leaves(Ended(j, e, result, result))
      \/ Leaves(k)
      \/ Leaves(j)
  BY DEF JobFinish, Reportable
<1>2. \A e \in j.entries : e.state # "done" => Charged(es, g, Ended(j, e, result, result))
  BY EndedCharges
<1>3. k.now = j.now /\ k.entries = j.entries /\ k.gate = j.gate
  BY GoodParts DEF JobRecords
<1> HIDE DEF k
<1>4. Charged(es, g, k)
  BY <1>3 DEF Charging, Charged
<1> QED
  BY <1>1, <1>2, <1>4, LeavesCharged DEF Charging

LEMMA RefuseClaimedCharges ==
    ASSUME NEW j, NEW n, NEW cs, Good(j, n, cs), NEW es, NEW g \in Gates, Charging(es, g, j),
           NEW id, JobRefuseClaimed(j, id)
    PROVE  Charged(es, g, Held')
<1>1. \A e \in EntryOf(j, id, {"claimed"}) : e \in j.entries /\ e.state # "done"
  BY DEF EntryOf
<1>2. \A e \in EntryOf(j, id, {"claimed"}) : Charged(es, g, Ended(j, e, "refused", "refused"))
  BY <1>1, EndedCharges
<1> QED
  BY <1>2, LeavesCharged DEF JobRefuseClaimed, Charging

LEMMA KillCharges ==
    ASSUME NEW j, NEW n, NEW cs, Good(j, n, cs), NEW es, NEW g \in Gates, Charging(es, g, j),
           NEW project, JobKill(j, project)
    PROVE  Charged(es, g, Held')
<1> DEFINE hit == {e \in j.entries : e.project = project /\ e.state \in Active \ {"claimed"}}
           freed == {<<"job", e.id>> : e \in {x \in hit : x.state \in HoldsSlot}}
           left == (j.entries \ hit) \cup {Settled(e, "killed", j.now) : e \in hit}
           new == {JobLine("killed", e, j.now) : e \in hit}
           k == [j EXCEPT !.entries = (@ \ hit) \cup {Settled(e, "killed", j.now) : e \in hit},
                          !.events = @ \cup {JobLine("killed", e, j.now) : e \in hit},
                          !.gate.occupant = @ \ freed]
           h == [j.gate EXCEPT !.occupant = @ \ freed]
           s == Struck(k, j.now)
<1>1. Leaves(IF \E e \in hit : Asked(e) THEN s ELSE k)
  BY Zenon DEF JobKill
<1>2. j \in JobRecords /\ j.gate \in Gates /\ j.now \in Nat /\ j.entries \subseteq Entries
  BY GoodParts
<1>3. \A e \in hit : e \in j.entries /\ e.state # "done"
  BY DEF Active
<1>4. \A f \in j.entries : f.state = "done" => f \in left
  BY <1>3
<1>5. \A e \in hit : Settled(e, "killed", j.now) \in left
  OBVIOUS
<1>6. h \in Gates /\ h.strikes = j.gate.strikes /\ h.strikes <= j.gate.strikes
  <2> HIDE DEF freed
  <2>1. h \in Gates /\ h.strikes = j.gate.strikes /\ j.gate.strikes \in Nat
    BY <1>2 DEF Gates
  <2> QED
    BY <2>1
<1>7. k.now = j.now /\ k.entries = left /\ k.gate = h
  <2> HIDE DEF hit, freed
  <2> QED
    BY <1>2 DEF JobRecords, Gates
<1>8. s.now = j.now /\ s.entries = left
  <2> HIDE DEF hit, freed
  <2> QED
    BY <1>2 DEF Struck, JobRecords
<1> HIDE DEF k, s, h, left
<1>9. Charged(es, g, k)
  BY <1>2, <1>4, <1>6, <1>7, SameCharged DEF Charging
<1>10. ASSUME NEW e \in hit, Asked(e) PROVE Charged(es, g, s)
  <2>1. Settled(e, "killed", j.now) \in s.entries
    BY <1>5, <1>8
  <2> QED
    BY <1>2, <1>3, <1>8, <1>10, <2>1, EndCharged DEF Charging, Asked
<1> QED
  BY <1>1, <1>9, <1>10, LeavesCharged

\* A request counts against the cap, and costs no strike.
LEMMA RequestCharges ==
    ASSUME NEW j, NEW n, NEW cs, Good(j, n, cs), NEW es, NEW g \in Gates, Charging(es, g, j),
           NEW project, NEW kind, JobRequest(j, project, kind)
    PROVE  Charged(es, g, Held')
<1> DEFINE p == Pruned(j)
           t == GateTicked(p.gate, p.now)
           job == [id |-> nextId, project |-> project, kind |-> kind,
                   state |-> "queued", result |-> None, scope |-> None,
                   created |-> p.now, planAt |-> None, claimedAt |-> None,
                   doneAt |-> None]
           h == Admitted(t, p.now, <<"job", nextId>>)
           k == [p EXCEPT !.entries = @ \cup {job}, !.gate = h,
                          !.events = @ \cup {JobLine("requested", job, p.now)}]
           m == [p EXCEPT !.gate = t]
<1>1. Leaves(k) \/ Leaves(m) \/ Leaves(p)
  BY Zenon DEF JobRequest
<1>2. Good(p, n, cs) /\ Charging(es, g, p)
  BY PrunedGood, PrunedCharges
<1> HIDE DEF p
<1>3. p \in JobRecords /\ p.gate \in Gates
  BY <1>2, GoodParts
<1>4. t.strikes = p.gate.strikes /\ h.strikes = p.gate.strikes
  BY <1>3 DEF GateTicked, Admitted, Gates
<1> HIDE DEF t, h
<1>5. k.now = p.now /\ k.gate = h /\ p.entries \subseteq k.entries
  <2> HIDE DEF job
  <2> QED
    BY <1>3 DEF JobRecords
<1>6. m.now = p.now /\ m.gate = t /\ m.entries = p.entries
  BY <1>3 DEF JobRecords
<1> HIDE DEF k, m
<1>7. Charged(es, g, k) /\ Charged(es, g, m)
  BY <1>2, <1>4, <1>5, <1>6 DEF Charging, Charged
<1> QED
  BY <1>1, <1>2, <1>7, LeavesCharged DEF Charging

LEMMA StepCharges ==
    ASSUME JobsInv, [JobsNext]_jobsVars
    PROVE  Charged(entries, gate, Held')
<1>1. CASE UNCHANGED gate
  <2>1. gate \in Gates /\ Held'.gate = gate
    BY <1>1, GoodParts DEF JobsInv, Held
  <2> QED
    BY <2>1 DEF Charged, Gates
<1>2. UNCHANGED jobsVars => UNCHANGED gate
  BY DEF jobsVars
<1>3. \A p \in Projects, rev \in Revisions \cup {None} : SetTrusted(p, rev) => UNCHANGED gate
  BY DEF SetTrusted
<1>4. ASSUME NEW t \in JobReadings,
             LET j == JobsAt(gate, t) IN
               \/ JobTick(j)
               \/ \E p \in Projects, kind \in {"trust", "apply"} :
                     JobRequest(JobsTicked(j), p, kind)
               \/ \E r \in Runners : JobPoll(JobsTicked(j), r)
               \/ \E r \in Runners, id \in Known, sc \in JobScopes : JobSubmit(j, r, id, sc)
               \/ \E r \in Runners, id \in Known, res \in {"refused", "plan_failed"} :
                     JobRefuse(j, r, id, res)
               \/ \E id \in Known, n \in Known, sc \in SignedScopes : JobApprove(j, id, n, sc)
               \/ \E id \in Known : JobDecline(JobsTicked(j), id)
               \/ \E r \in Runners, id \in Known : JobClaim(j, r, id)
               \/ \E r \in Runners, p \in Projects, id \in Known,
                     res \in {"trusted", "applied", "apply_failed", "outcome_unknown"} :
                     JobFinish(j, r, p, id, res)
               \/ \E id \in Known : JobRefuseClaimed(j, id)
               \/ \E p \in Projects : JobKill(j, p)
      PROVE  Charged(entries, gate, Held')
  <2> DEFINE j == JobsAt(gate, t)
             k == JobsTicked(j)
  <2>1. t \in Nat
    BY GateAssumption DEF JobReadings
  <2>2. Good(j, nextId, claims) /\ j.entries = entries
    BY <2>1, ReadingGood
  <2>3. j.gate = gate /\ gate \in Gates
    BY <2>2, GoodParts DEF JobsAt
  <2> HIDE DEF j
  <2>4. Charging(entries, gate, j)
    BY <2>2, <2>3 DEF Charging, Charged, NoneNew, Gates
  <2>5. Good(k, nextId, claims) /\ Charging(entries, gate, k)
    BY <2>2, <2>3, <2>4, TickedGood, TickedCharges
  <2> HIDE DEF k
  <2>6. JobTick(j) => Charged(entries, gate, Held')
    BY <2>5, LeavesCharged DEF JobTick, Charging, k
  <2>7. \A p, kind : JobRequest(k, p, kind) => Charged(entries, gate, Held')
    BY <2>3, <2>5, RequestCharges
  <2>8. \A r : JobPoll(k, r) => Charged(entries, gate, Held')
    BY <2>3, <2>5, PollCharges
  <2>9. \A r, id, sc : JobSubmit(j, r, id, sc) => Charged(entries, gate, Held')
    BY <2>2, <2>3, <2>4, SubmitCharges
  <2>10. \A r, id, res : JobRefuse(j, r, id, res) => Charged(entries, gate, Held')
    BY <2>2, <2>3, <2>4, RefuseCharges
  <2>11. \A id, n, sc : JobApprove(j, id, n, sc) => Charged(entries, gate, Held')
    BY <2>2, <2>3, <2>4, ApproveCharges
  <2>12. \A id : JobDecline(k, id) => Charged(entries, gate, Held')
    BY <2>3, <2>5, DeclineCharges
  <2>13. \A r, id : JobClaim(j, r, id) => Charged(entries, gate, Held')
    BY <2>2, <2>3, <2>4, ClaimCharges
  <2>14. \A r, p, id, res : JobFinish(j, r, p, id, res) => Charged(entries, gate, Held')
    BY <2>2, <2>3, <2>4, FinishCharges
  <2>15. \A id : JobRefuseClaimed(j, id) => Charged(entries, gate, Held')
    BY <2>2, <2>3, <2>4, RefuseClaimedCharges
  <2>16. \A p : JobKill(j, p) => Charged(entries, gate, Held')
    BY <2>2, <2>3, <2>4, KillCharges
  <2> QED
    BY <1>4, <2>6, <2>7, <2>8, <2>9, <2>10, <2>11, <2>12, <2>13, <2>14, <2>15, <2>16, Zenon
    DEF j, k
<1> QED
  BY <1>1, <1>2, <1>3, <1>4, Zenon DEF JobsNext

\* A strike is charged only for a job a person was being asked about, as it is
\* declined, timed out or killed: whichever call expired it or forgot others at
\* the same time, no job that failed in planning, was refused or lapsed after
\* its approval costs the others a cooldown (lapse_waiting, decline and kill of
\* src/job.rs).
THEOREM StrikesAreEarned == JobsSpec => StrikesOnlyWhenAsked
<1>1. JobsInv /\ [JobsNext]_jobsVars
         => [gate'.strikes > gate.strikes =>
                \E e \in entries, f \in entries' :
                    /\ e.id = f.id /\ e.state = "waiting" /\ f.state = "done"
                    /\ f.result \in {"declined", "timed_out", "killed"}]_jobsVars
  <2> SUFFICES ASSUME JobsInv, [JobsNext]_jobsVars, gate'.strikes > gate.strikes
               PROVE  \E e \in entries, f \in entries' :
                         /\ e.id = f.id /\ e.state = "waiting" /\ f.state = "done"
                         /\ f.result \in {"declined", "timed_out", "killed"}
    OBVIOUS
  <2>1. Charged(entries, gate, Held')
    BY StepCharges
  <2>2. Held'.gate = gate' /\ Held'.entries = entries'
    BY DEF Held
  <2> QED
    BY <2>1, <2>2 DEF Charged, Ran
<1> QED
  BY <1>1, JobsInvariant, PTL DEF JobsSpec, StrikesOnlyWhenAsked
=============================================================================
