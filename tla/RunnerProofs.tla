---------------------------- MODULE RunnerProofs ----------------------------
(***************************************************************************)
(* What holds of the trust registry and of a runner for every project,     *)
(* policy, clock and number of faults: lost messages, failed writes and    *)
(* crashes of either side, at any point.  The last part is about how the  *)
(* trees of the one agree with the registry of the other.                  *)
(***************************************************************************)
EXTENDS Runner, JobsProofs

----------------------------------------------------------------------------
(* What the calls do to the jobs, as far as a runner can tell.  A method   *)
(* lets an entry be, ends it, or moves it along one of the moves it is     *)
(* known for, and says nothing of how an apply or an install went.         *)

Moves == {<<"queued", "working">>, <<"working", "waiting">>,
          <<"waiting", "approved">>, <<"approved", "claimed">>}

\* The lines that say how an apply or an install went.
Reported == {"trusted", "applied", "apply_failed"}

\* Entry e may have become f; a scope is submitted for what it names.
Passed(e, f, moves) ==
    /\ f.id = e.id /\ f.kind = e.kind /\ f.project = e.project
    /\ e.state = "done" => f = e
    /\ \/ /\ f.scope = e.scope
          /\ \/ f.state \in {e.state, "done"}
             \/ <<e.state, f.state>> \in moves \ {<<"working", "waiting">>}
       \/ /\ e.state = "working" /\ f.state = "waiting" /\ <<e.state, f.state>> \in moves
          /\ f.scope.kind = f.kind /\ f.scope.project = f.project

Passing(es, fs, moves) == \A f \in fs : \E e \in es : Passed(e, f, moves)
Muted(ev, fv) == ev \subseteq fv /\ \A l \in fv : l \in ev \/ l.kind \notin Reported
Silent(j, k) == Passing(j.entries, k.entries, {}) /\ Muted(j.events, k.events)

\* A step from j.
Went(j, moves) == Passing(j.entries, entries', moves) /\ Muted(j.events, jobEvents')

LEMMA PassedOn ==
    ASSUME NEW e, NEW f, NEW g, NEW moves \in SUBSET Moves, Passed(e, f, {}), Passed(f, g, moves)
    PROVE  Passed(e, g, moves)
<1>1. /\ g.id = e.id /\ g.kind = e.kind /\ g.project = e.project
      /\ e.state = "done" => g = e
  BY DEF Passed
<1>2. CASE f.state = e.state
  BY <1>1, <1>2 DEF Passed
<1>3. CASE f.state # e.state
  <2>1. f.state = "done" /\ g = f /\ f.scope = e.scope
    BY <1>3 DEF Passed
  <2> QED
    BY <1>1, <2>1 DEF Passed
<1> QED
  BY <1>2, <1>3

LEMMA PassingOn ==
    ASSUME NEW es, NEW fs, NEW gs, NEW moves \in SUBSET Moves,
           Passing(es, fs, {}), Passing(fs, gs, moves)
    PROVE  Passing(es, gs, moves)
<1> SUFFICES ASSUME NEW g \in gs PROVE \E e \in es : Passed(e, g, moves)
  BY DEF Passing
<1>1. PICK f \in fs : Passed(f, g, moves)
  BY DEF Passing
<1>2. PICK e \in es : Passed(e, f, {})
  BY DEF Passing
<1> QED
  BY <1>1, <1>2, PassedOn

\* What a lapse or a tick does before the rest of a call.
LEMMA WentOn ==
    ASSUME NEW j, NEW k, NEW moves \in SUBSET Moves, Silent(j, k), Went(k, moves)
    PROVE  Went(j, moves)
<1>1. Passing(j.entries, entries', moves)
  BY PassingOn DEF Silent, Went
<1> QED
  BY <1>1 DEF Silent, Went, Muted

LEMMA SilentOn ==
    ASSUME NEW i, NEW j, NEW k, Silent(i, j), Silent(j, k)
    PROVE  Silent(i, k)
<1>1. Passing(i.entries, k.entries, {})
  BY PassingOn DEF Silent, Moves
<1> QED
  BY <1>1 DEF Silent, Muted

LEMMA StaysPassed ==
    ASSUME NEW e, NEW moves
    PROVE  Passed(e, e, moves)
BY DEF Passed

LEMMA LeavesWent ==
    ASSUME NEW j, NEW k, Silent(j, k), Leaves(k)
    PROVE  Went(j, {})
BY DEF Silent, Went, Leaves

LEMMA SameSilent ==
    ASSUME NEW j
    PROVE  Silent(j, j)
BY StaysPassed DEF Silent, Passing, Muted

LEMMA WentWider ==
    ASSUME NEW j, NEW moves, Went(j, {})
    PROVE  Went(j, moves)
<1> SUFFICES ASSUME NEW f \in entries', NEW e \in j.entries, Passed(e, f, {})
             PROVE  Passed(e, f, moves)
  BY DEF Went, Passing
<1> QED
  BY DEF Passed

LEMMA SettledPassed ==
    ASSUME NEW e \in Entries, e.state # "done", NEW result \in Results, NEW at \in Nat
    PROVE  Passed(e, Settled(e, result, at), {})
BY DEF Passed, Settled, Entries

LEMMA LapseSilent ==
    ASSUME NEW j, NEW n, NEW cs, Good(j, n, cs), NEW over \in SUBSET Overdue(j, Active)
    PROVE  Silent(j, Lapse(j, over))
<1> DEFINE k == Lapse(j, over)
<1>1. /\ k.entries = (j.entries \ over)
                     \cup {Settled(e, LapseResult(e), j.now) : e \in over}
      /\ k.events = j.events \cup {JobLine(LapseLine(e), e, Deadline(e)) : e \in over}
  BY GoodParts, LapseParts
<1>2. ASSUME NEW e \in over
      PROVE  /\ e \in j.entries /\ JobLine(LapseLine(e), e, Deadline(e)).kind \notin Reported
             /\ Passed(e, Settled(e, LapseResult(e), j.now), {})
  <2>1. e \in j.entries /\ e \in Entries /\ e.state \in Active /\ e.state # "done" /\ j.now \in Nat
    BY GoodParts DEF Overdue, Active
  <2>2. LapseResult(e) \in Results /\ LapseLine(e) \notin Reported
    BY <2>1, LapseResults DEF LapseLine, LapseResult, Reported, Active
  <2> QED
    BY <2>1, <2>2, SettledPassed DEF JobLine
<1> HIDE DEF k
<1>3. Passing(j.entries, k.entries, {})
  BY <1>1, <1>2, StaysPassed DEF Passing
<1>4. Muted(j.events, k.events)
  BY <1>1, <1>2 DEF Muted
<1> QED
  BY <1>3, <1>4 DEF Silent, k

LEMMA TickedSilent ==
    ASSUME NEW j, NEW n, NEW cs, Good(j, n, cs)
    PROVE  Silent(j, JobsTicked(j)) /\ Silent(j, Pruned(j))
<1>1. ASSUME NEW k, Good(k, n, cs)
      PROVE  Silent(k, Pruned(k))
  <2>1. Pruned(k).events = k.events /\ Pruned(k).entries \subseteq k.entries
    BY <1>1, PrunedGood
  <2> QED
    BY <2>1, StaysPassed DEF Silent, Passing, Muted
<1> DEFINE k == Lapse(j, Overdue(j, Active))
<1>2. Good(k, n, cs) /\ Silent(j, k)
  BY LapseGood, LapseSilent
<1>3. JobsTicked(j) = Pruned(k)
  BY DEF JobsTicked
<1> HIDE DEF k
<1> QED
  BY <1>1, <1>2, <1>3, SilentOn

\* An entry ends with a line that does not say how an apply went.
LEMMA EndedSilent ==
    ASSUME NEW p, NEW n, NEW cs, Good(p, n, cs), NEW e \in p.entries, e.state \in Active,
           NEW result \in Results, NEW kind \in OutcomeLines
    PROVE  LET m == Ended(p, e, result, kind)
           IN  /\ Passing(p.entries, m.entries, {})
               /\ m.events = p.events \cup {JobLine(kind, e, p.now)}
               /\ m \in JobRecords
               /\ kind \notin Reported => /\ Silent(p, m) /\ Silent(p, Freed(m, e))
                                          /\ Silent(p, Struck(Freed(m, e), p.now))
<1> DEFINE m == Ended(p, e, result, kind)
           q == Freed(m, e)
           line == JobLine(kind, e, p.now)
<1>1. /\ p \in JobRecords /\ p.now \in Nat /\ e \in Entries /\ e.id \in Nat /\ e.state # "done"
      /\ Settled(e, result, p.now) \in Entries /\ line \in JobLines /\ line.kind = kind
  BY GoodParts, SettledEntry, LineTyped DEF Active
<1>2. /\ m.entries = (p.entries \ {e}) \cup {Settled(e, result, p.now)}
      /\ m.events = p.events \cup {line} /\ m \in JobRecords
  BY <1>1, MovedParts DEF Ended
<1>3. Passing(p.entries, m.entries, {})
  BY <1>1, <1>2, SettledPassed, StaysPassed DEF Passing
<1>4. kind \notin Reported => Muted(p.events, m.events)
  BY <1>1, <1>2 DEF Muted
<1> HIDE DEF m, line
<1>5. q \in JobRecords /\ q.entries = m.entries /\ q.events = m.events
  <2>1. m.gate \in Gates /\ m.now \in Nat
    BY <1>2 DEF JobRecords
  <2>2. Released(m.gate, <<"job", e.id>>) \in Gates
    BY <1>1, <2>1, HolderOps
  <2> QED
    BY <1>2, <2>2, NewGate DEF Freed
<1> HIDE DEF q
<1>6. Struck(q, p.now).entries = q.entries /\ Struck(q, p.now).events = q.events
  BY <1>5, NewGate DEF Struck
<1> QED
  BY <1>2, <1>3, <1>4, <1>5, <1>6 DEF Silent, q, m, line

\* An entry moves on, with a line that does not say how an apply went.
LEMMA MovedWent ==
    ASSUME NEW p \in JobRecords, NEW e \in p.entries, NEW f, NEW new, NEW moves,
           Passed(e, f, moves), \A l \in new : l.kind \notin Reported,
           NEW k, k.entries = Moved(p, e, f, new).entries, k.events = Moved(p, e, f, new).events,
           Leaves(k)
    PROVE  Went(p, moves)
<1>1. entries' = (p.entries \ {e}) \cup {f} /\ jobEvents' = p.events \cup new
  BY MovedParts DEF Leaves
<1> QED
  BY <1>1, StaysPassed DEF Went, Passing, Muted

\* Jobs::poll.
LEMMA PollWent ==
    ASSUME NEW j, NEW n, NEW cs, Good(j, n, cs), NEW runner, JobPoll(j, runner)
    PROVE  Went(j, {<<"queued", "working">>})
<1> DEFINE mine == {e \in j.entries : RunnerOf[e.project] = runner}
           p == Lapse(j, Overdue(j, {"queued", "working", "approved"}) \cap mine)
           moves == {<<"queued", "working">>}
<1>1. \/ \E e \in p.entries :
            /\ e.state = "queued"
            /\ Leaves(Moved(p, e, [e EXCEPT !.state = "working"],
                            {JobLine("started", e, p.now)}))
      \/ Leaves(p)
  BY Zenon DEF JobPoll
<1>2. Good(p, n, cs) /\ Silent(j, p)
  BY OverdueOf, LapseGood, LapseSilent DEF Active
<1> HIDE DEF p
<1>3. p \in JobRecords /\ p.entries \subseteq Entries
  BY <1>2, GoodParts
<1>4. ASSUME NEW e \in p.entries, e.state = "queued",
             Leaves(Moved(p, e, [e EXCEPT !.state = "working"],
                          {JobLine("started", e, p.now)}))
      PROVE  Went(p, moves)
  <2>1. Passed(e, [e EXCEPT !.state = "working"], moves)
    BY <1>3, <1>4 DEF Passed, Entries
  <2>2. JobLine("started", e, p.now).kind \notin Reported
    BY DEF JobLine, Reported
  <2> QED
    BY <1>3, <1>4, <2>1, <2>2, MovedWent
<1>5. Leaves(p) => Went(p, moves)
  BY SameSilent, LeavesWent, WentWider
<1> QED
  BY <1>1, <1>2, <1>4, <1>5, WentOn DEF Moves

\* Jobs::submit.
LEMMA SubmitWent ==
    ASSUME NEW j, NEW n, NEW cs, Good(j, n, cs), NEW runner, NEW id, NEW scope,
           JobSubmit(j, runner, id, scope)
    PROVE  /\ Went(j, {<<"working", "waiting">>})
           /\ \A f \in entries' : f.state = "waiting" => f \in j.entries \/ (f.id = id /\ f.scope = scope)
<1> DEFINE p == Lapse(j, Overdue(j, {"queued", "working"}) \cap EntryOf(j, id, Active))
           to(e) == [e EXCEPT !.state = "waiting", !.scope = scope, !.planAt = p.now]
           moves == {<<"working", "waiting">>}
           kept == \A f \in entries' :
                      f.state = "waiting" => f \in p.entries \/ (f.id = id /\ f.scope = scope)
<1>1. \/ \E e \in EntryOf(p, id, Submittable) :
            \/ /\ scope.kind = e.kind /\ scope.project = e.project
               /\ Leaves(Moved(p, e, to(e), {JobLine("waiting", e, p.now)}))
            \/ Leaves(Freed(Ended(p, e, "refused", "refused"), e))
      \/ Leaves(p)
  BY Zenon DEF JobSubmit
<1>2. /\ Good(p, n, cs) /\ Silent(j, p)
      /\ \A e \in p.entries : e.state = "done" \/ e \in j.entries
  BY OverdueOf, LapseGood, LapseSilent DEF Active
<1>3. p \in JobRecords /\ p.entries \subseteq Entries /\ p.now \in Nat
  BY <1>2, GoodParts
<1> HIDE DEF p
<1>4. ASSUME NEW e \in EntryOf(p, id, Submittable),
             scope.kind = e.kind, scope.project = e.project,
             Leaves(Moved(p, e, to(e), {JobLine("waiting", e, p.now)}))
      PROVE  Went(p, moves) /\ kept
  <2>1. e \in p.entries /\ e \in Entries /\ e.state = "working" /\ e.id = id
    BY <1>3 DEF EntryOf, Submittable
  <2>2. /\ to(e).id = e.id /\ to(e).kind = e.kind /\ to(e).project = e.project
        /\ to(e).state = "waiting" /\ to(e).scope = scope
    BY <2>1 DEF Entries
  <2>3. JobLine("waiting", e, p.now).kind \notin Reported
    BY DEF JobLine, Reported
  <2>4. entries' = (p.entries \ {e}) \cup {to(e)}
    BY <1>3, <1>4, MovedParts DEF Leaves
  <2> HIDE DEF to
  <2>5. Passed(e, to(e), moves)
    BY <1>4, <2>1, <2>2 DEF Passed
  <2>6. Went(p, moves)
    BY <1>3, <1>4, <2>1, <2>3, <2>5, MovedWent
  <2> QED
    BY <2>1, <2>2, <2>4, <2>6
<1>5. ASSUME NEW e \in EntryOf(p, id, Submittable),
             Leaves(Freed(Ended(p, e, "refused", "refused"), e))
      PROVE  Went(p, {}) /\ kept
  <2>1. e \in p.entries /\ e.state \in Active /\ e \in Entries /\ e.id \in Nat
    BY <1>3 DEF EntryOf, Submittable, Active, Entries
  <2>2. "refused" \in Results /\ "refused" \in OutcomeLines /\ "refused" \notin Reported
    BY DEF Results, OutcomeLines, Reported
  <2> DEFINE m == Ended(p, e, "refused", "refused")
  <2>3. Silent(p, Freed(m, e)) /\ m \in JobRecords
    BY <1>2, <2>1, <2>2, EndedSilent
  <2>4. m.entries = (p.entries \ {e}) \cup {Settled(e, "refused", p.now)}
    BY <1>3, MovedParts DEF Ended
  <2>5. Settled(e, "refused", p.now).state = "done"
    BY <1>3, <2>1, <2>2, SettledEntry
  <2> HIDE DEF m
  <2>6. Freed(m, e).entries = m.entries
    BY <2>3, NewGate DEF Freed
  <2>7. Went(p, {})
    BY <1>5, <2>3, LeavesWent DEF m
  <2>8. kept
    BY <1>5, <2>4, <2>5, <2>6 DEF m, Leaves
  <2> QED
    BY <2>7, <2>8
<1>6. Leaves(p) => Went(p, {}) /\ kept
  <2>1. Leaves(p) => Went(p, {})
    BY SameSilent, LeavesWent
  <2>2. Leaves(p) => kept
    BY DEF Leaves
  <2> QED
    BY <2>1, <2>2
<1>7. Went(p, moves) /\ kept
  BY <1>1, <1>4, <1>5, <1>6, WentWider
<1>8. Went(j, moves)
  BY <1>2, <1>7, WentOn DEF Moves
<1> QED
  BY <1>2, <1>7, <1>8

\* Jobs::refuse, Jobs::decline, Jobs::refuse_claimed, Jobs::tick and Jobs::kill.
LEMMA RefuseWent ==
    ASSUME NEW j, NEW n, NEW cs, Good(j, n, cs), NEW runner, NEW id,
           NEW result \in {"refused", "plan_failed"}, JobRefuse(j, runner, id, result)
    PROVE  Went(j, {})
<1> DEFINE p == Lapse(j, Overdue(j, {"queued", "working"}) \cap EntryOf(j, id, Active))
<1>1. \/ \E e \in EntryOf(p, id, {"working"}) :
            Leaves(Freed(Ended(p, e, result, "refused"), e))
      \/ Leaves(p)
  BY Zenon DEF JobRefuse
<1>2. Good(p, n, cs) /\ Silent(j, p)
  BY OverdueOf, LapseGood, LapseSilent DEF Active
<1> HIDE DEF p
<1>3. ASSUME NEW e \in EntryOf(p, id, {"working"}),
             Leaves(Freed(Ended(p, e, result, "refused"), e))
      PROVE  Went(p, {})
  <2>1. e \in p.entries /\ e.state \in Active
    BY DEF EntryOf, Active
  <2>2. result \in Results /\ "refused" \in OutcomeLines /\ "refused" \notin Reported
    BY DEF Results, OutcomeLines, Reported
  <2>3. Silent(p, Freed(Ended(p, e, result, "refused"), e))
    BY <1>2, <2>1, <2>2, EndedSilent
  <2> QED
    BY <1>3, <2>3, LeavesWent
<1>4. Leaves(p) => Went(p, {})
  BY SameSilent, LeavesWent
<1> QED
  BY <1>1, <1>2, <1>3, <1>4, WentOn DEF Moves
LEMMA DeclineWent ==
    ASSUME NEW j, NEW n, NEW cs, Good(j, n, cs), NEW id, JobDecline(j, id)
    PROVE  Went(j, {})
<1>1. ASSUME NEW e \in EntryOf(j, id, {"waiting"}),
             Leaves(Struck(Freed(Ended(j, e, "declined", "declined"), e), j.now))
      PROVE  Went(j, {})
  <2>1. e \in j.entries /\ e.state \in Active
    BY DEF EntryOf, Active
  <2>2. "declined" \in Results /\ "declined" \in OutcomeLines /\ "declined" \notin Reported
    BY DEF Results, OutcomeLines, Reported
  <2>3. Silent(j, Struck(Freed(Ended(j, e, "declined", "declined"), e), j.now))
    BY <2>1, <2>2, EndedSilent
  <2> QED
    BY <1>1, <2>3, LeavesWent
<1>2. Leaves(j) => Went(j, {})
  BY SameSilent, LeavesWent
<1> QED
  BY <1>1, <1>2 DEF JobDecline
LEMMA TickWent ==
    ASSUME NEW j, NEW n, NEW cs, Good(j, n, cs), JobTick(j)
    PROVE  Went(j, {})
BY TickedSilent, LeavesWent DEF JobTick
LEMMA KillWent ==
    ASSUME NEW j, NEW n, NEW cs, Good(j, n, cs), NEW project, JobKill(j, project)
    PROVE  Went(j, {})
<1> DEFINE hit == {e \in j.entries : e.project = project /\ e.state \in Active \ {"claimed"}}
           freed == {<<"job", e.id>> : e \in {x \in hit : x.state \in HoldsSlot}}
           es == (j.entries \ hit) \cup {Settled(e, "killed", j.now) : e \in hit}
           ev == j.events \cup {JobLine("killed", e, j.now) : e \in hit}
           g == [j.gate EXCEPT !.occupant = @ \ freed]
           k == [j EXCEPT !.entries = es, !.events = ev, !.gate.occupant = @ \ freed]
<1>1. Leaves(Struck(k, j.now)) \/ Leaves(k)
  BY Zenon DEF JobKill
<1>2. j \in JobRecords /\ j.now \in Nat
  BY GoodParts
<1>3. Passing(j.entries, es, {})
  <2>1. \A e \in hit : e \in j.entries /\ e \in Entries /\ e.state # "done"
    BY GoodParts DEF Active
  <2>2. "killed" \in Results
    BY DEF Results
  <2> HIDE DEF hit
  <2> QED
    BY <1>2, <2>1, <2>2, SettledPassed, StaysPassed DEF Passing
<1>4. Muted(j.events, ev)
  BY DEF Muted, JobLine, Reported
<1> HIDE DEF es, ev
<1>5. k.entries = es /\ k.events = ev /\ Struck(k, j.now).entries = es /\ Struck(k, j.now).events = ev
  <2>1. k = [j EXCEPT !.entries = es, !.events = ev, !.gate = g]
    BY Zenon
  <2>2. Struck(k, j.now) = [k EXCEPT !.gate = StruckAt(@, j.now)]
    BY Zenon DEF Struck
  <2> HIDE DEF k, g
  <2> QED
    BY <1>2, <2>1, <2>2 DEF JobRecords
<1> QED
  BY <1>1, <1>3, <1>4, <1>5, LeavesWent DEF Silent

\* Jobs::approve.
LEMMA ApproveWent ==
    ASSUME NEW j, NEW n, NEW cs, Good(j, n, cs), NEW id, NEW nonce, NEW scope,
           JobApprove(j, id, nonce, scope)
    PROVE  Went(j, {<<"waiting", "approved">>})
<1> DEFINE p == Lapse(j, Overdue(j, {"waiting"}) \cap EntryOf(j, id, Active))
           to(e) == [e EXCEPT !.state = "approved"]
           moved(e) == Moved(p, e, to(e), {JobLine("approved", e, p.now)})
           moves == {<<"waiting", "approved">>}
<1>1. \/ \E e \in EntryOf(p, id, {"waiting"}) :
            \/ Leaves([Freed(moved(e), e) EXCEPT !.gate = Forgiven(@)])
            \/ Leaves(Freed(Ended(p, e, "refused", "refused"), e))
      \/ Leaves(p)
  BY Zenon DEF JobApprove
<1>2. Good(p, n, cs) /\ Silent(j, p)
  BY OverdueOf, LapseGood, LapseSilent DEF Active
<1>3. p \in JobRecords /\ p.now \in Nat /\ p.entries \subseteq Entries
  BY <1>2, GoodParts
<1> HIDE DEF p
<1>4. ASSUME NEW e \in EntryOf(p, id, {"waiting"}),
             Leaves([Freed(moved(e), e) EXCEPT !.gate = Forgiven(@)])
      PROVE  Went(p, moves)
  <2>1. e \in p.entries /\ e \in Entries /\ e.id \in Nat /\ e.state = "waiting"
    BY <1>3 DEF EntryOf, Entries
  <2>2. /\ JobLine("approved", e, p.now) \in JobLines
        /\ JobLine("approved", e, p.now).kind \notin Reported
    BY <1>3, <2>1, LineTyped DEF JobLine, Reported
  <2>3. to(e) \in Entries /\ Passed(e, to(e), moves)
    BY <2>1 DEF Entries, Active, Passed
  <2>4. moved(e) \in JobRecords
    BY <1>3, <2>2, <2>3, MovedParts
  <2> DEFINE m == moved(e)
             q == Freed(m, e)
             k == [q EXCEPT !.gate = Forgiven(@)]
  <2>5. m.gate \in Gates
    BY <2>4 DEF JobRecords
  <2> HIDE DEF m
  <2>6. q.entries = m.entries /\ q.events = m.events /\ q \in JobRecords
    BY <2>1, <2>4, <2>5, HolderOps, NewGate, 0 \in Nat DEF Freed, m
  <2> HIDE DEF q
  <2>7. k.entries = m.entries /\ k.events = m.events
    <3>1. k = [q EXCEPT !.gate = Forgiven(q.gate)]
      OBVIOUS
    <3> QED
      BY <2>6, <3>1, NewGate
  <2>8. Leaves(k)
    BY <1>4 DEF q, m
  <2> HIDE DEF k, to
  <2> QED
    BY <1>3, <2>1, <2>2, <2>3, <2>7, <2>8, MovedWent DEF m
<1>5. ASSUME NEW e \in EntryOf(p, id, {"waiting"}),
             Leaves(Freed(Ended(p, e, "refused", "refused"), e))
      PROVE  Went(p, {})
  <2>1. e \in p.entries /\ e.state \in Active
    BY DEF EntryOf, Active
  <2>2. "refused" \in Results /\ "refused" \in OutcomeLines /\ "refused" \notin Reported
    BY DEF Results, OutcomeLines, Reported
  <2>3. Silent(p, Freed(Ended(p, e, "refused", "refused"), e))
    BY <1>2, <2>1, <2>2, EndedSilent
  <2> QED
    BY <1>5, <2>3, LeavesWent
<1>6. Leaves(p) => Went(p, {})
  BY SameSilent, LeavesWent
<1> HIDE DEF moved
<1>7. Went(p, moves)
  BY <1>1, <1>4, <1>5, <1>6, WentWider
<1> QED
  BY <1>2, <1>7, WentOn DEF Moves

\* Jobs::claim: what is claimed is claimed by a claim.
LEMMA ClaimWent ==
    ASSUME NEW j, NEW n, Good(j, n, claims), NEW runner, NEW id, JobClaim(j, runner, id)
    PROVE  /\ Went(j, {<<"approved", "claimed">>})
           /\ \A f \in entries' : f.state = "claimed" =>
                 f \in j.entries \/ \E c \in claims' : c.id = f.id /\ c.scope = f.scope
           /\ claims \subseteq claims' /\ \A c \in claims' : c \in claims \/ c.id = id
<1> DEFINE mine == {e \in EntryOf(j, id, Active) : RunnerOf[e.project] = runner}
           p == Lapse(j, Overdue(j, {"approved"}) \cap mine)
           to(e) == [e EXCEPT !.state = "claimed", !.claimedAt = p.now]
           claim(e) == [id |-> id, scope |-> e.scope, at |-> p.now]
           moves == {<<"approved", "claimed">>}
           kept == \A f \in entries' : f.state = "claimed" =>
                      f \in p.entries \/ \E c \in claims' : c.id = f.id /\ c.scope = f.scope
<1>1. \/ \E e \in EntryOf(p, id, {"approved"}) :
            \/ Leaves(Moved(p, e, to(e), {})) /\ claims' = claims \cup {claim(e)}
            \/ Leaves(Ended(p, e, "refused", "refused")) /\ claims' = claims
      \/ Leaves(p) /\ claims' = claims
  BY Zenon DEF JobClaim
<1>2. /\ Good(p, n, claims) /\ Silent(j, p)
      /\ \A e \in p.entries : e.state = "done" \/ e \in j.entries
  BY OverdueOf, LapseGood, LapseSilent DEF Active
<1>3. p \in JobRecords /\ p.now \in Nat /\ p.entries \subseteq Entries
  BY <1>2, GoodParts
<1> HIDE DEF p
<1>4. ASSUME NEW e \in EntryOf(p, id, {"approved"}),
             Leaves(Moved(p, e, to(e), {})), claims' = claims \cup {claim(e)}
      PROVE  Went(p, moves) /\ kept
  <2>1. e \in p.entries /\ e \in Entries /\ e.state = "approved" /\ e.id = id
    BY <1>3 DEF EntryOf
  <2>2. Passed(e, to(e), moves) /\ to(e).id = id /\ to(e).scope = e.scope
    BY <2>1 DEF Entries, Passed
  <2>3. entries' = (p.entries \ {e}) \cup {to(e)}
    BY <1>3, <1>4, MovedParts DEF Leaves
  <2>4. claim(e).id = id /\ claim(e).scope = e.scope
    OBVIOUS
  <2> HIDE DEF to, claim
  <2>5. Went(p, moves)
    BY <1>3, <1>4, <2>1, <2>2, MovedWent
  <2>6. kept
    BY <1>4, <2>1, <2>2, <2>3, <2>4
  <2> QED
    BY <2>5, <2>6
<1>5. ASSUME NEW e \in EntryOf(p, id, {"approved"}), Leaves(Ended(p, e, "refused", "refused"))
      PROVE  Went(p, {}) /\ kept
  <2>1. e \in p.entries /\ e.state \in Active
    BY DEF EntryOf, Active
  <2>2. "refused" \in Results /\ "refused" \in OutcomeLines /\ "refused" \notin Reported
    BY DEF Results, OutcomeLines, Reported
  <2>3. Silent(p, Ended(p, e, "refused", "refused"))
    BY <1>2, <2>1, <2>2, EndedSilent
  <2>4. entries' = (p.entries \ {e}) \cup {Settled(e, "refused", p.now)}
    BY <1>3, <1>5, MovedParts DEF Ended, Leaves
  <2>5. Settled(e, "refused", p.now).state = "done"
    BY <1>3, <2>1, <2>2, SettledEntry
  <2>6. kept
    BY <2>4, <2>5
  <2> QED
    BY <1>5, <2>3, <2>6, LeavesWent
<1>6. ASSUME Leaves(p) PROVE Went(p, {}) /\ kept
  <2>1. kept
    BY <1>6 DEF Leaves
  <2> QED
    BY <1>6, <2>1, SameSilent, LeavesWent
<1> HIDE DEF to
<1>7. Went(p, moves) /\ kept
  BY <1>1, <1>4, <1>5, <1>6, WentWider
<1>8. Went(j, moves)
  BY <1>2, <1>7, WentOn DEF Moves
<1>9. claims \subseteq claims' /\ \A c \in claims' : c \in claims \/ c.id = id
  BY <1>1
<1> QED
  BY <1>2, <1>7, <1>8, <1>9

\* Jobs::finish says how the apply went that it was called for.
LEMMA FinishWent ==
    ASSUME NEW j, NEW n, NEW cs, Good(j, n, cs), NEW runner, NEW project, NEW id,
           NEW result \in {"trusted", "applied", "apply_failed", "outcome_unknown"},
           JobFinish(j, runner, project, id, result)
    PROVE  /\ Passing(j.entries, entries', {}) /\ j.events \subseteq jobEvents'
           /\ \A l \in jobEvents' : \/ l \in j.events \/ l.kind \notin Reported
                                    \/ l.kind = result /\ l.id = id
<1> DEFINE line == [kind |-> result, id |-> id, project |-> project, at |-> j.now]
<1>1. \/ \E e \in j.entries : /\ e.id = id /\ e.state = "claimed"
                              /\ Leaves(Ended(j, e, result, result))
      \/ Leaves([j EXCEPT !.events = @ \cup {line}])
      \/ Leaves(j)
  BY Zenon DEF JobFinish, Reportable
<1>2. CASE \E e \in j.entries : /\ e.id = id /\ e.state = "claimed"
                                /\ Leaves(Ended(j, e, result, result))
  <2>1. PICK e \in j.entries : /\ e.id = id /\ e.state = "claimed"
                               /\ Leaves(Ended(j, e, result, result))
    BY <1>2
  <2>2. result \in Results /\ result \in OutcomeLines /\ e.state \in Active
    BY <2>1 DEF Results, OutcomeLines, Active
  <2>3. /\ Passing(j.entries, Ended(j, e, result, result).entries, {})
        /\ Ended(j, e, result, result).events = j.events \cup {JobLine(result, e, j.now)}
    BY <2>2, EndedSilent
  <2> QED
    BY <2>1, <2>3 DEF Leaves, JobLine
<1>3. CASE Leaves([j EXCEPT !.events = @ \cup {line}])
  <2>1. entries' = j.entries /\ jobEvents' = j.events \cup {line}
    BY <1>3, GoodParts DEF Leaves, JobRecords
  <2> QED
    BY <2>1, StaysPassed DEF Passing
<1>4. CASE Leaves(j)
  BY <1>4, StaysPassed DEF Passing, Leaves
<1> QED
  BY <1>1, <1>2, <1>3, <1>4

\* Jobs::request: a new job is queued.
LEMMA RequestWent ==
    ASSUME NEW j, NEW n, NEW cs, Good(j, n, cs), NEW project, NEW kind,
           JobRequest(j, project, kind)
    PROVE  /\ \A f \in entries' : \/ f.id = nextId /\ f.state = "queued"
                                  \/ \E e \in j.entries : Passed(e, f, {})
           /\ Muted(j.events, jobEvents')
           /\ entries' # {} => nextId' \in {nextId, nextId + 1}
<1> DEFINE p == Pruned(j)
           g == GateTicked(p.gate, p.now)
           job == [id |-> nextId, project |-> project, kind |-> kind,
                   state |-> "queued", result |-> None, scope |-> None,
                   created |-> p.now, planAt |-> None, claimedAt |-> None,
                   doneAt |-> None]
           line == JobLine("requested", job, p.now)
           h == Admitted(g, p.now, <<"job", nextId>>)
<1>1. \/ /\ Leaves([p EXCEPT !.entries = @ \cup {job}, !.gate = h, !.events = @ \cup {line}])
         /\ nextId' = nextId + 1
      \/ Leaves([p EXCEPT !.gate = g]) /\ nextId' = nextId
      \/ Leaves(p) /\ nextId' = nextId
  BY DEF JobRequest, JobsQuiet, AllocateId
<1>2. /\ Good(p, n, cs) /\ Silent(j, p)
  BY PrunedGood, TickedSilent
<1>3. line.kind = "requested" /\ job.id = nextId /\ job.state = "queued"
  BY DEF JobLine
<1> HIDE DEF p, job, line, g, h
<1>4. p \in JobRecords
  BY <1>2, GoodParts
<1>5. \/ entries' = p.entries \cup {job} /\ jobEvents' = p.events \cup {line}
      \/ entries' = p.entries /\ jobEvents' = p.events
  BY <1>1, <1>4 DEF Leaves, JobRecords
<1> QED
  BY <1>1, <1>2, <1>3, <1>5 DEF Silent, Passing, Muted, Reported

----------------------------------------------------------------------------
(* The daemon's side: the jobs it knows and the claims it gave out agree,  *)
(* and every revision it trusts is in the ledger.                          *)

ClaimsHeld ==
    \A e \in entries : e.state = "claimed" => \E c \in claims : c.id = e.id /\ c.scope = e.scope
ScopesFit ==
    \A e \in entries : e.state \in {"waiting", "approved", "claimed"} =>
        e.scope.kind = e.kind /\ e.scope.project = e.project
JobsKept == JobsInv /\ ClaimsHeld /\ ScopesFit

RegistryKept ==
    /\ registry \in [Projects -> TrustRecords \cup {None}] /\ trusted = TrustedNow
    /\ trustLines \subseteq TrustLines /\ untrusting \subseteq TrustLines
    /\ up \in BOOLEAN /\ ledgerFailed \in BOOLEAN /\ faults \in 0..MaxFaults
    /\ RecordsAreAudited

TrustInv == JobsKept /\ RegistryKept

\* What a step may do to the jobs: a new one is queued under a new id, the
\* others move on, and what is claimed was approved.
Evolved(moves) ==
    \A f \in entries' : \/ f.id = nextId /\ f.state = "queued"
                        \/ \E e \in entries : Passed(e, f, moves)
JobsWent(moves) ==
    /\ JobsKept' /\ Evolved(moves) /\ nextId <= nextId' /\ claims \subseteq claims'
    /\ \A c \in claims' \ claims :
          \E e \in entries : e.id = c.id /\ e.state = "approved" /\ e.scope = c.scope

Unclaimed == Moves \ {<<"approved", "claimed">>}

LEMMA KeptOn ==
    ASSUME JobsKept, JobsInv', NEW moves \in SUBSET Unclaimed, Evolved(moves),
           claims \subseteq claims'
    PROVE  JobsKept'
<1>1. ClaimsHeld'
  <2>1. ASSUME NEW e \in entries, NEW f, Passed(e, f, moves), f.state = "claimed"
        PROVE  e.state = "claimed" /\ f.id = e.id /\ f.scope = e.scope
    BY <2>1 DEF Passed, Unclaimed, Moves
  <2> QED
    BY <2>1 DEF JobsKept, ClaimsHeld, Evolved
<1>2. ScopesFit'
  <2> DEFINE shown == {"waiting", "approved", "claimed"}
  <2>1. ASSUME NEW e \in entries, NEW f, Passed(e, f, moves), f.state \in shown
        PROVE  f.scope.kind = f.kind /\ f.scope.project = f.project
    BY <2>1 DEF Passed, Unclaimed, Moves, JobsKept, ScopesFit
  <2> QED
    BY <2>1 DEF ScopesFit, Evolved
<1> QED
  BY <1>1, <1>2 DEF JobsKept

LEMMA QuietWent ==
    ASSUME JobsKept, JobsInv', NEW moves \in SUBSET Unclaimed,
           Passing(entries, entries', moves), UNCHANGED <<nextId, claims>>
    PROVE  JobsWent(moves)
<1>1. Evolved(moves)
  BY DEF Passing, Evolved
<1>2. nextId \in Nat
  BY 0 \in Nat, ReadingGood DEF JobsKept
<1> QED
  BY <1>1, <1>2, KeptOn DEF JobsWent

\* What a handler starts from, before and after it ticked.
LEMMA CallGood ==
    ASSUME JobsKept, NEW t \in Time
    PROVE  LET j == JobsAt(gate, t)
           IN  /\ Good(j, nextId, claims) /\ j.entries = entries /\ j.events = jobEvents
               /\ Continues(entries, j.entries) /\ Silent(j, j)
               /\ Good(JobsTicked(j), nextId, claims) /\ Silent(j, JobsTicked(j))
               /\ Continues(entries, JobsTicked(j).entries)
               /\ JobsInv
<1> DEFINE j == JobsAt(gate, t)
<1>1. Good(j, nextId, claims) /\ j.entries = entries /\ JobsInv
  BY ReadingGood, GateAssumption DEF JobsKept
<1>2. j.events = jobEvents /\ Continues(entries, entries)
  BY DEF JobsAt, Continues
<1> HIDE DEF j
<1>3. /\ Good(JobsTicked(j), nextId, claims) /\ Silent(j, JobsTicked(j)) /\ Silent(j, j)
      /\ Continues(j.entries, JobsTicked(j).entries)
  BY <1>1, TickedGood, TickedSilent, SameSilent
<1> QED
  BY <1>1, <1>2, <1>3 DEF j

\* A quiet call, after what it starts with.
LEMMA CallWent ==
    ASSUME JobsKept, JobsInv', NEW t \in Time, NEW k, Silent(JobsAt(gate, t), k),
           NEW moves \in SUBSET Unclaimed, Went(k, moves), UNCHANGED <<nextId, claims>>
    PROVE  JobsWent(moves) /\ Muted(jobEvents, jobEvents')
<1>1. Went(JobsAt(gate, t), moves)
  BY WentOn DEF Unclaimed
<1>2. Passing(entries, entries', moves) /\ Muted(jobEvents, jobEvents')
  BY <1>1, CallGood DEF Went
<1> QED
  BY <1>2, QuietWent

LEMMA QuietCalls ==
    ASSUME JobsKept, NEW t \in Time
    PROVE  LET j == JobsAt(gate, t)
           IN  /\ \A id, e : JobApprove(j, id, id, e.scope) =>
                     JobsWent({<<"waiting", "approved">>}) /\ Muted(jobEvents, jobEvents')
               /\ \A id : JobDecline(JobsTicked(j), id) =>
                     JobsWent({}) /\ Muted(jobEvents, jobEvents')
               /\ \A p : JobKill(j, p) => JobsWent({}) /\ Muted(jobEvents, jobEvents')
               /\ JobTick(j) => JobsWent({}) /\ Muted(jobEvents, jobEvents')
               /\ \A r : JobPoll(JobsTicked(j), r) =>
                     JobsWent({<<"queued", "working">>}) /\ Muted(jobEvents, jobEvents')
               /\ \A r, id : \A result \in {"refused", "plan_failed"} :
                     JobRefuse(j, r, id, result) =>
                        JobsWent({}) /\ Muted(jobEvents, jobEvents')
<1> DEFINE j == JobsAt(gate, t)
<1>0. /\ {} \in SUBSET Unclaimed /\ {<<"waiting", "approved">>} \in SUBSET Unclaimed
      /\ {<<"queued", "working">>} \in SUBSET Unclaimed
  BY DEF Unclaimed, Moves
<1>g. /\ Good(j, nextId, claims) /\ Continues(entries, j.entries) /\ Silent(j, j)
      /\ Good(JobsTicked(j), nextId, claims) /\ Continues(entries, JobsTicked(j).entries)
      /\ Silent(j, JobsTicked(j)) /\ JobsInv
  BY CallGood
<1> HIDE DEF j
<1>1. ASSUME NEW id, NEW e, JobApprove(j, id, id, e.scope)
      PROVE  JobsWent({<<"waiting", "approved">>}) /\ Muted(jobEvents, jobEvents')
  <2>1. JobsInv' /\ Went(j, {<<"waiting", "approved">>})
    BY <1>g, <1>1, ApproveInv, ApproveWent
  <2>2. UNCHANGED <<nextId, claims>>
    BY <1>1 DEF JobApprove, JobsQuiet
  <2> QED
    BY <1>0, <1>g, <2>1, <2>2, CallWent DEF j
<1>2. ASSUME NEW id, JobDecline(JobsTicked(j), id)
      PROVE  JobsWent({}) /\ Muted(jobEvents, jobEvents')
  <2>1. JobsInv' /\ Went(JobsTicked(j), {})
    BY <1>g, <1>2, DeclineInv, DeclineWent
  <2>2. UNCHANGED <<nextId, claims>>
    BY <1>2 DEF JobDecline, JobsQuiet
  <2> QED
    BY <1>0, <1>g, <2>1, <2>2, CallWent DEF j
<1>3. ASSUME NEW p, JobKill(j, p)
      PROVE  JobsWent({}) /\ Muted(jobEvents, jobEvents')
  <2>1. JobsInv' /\ Went(j, {})
    BY <1>g, <1>3, KillInv, KillWent
  <2>2. UNCHANGED <<nextId, claims>>
    BY <1>3 DEF JobKill, JobsQuiet
  <2> QED
    BY <1>0, <1>g, <2>1, <2>2, CallWent DEF j
<1>4. ASSUME JobTick(j)
      PROVE  JobsWent({}) /\ Muted(jobEvents, jobEvents')
  <2>1. JobsInv' /\ Went(j, {})
    BY <1>g, <1>4, TickInv, TickWent
  <2>2. UNCHANGED <<nextId, claims>>
    BY <1>4 DEF JobTick, JobsQuiet
  <2> QED
    BY <1>0, <1>g, <2>1, <2>2, CallWent DEF j
<1>5. ASSUME NEW r, JobPoll(JobsTicked(j), r)
      PROVE  JobsWent({<<"queued", "working">>}) /\ Muted(jobEvents, jobEvents')
  <2>1. JobsInv' /\ Went(JobsTicked(j), {<<"queued", "working">>})
    BY <1>g, <1>5, PollInv, PollWent
  <2>2. UNCHANGED <<nextId, claims>>
    BY <1>5 DEF JobPoll, JobsQuiet
  <2> QED
    BY <1>0, <1>g, <2>1, <2>2, CallWent DEF j
<1>6. ASSUME NEW r, NEW id, NEW result \in {"refused", "plan_failed"}, JobRefuse(j, r, id, result)
      PROVE  JobsWent({}) /\ Muted(jobEvents, jobEvents')
  <2>1. JobsInv' /\ Went(j, {})
    BY <1>g, <1>6, RefuseInv, RefuseWent
  <2>2. UNCHANGED <<nextId, claims>>
    BY <1>6 DEF JobRefuse, JobsQuiet
  <2> QED
    BY <1>0, <1>g, <2>1, <2>2, CallWent DEF j
<1> QED
  BY <1>1, <1>2, <1>3, <1>4, <1>5, <1>6 DEF j

LEMMA CallSubmit ==
    ASSUME JobsKept, NEW t \in Time, NEW id, NEW scope \in JobScopes, NEW runner,
           JobSubmit(JobsAt(gate, t), runner, id, scope)
    PROVE  /\ JobsWent({<<"working", "waiting">>}) /\ Muted(jobEvents, jobEvents')
           /\ \A f \in entries' : f.state = "waiting" => f \in entries \/ (f.id = id /\ f.scope = scope)
<1> DEFINE j == JobsAt(gate, t)
<1>1. /\ Good(j, nextId, claims) /\ Continues(entries, j.entries) /\ Silent(j, j)
      /\ j.entries = entries /\ JobsInv
  BY CallGood
<1>2. {<<"working", "waiting">>} \in SUBSET Unclaimed
  BY DEF Unclaimed, Moves
<1>3. UNCHANGED <<nextId, claims>>
  BY DEF JobSubmit, JobsQuiet
<1> HIDE DEF j
<1>4. JobSubmit(j, runner, id, scope)
  BY DEF j
<1>5. JobsInv'
  BY <1>1, <1>4, SubmitInv
<1>6. /\ Went(j, {<<"working", "waiting">>})
      /\ \A f \in entries' :
            f.state = "waiting" => f \in entries \/ (f.id = id /\ f.scope = scope)
  BY <1>1, <1>4, SubmitWent
<1>7. JobsWent({<<"working", "waiting">>}) /\ Muted(jobEvents, jobEvents')
  BY <1>1, <1>2, <1>3, <1>5, <1>6, CallWent DEF j
<1> QED
  BY <1>6, <1>7

LEMMA CallClaim ==
    ASSUME JobsKept, NEW t \in Time, NEW id \in Nat, NEW runner,
           JobClaim(JobsAt(gate, t), runner, id)
    PROVE  /\ JobsWent({<<"approved", "claimed">>}) /\ Muted(jobEvents, jobEvents')
           /\ ClaimsStillTrusted /\ \A c \in claims' : c \in claims \/ c.id = id
<1> DEFINE j == JobsAt(gate, t)
           moves == {<<"approved", "claimed">>}
<1>1. /\ Good(j, nextId, claims) /\ j.entries = entries /\ j.events = jobEvents /\ JobsInv
  BY CallGood
<1>2. nextId \in Nat /\ nextId' = nextId
  BY 0 \in Nat, ReadingGood DEF JobsKept, JobClaim
<1> HIDE DEF j
<1>3. JobClaim(j, runner, id)
  BY DEF j
<1>4. JobsInv' /\ ClaimsStillTrusted
  BY <1>1, <1>3, ClaimInv
<1>5. /\ Went(j, moves)
      /\ \A f \in entries' : f.state = "claimed" =>
            f \in entries \/ \E c \in claims' : c.id = f.id /\ c.scope = f.scope
      /\ claims \subseteq claims' /\ \A c \in claims' : c \in claims \/ c.id = id
  BY <1>1, <1>3, ClaimWent
<1>6. Passing(entries, entries', moves) /\ Muted(jobEvents, jobEvents')
  BY <1>1, <1>5 DEF Went
<1>7. ClaimsHeld'
  BY <1>5 DEF JobsKept, ClaimsHeld
<1>8. ScopesFit'
  BY <1>6 DEF Passing, Passed, JobsKept, ScopesFit
<1>9. \A c \in claims' \ claims :
         \E e \in entries : e.id = c.id /\ e.state = "approved" /\ e.scope = c.scope
  BY <1>4 DEF ClaimsStillTrusted
<1>10. Evolved(moves)
  BY <1>6 DEF Passing, Evolved
<1> QED
  BY <1>2, <1>4, <1>5, <1>6, <1>7, <1>8, <1>9, <1>10 DEF JobsWent, JobsKept

LEMMA CallFinish ==
    ASSUME JobsKept, NEW t \in Time, NEW id \in Nat, id < nextId,
           NEW project \in Projects, NEW runner,
           NEW result \in {"trusted", "applied", "apply_failed", "outcome_unknown"},
           JobFinish(JobsAt(gate, t), runner, project, id, result)
    PROVE  /\ JobsWent({}) /\ jobEvents \subseteq jobEvents'
           /\ \A l \in jobEvents' : \/ l \in jobEvents \/ l.kind \notin Reported
                                    \/ l.kind = result /\ l.id = id
<1> DEFINE j == JobsAt(gate, t)
<1>1. /\ Good(j, nextId, claims) /\ Continues(entries, j.entries) /\ j.entries = entries
      /\ j.events = jobEvents /\ JobsInv
  BY CallGood
<1>2. UNCHANGED <<nextId, claims>>
  BY DEF JobFinish, JobsQuiet
<1> HIDE DEF j
<1>3. JobFinish(j, runner, project, id, result)
  BY DEF j
<1>4. JobsInv'
  BY <1>1, <1>3, FinishInv
<1>5. /\ Passing(entries, entries', {}) /\ jobEvents \subseteq jobEvents'
      /\ \A l \in jobEvents' : \/ l \in jobEvents \/ l.kind \notin Reported
                               \/ l.kind = result /\ l.id = id
  BY <1>1, <1>3, FinishWent
<1> QED
  BY <1>2, <1>4, <1>5, QuietWent DEF Unclaimed, Moves

LEMMA CallRequest ==
    ASSUME JobsKept, NEW t \in Time, NEW project \in Projects, NEW kind \in {"trust", "apply"},
           JobRequest(JobsTicked(JobsAt(gate, t)), project, kind)
    PROVE  JobsWent({}) /\ Muted(jobEvents, jobEvents')
<1> DEFINE j == JobsAt(gate, t)
           k == JobsTicked(j)
<1>1. /\ Good(k, nextId, claims) /\ Continues(entries, k.entries) /\ Silent(j, k)
      /\ j.entries = entries /\ j.events = jobEvents /\ JobsInv
  BY CallGood
<1>2. nextId \in Nat /\ claims' = claims /\ nextId' \in {nextId, nextId + 1}
  BY 0 \in Nat, ReadingGood DEF JobsKept, JobRequest, JobsQuiet, AllocateId
<1> HIDE DEF k, j
<1>3. JobRequest(k, project, kind)
  BY DEF k, j
<1>4. JobsInv'
  BY <1>1, <1>3, RequestInv
<1>5. /\ \A f \in entries' : \/ f.id = nextId /\ f.state = "queued"
                             \/ \E e \in k.entries : Passed(e, f, {})
      /\ Muted(k.events, jobEvents')
  BY <1>1, <1>3, RequestWent
<1>6. Evolved({})
  <2>1. ASSUME NEW f, NEW e \in k.entries, Passed(e, f, {})
        PROVE  \E d \in entries : Passed(d, f, {})
    <3>1. PICK d \in entries : Passed(d, e, {})
      BY <1>1 DEF Silent, Passing
    <3> QED
      BY <2>1, <3>1, PassedOn DEF Moves
  <2> QED
    BY <1>5, <2>1 DEF Evolved
<1>7. Muted(jobEvents, jobEvents')
  BY <1>1, <1>5 DEF Silent, Muted
<1>8. JobsKept'
  BY <1>2, <1>4, <1>6, KeptOn DEF Unclaimed, Moves
<1> QED
  BY <1>2, <1>6, <1>7, <1>8 DEF JobsWent
----------------------------------------------------------------------------
(* Each step of the daemon and of `untrust` keeps what the registry says.  *)

\* What RecordsReplaceTheirBaseline asks of a step.
Replaces ==
    \A p \in Projects :
        LET new == registry'[p] IN
        new # None /\ new # registry[p] =>
            \E c \in claims :
                /\ c.id = new.job /\ c.scope.kind = "trust" /\ c.scope.project = p
                /\ c.scope.candidate = new.digest /\ c.scope.schema = new.schema
                /\ c.scope.baseline = DigestOf(registry[p])

TrustWent(moves) == TrustInv' /\ JobsWent(moves) /\ Replaces

LEMMA WentTyped ==
    ASSUME NEW r \in [Projects -> TrustRecords \cup {None}]
    PROVE  [p \in Projects |-> IF r[p] = None THEN None
                               ELSE [digest |-> r[p].digest, schema |-> r[p].schema]]
              \in [Projects -> Revisions \cup {None}]
BY DEF TrustRecords, Revisions

LEMMA WiderMoves ==
    ASSUME NEW moves, JobsWent({})
    PROVE  JobsWent(moves)
<1> SUFFICES ASSUME NEW e, NEW f, Passed(e, f, {}) PROVE Passed(e, f, moves)
  BY DEF JobsWent, Evolved
<1> QED
  BY DEF Passed

LEMMA FaultTyped ==
    ASSUME TrustInv, Fault \/ faults' = faults
    PROVE  faults' \in 0..MaxFaults
BY TrustAssumption DEF TrustInv, RegistryKept, Fault

\* A call that leaves the registry alone.
LEMMA CallKept ==
    ASSUME TrustInv, NEW moves, JobsWent(moves), UNCHANGED registryPart,
           UNCHANGED ledgerFailed \/ ledgerFailed' = TRUE, faults' \in 0..MaxFaults
    PROVE  TrustWent(moves)
<1>2. ledgerFailed' \in BOOLEAN /\ (ledgerFailed => ledgerFailed')
  BY Zenon DEF TrustInv, RegistryKept
<1>3. /\ registry' = registry /\ trusted' = trusted /\ trustLines' = trustLines
      /\ untrusting' = untrusting /\ up' = up
  BY DEF registryPart
<1>4. RecordsAreAudited'
  BY <1>2, <1>3, Zenon DEF TrustInv, RegistryKept, RecordsAreAudited
<1>5. TrustedNow' = TrustedNow
  BY <1>3 DEF TrustedNow
<1>6. RegistryKept'
  BY <1>2, <1>3, <1>4, <1>5 DEF TrustInv, RegistryKept
<1>7. Replaces
  BY <1>3 DEF Replaces
<1> QED
  BY <1>6, <1>7 DEF TrustWent, TrustInv, JobsWent

\* The jobs are left as they are.
LEMMA JobsUntouched ==
    ASSUME JobsKept, UNCHANGED jobsPart, trusted' \in [Projects -> Revisions \cup {None}]
    PROVE  JobsWent({}) /\ Muted(jobEvents, jobEvents')
<1>1. /\ gate' = gate /\ nextId' = nextId /\ jobsHighWater' = jobsHighWater
      /\ entries' = entries /\ jobEvents' = jobEvents /\ claims' = claims
  BY DEF jobsPart
<1>2. JobsInv'
  BY <1>1 DEF JobsKept, JobsInv, Held
<1>3. Passing(entries, entries', {}) /\ Muted(jobEvents, jobEvents')
  BY <1>1, StaysPassed DEF Passing, Muted
<1> QED
  BY <1>1, <1>2, <1>3, QuietWent

\* A daemon that goes down.
LEMMA ForgottenWent ==
    ASSUME JobsKept, Forgotten, trusted' \in [Projects -> Revisions \cup {None}]
    PROVE  JobsWent({}) /\ Muted(jobEvents, jobEvents')
<1>1. /\ gate' = EmptyGate /\ jobsHighWater' = 0 /\ entries' = {}
      /\ nextId' = nextId /\ jobEvents' = jobEvents /\ claims' = claims
  BY DEF Forgotten
<1>2. /\ Held.now = jobsHighWater /\ Held.entries = entries
      /\ Held.gate = gate /\ Held.events = jobEvents
      /\ Held'.now = 0 /\ Held'.entries = {}
      /\ Held'.gate = EmptyGate /\ Held'.events = jobEvents
  BY <1>1 DEF Held
<1>3. Good(Held, nextId, claims) /\ Held \in JobRecords
  BY GoodParts DEF JobsKept, JobsInv
<1>4. Held' \in JobRecords
  <2>1. EmptyGate \in Gates /\ jobEvents \subseteq JobLines
    BY <1>2, <1>3 DEF EmptyGate, Gates, JobRecords
  <2> QED
    BY <1>1, <2>1 DEF Held, JobRecords
<1>5. JTyped(Held', nextId, claims) /\ OneEach(Held', nextId) /\ Told(Held', nextId)
  BY <1>2, <1>3, <1>4 DEF Good, JTyped, OneEach, Told
<1>6. JSlotted(Held')
  BY <1>2 DEF JSlotted, Holders, HoldOf, EmptyGate
<1>7. HandedOut(Held', nextId, claims)
  BY <1>2, <1>3 DEF Good, HandedOut
<1>8. JobsInv'
  BY <1>1, <1>5, <1>6, <1>7 DEF JobsInv, Good
<1>9. Passing(entries, entries', {}) /\ Muted(jobEvents, jobEvents')
  BY <1>1 DEF Passing, Muted
<1> QED
  BY <1>1, <1>8, <1>9, QuietWent

\* The new lines say nothing, or that job `id` was trusted.
OnlyTrusted(id) ==
    /\ jobEvents \subseteq jobEvents'
    /\ \A l \in jobEvents' : \/ l \in jobEvents \/ l.kind \notin Reported
                             \/ l.kind = "trusted" /\ l.id = id

LEMMA MutedOnly ==
    ASSUME NEW id, Muted(jobEvents, jobEvents')
    PROVE  OnlyTrusted(id)
BY DEF Muted, OnlyTrusted

\* A claimed job ends as trusted or refused, or is left as it is.
LEMMA ClaimedEnds ==
    ASSUME JobsKept, NEW t \in Time, NEW e \in entries, e.state = "claimed",
           NEW result \in {"trusted", "refused"},
           Leaves(Ended(JobsAt(gate, t), e, result, result)), UNCHANGED <<nextId, claims>>,
           trusted' \in [Projects -> Revisions \cup {None}]
    PROVE  /\ JobsWent({}) /\ OnlyTrusted(e.id)
           /\ result = "refused" => Muted(jobEvents, jobEvents')
           /\ entries' = (entries \ {e}) \cup {Settled(e, result, JobsAt(gate, t).now)}
<1> DEFINE j == JobsAt(gate, t)
           k == Ended(j, e, result, result)
<1>1. /\ Good(j, nextId, claims) /\ Continues(entries, j.entries) /\ j.entries = entries
      /\ j.events = jobEvents /\ JobsInv
  BY CallGood
<1>2. /\ result \in Results /\ LineOf(result) = result /\ result \notin Never
      /\ result \in OutcomeLines /\ (result = "refused" => result \notin Reported)
      /\ e.state \in Active /\ e.state \notin HoldsSlot
  BY DEF Results, LineOf, Never, OutcomeLines, Reported, Active, HoldsSlot
<1> HIDE DEF j
<1>3. /\ Good(k, nextId, claims) /\ Continues(entries, k.entries)
      /\ Passing(j.entries, k.entries, {}) /\ (result = "refused" => Silent(j, k))
      /\ k.events = j.events \cup {JobLine(result, e, j.now)}
      /\ k.entries = (j.entries \ {e}) \cup {Settled(e, result, j.now)}
  <2>1. Good(k, nextId, claims) /\ Continues(entries, k.entries)
    BY <1>1, <1>2, EndedGood
  <2>2. /\ Passing(j.entries, k.entries, {}) /\ (result = "refused" => Silent(j, k))
        /\ k.events = j.events \cup {JobLine(result, e, j.now)}
    BY <1>1, <1>2, EndedSilent
  <2>3. k.entries = (j.entries \ {e}) \cup {Settled(e, result, j.now)}
    BY <1>1, GoodParts, MovedParts DEF Ended
  <2> QED
    BY <2>1, <2>2, <2>3
<1>4. Leaves(k)
  BY DEF j
<1> HIDE DEF k
<1>5. JobsInv'
  BY <1>3, <1>4, LeavesInv
<1>6. /\ Passing(entries, entries', {}) /\ (result = "refused" => Muted(jobEvents, jobEvents'))
      /\ entries' = (entries \ {e}) \cup {Settled(e, result, j.now)}
  BY <1>1, <1>3, <1>4 DEF Silent, Leaves
<1>7. OnlyTrusted(e.id)
  BY <1>1, <1>2, <1>3, <1>4 DEF OnlyTrusted, Leaves, JobLine, Reported
<1> QED
  BY <1>5, <1>6, <1>7, QuietWent DEF j

LEMMA JobsLeft ==
    ASSUME JobsKept, NEW t \in Time, Leaves(JobsAt(gate, t)), UNCHANGED <<nextId, claims>>,
           trusted' \in [Projects -> Revisions \cup {None}]
    PROVE  JobsWent({}) /\ Muted(jobEvents, jobEvents')
<1> DEFINE j == JobsAt(gate, t)
<1>1. /\ Good(j, nextId, claims) /\ Continues(entries, j.entries) /\ j.entries = entries
      /\ j.events = jobEvents /\ JobsInv /\ Silent(j, j)
  BY CallGood
<1> HIDE DEF j
<1>2. JobsInv'
  BY <1>1, LeavesInv DEF j
<1>3. Passing(entries, entries', {}) /\ Muted(jobEvents, jobEvents')
  BY <1>1 DEF Silent, Leaves, j
<1> QED
  BY <1>2, <1>3, QuietWent

\* The record of a claimed trust job.
LEMMA ClaimedRecord ==
    ASSUME TrustInv, NEW p \in Projects, NEW id, NEW e \in ClaimedTrust(id), e.project = p
    PROVE  /\ e \in entries /\ e.state = "claimed" /\ e.id = id /\ RecordOf(e).job = id
           /\ RecordOf(e) \in TrustRecords
           /\ \E c \in claims :
                 /\ c.id = id /\ c.scope = e.scope
                 /\ c.scope.kind = "trust" /\ c.scope.project = p
                 /\ c.scope.candidate = RecordOf(e).digest /\ c.scope.schema = RecordOf(e).schema
<1>1. e \in entries /\ e.id = id /\ e.kind = "trust" /\ e.state = "claimed"
  BY DEF ClaimedTrust
<1>2. PICK c \in claims : c.id = e.id /\ c.scope = e.scope
  BY <1>1 DEF TrustInv, JobsKept, ClaimsHeld
<1>3. e.scope.kind = "trust" /\ e.scope.project = p
  BY <1>1 DEF TrustInv, JobsKept, ScopesFit
<1>4. c.scope \in JobScopes /\ c.id \in Nat
  <2>1. claims \subseteq ClaimSet
    BY GoodParts DEF TrustInv, JobsKept, JobsInv
  <2> QED
    BY <2>1 DEF ClaimSet
<1>5. e.scope \in TrustScopes
  BY <1>2, <1>3, <1>4 DEF JobScopes, ApplyScopes
<1>6. e.scope.candidate \in Digests /\ e.scope.schema \in Schemas
  BY <1>5 DEF TrustScopes
<1> QED
  BY <1>1, <1>2, <1>3, <1>4, <1>6 DEF RecordOf, TrustRecords

\* A new registry: what it needs to be kept, and to replace what was shown.
LEMMA Registered ==
    ASSUME TrustInv, NEW records \in [Projects -> TrustRecords \cup {None}], Registers(records),
           trustLines' \in SUBSET TrustLines, untrusting' \in SUBSET TrustLines,
           up' \in BOOLEAN, ledgerFailed' \in BOOLEAN, faults' \in 0..MaxFaults,
           JobsWent({}), RecordsAreAudited', Replaces
    PROVE  TrustWent({})
<1>1. RegistryKept'
  BY DEF RegistryKept, Registers
<1> QED
  BY <1>1 DEF TrustWent, TrustInv, JobsWent

LEMMA RegistersTyped ==
    ASSUME NEW records \in [Projects -> TrustRecords \cup {None}], Registers(records)
    PROVE  registry' = records /\ trusted' \in [Projects -> Revisions \cup {None}]
BY WentTyped DEF Registers, TrustedNow

\* runner_finish of a `trusted` result, whatever comes of it.
LEMMA FinishTrustedWent ==
    ASSUME TrustInv, NEW t \in Time,
           FinishTrusted(t, Project, unreported.id,
                         Stage("delivered"), Stage("status"), UNCHANGED unreported)
    PROVE  /\ TrustWent({}) /\ OnlyTrusted(unreported.id)
           /\ Stage("delivered") \/ Stage("status") \/ UNCHANGED unreported
<1> DEFINE p == Project
           id == unreported.id
           j == JobsAt(gate, t)
           claimed == {e \in ClaimedTrust(id) : e.project = p}
           line == TrustLine("trusted", p, id)
           said == Stage("delivered") \/ Stage("status") \/ UNCHANGED unreported
           still == UNCHANGED ledgerFailed \/ ledgerFailed' = TRUE
           fails == Fault \/ faults' = faults
           with(e) == [registry EXCEPT ![p] = RecordOf(e)]
           goal == TrustWent({}) /\ OnlyTrusted(id)
<1>p. p \in Projects /\ JobsKept
  BY RunnerAssumption DEF TrustInv
<1>r. registry \in [Projects -> TrustRecords \cup {None}]
  BY DEF TrustInv, RegistryKept
<1>t. UNCHANGED registryPart => trusted' \in [Projects -> Revisions \cup {None}]
  BY <1>p DEF registryPart, JobsKept, JobsInv
<1>1. said
  BY Zenon DEF FinishTrusted
<1>2. ASSUME \/ UNCHANGED trustVars
             \/ UNCHANGED <<jobsPart, registryPart>> /\ still /\ fails
      PROVE  goal
  <2>1. UNCHANGED <<jobsPart, registryPart>> /\ still /\ fails
    BY <1>2, Zenon DEF trustVars
  <2>2. JobsWent({}) /\ Muted(jobEvents, jobEvents')
    BY <1>p, <1>t, <2>1, JobsUntouched
  <2>3. TrustWent({})
    BY <2>1, <2>2, FaultTyped, CallKept
  <2> QED
    BY <2>2, <2>3, MutedOnly
<1>3. ASSUME Leaves(j), UNCHANGED <<nextId, claims, registryPart>>, still, fails
      PROVE  goal
  <2>1. JobsWent({}) /\ Muted(jobEvents, jobEvents')
    BY <1>p, <1>t, <1>3, JobsLeft
  <2>2. TrustWent({})
    BY <1>3, <2>1, FaultTyped, CallKept
  <2> QED
    BY <2>1, <2>2, MutedOnly
<1>4. ASSUME NEW e \in claimed, Leaves(Ended(j, e, "refused", "refused")),
             UNCHANGED <<nextId, claims, registryPart>>, still, fails
      PROVE  goal
  <2>1. e \in entries /\ e.state = "claimed"
    BY <1>p, ClaimedRecord
  <2>2. JobsWent({}) /\ Muted(jobEvents, jobEvents')
    BY <1>p, <1>t, <1>4, <2>1, ClaimedEnds
  <2>3. TrustWent({})
    BY <1>4, <2>2, FaultTyped, CallKept
  <2> QED
    BY <2>2, <2>3, MutedOnly
\* The registry is written: for good, for a while, or by a daemon that dies.
<1>5. ASSUME NEW e \in claimed, NEW records, Registers(records),
             ~BaselineMoved(e), records \in {with(e), registry, [registry EXCEPT ![p] = None]},
             trustLines' \in {trustLines, trustLines \cup {line}},
             up' \in BOOLEAN,
             untrusting' \in {untrusting, untrusting \cup {TrustLine("untrusted", e.project, e.id)}},
             ledgerFailed' \in BOOLEAN, faults' \in 0..MaxFaults,
             RecordsAreAudited', JobsWent({})
      PROVE  TrustWent({})
  <2>1. /\ e \in entries /\ e.id = id /\ RecordOf(e).job = id /\ RecordOf(e) \in TrustRecords
        /\ \E c \in claims :
              /\ c.id = id /\ c.scope = e.scope
              /\ c.scope.kind = "trust" /\ c.scope.project = p
              /\ c.scope.candidate = RecordOf(e).digest /\ c.scope.schema = RecordOf(e).schema
    BY <1>p, ClaimedRecord
  <2>2. records \in [Projects -> TrustRecords \cup {None}]
    BY <1>5, <1>p, <1>r, <2>1
  <2>3. registry' = records
    BY <1>5 DEF Registers
  <2>4. DigestOf(registry[p]) = e.scope.baseline
    BY <1>5 DEF BaselineMoved
  <2>5. Replaces
    <3> SUFFICES ASSUME NEW q \in Projects, registry'[q] # None, registry'[q] # registry[q]
                 PROVE  \E c \in claims :
                           /\ c.id = registry'[q].job /\ c.scope.kind = "trust"
                           /\ c.scope.project = q
                           /\ c.scope.candidate = registry'[q].digest
                           /\ c.scope.schema = registry'[q].schema
                           /\ c.scope.baseline = DigestOf(registry[q])
      BY DEF Replaces
    <3>1. q = p /\ registry'[q] = RecordOf(e)
      BY <1>5, <1>p, <1>r, <2>3
    <3> QED
      BY <2>1, <2>4, <3>1
  <2>6. e.project = p /\ id \in Nat
    <3>1. entries \subseteq Entries
      BY <1>p, CallGood, GoodParts DEF JobsKept, JobsInv, Held
    <3> QED
      BY <2>1, <3>1 DEF Entries
  <2>7. line \in TrustLines /\ TrustLine("untrusted", p, id) \in TrustLines
    BY <1>p, <2>6 DEF TrustLine, TrustLines
  <2>8. trustLines' \in SUBSET TrustLines /\ untrusting' \in SUBSET TrustLines
    BY <1>5, <2>1, <2>6, <2>7 DEF TrustInv, RegistryKept
  <2> QED
    BY <1>5, <2>2, <2>5, <2>8, Registered
<1>6. ASSUME NEW e \in claimed, Serves(TRUE), ~BaselineMoved(e),
             Leaves(Ended(j, e, "trusted", "trusted")), Registers(with(e)),
             trustLines' = trustLines \cup {line},
             UNCHANGED <<nextId, claims, untrusting, up, ledgerFailed>>, fails
      PROVE  goal
  <2>1. e \in entries /\ e.state = "claimed" /\ e.id = id /\ RecordOf(e).job = id
        /\ RecordOf(e) \in TrustRecords
    BY <1>p, ClaimedRecord
  <2>2. with(e) \in [Projects -> TrustRecords \cup {None}]
    BY <1>p, <1>r, <2>1
  <2>3. registry' = with(e) /\ trusted' \in [Projects -> Revisions \cup {None}]
    BY <1>6, <2>2, RegistersTyped
  <2>4. JobsWent({}) /\ OnlyTrusted(id)
    BY <1>p, <1>6, <2>1, <2>3, ClaimedEnds
  <2>5. RecordsAreAudited'
    <3>1. \A q \in Projects : q # p => registry'[q] = registry[q]
      BY <1>r, <2>3
    <3>2. registry'[p] = RecordOf(e)
      BY <1>p, <1>r, <2>3
    <3>3. \A q \in Projects : registry[q] # None =>
             TrustLine("trusted", q, registry[q].job) \in trustLines
      BY <1>6 DEF TrustInv, RegistryKept, RecordsAreAudited, Serves
    <3> HIDE DEF with
    <3> QED
      BY <1>6, <2>1, <3>1, <3>2, <3>3, Zenon DEF RecordsAreAudited
  <2>6. up' \in BOOLEAN /\ ledgerFailed' \in BOOLEAN /\ faults' \in 0..MaxFaults
    BY <1>6, FaultTyped DEF TrustInv, RegistryKept
  <2>7. TrustWent({})
    BY <1>5, <1>6, <2>4, <2>5, <2>6
  <2> QED
    BY <2>4, <2>7
<1>7. ASSUME NEW e \in claimed, ~BaselineMoved(e), faults < MaxFaults,
             Reopened(j), trustLines' \in {trustLines, trustLines \cup {line}},
             UndoTrust(e), ledgerFailed' = TRUE, UNCHANGED <<nextId, claims, up>>
      PROVE  goal
  <2>1. \E records \in {with(e), registry, [registry EXCEPT ![p] = None]} : Registers(records)
    <3>1. e.project = p
      OBVIOUS
    <3>2. \/ UNCHANGED <<registry, trusted>> \/ Registers(with(e))
          \/ Registers([registry EXCEPT ![p] = None])
      BY <1>7, <3>1, Zenon DEF UndoTrust
    <3>3. UNCHANGED <<registry, trusted>> => Registers(registry)
      BY DEF Registers, TrustedNow, TrustInv, RegistryKept
    <3> QED
      BY <3>2, <3>3
  <2>2. PICK records \in {with(e), registry, [registry EXCEPT ![p] = None]} : Registers(records)
    BY <2>1
  <2>3. RecordOf(e) \in TrustRecords
    BY <1>p, ClaimedRecord
  <2>4. records \in [Projects -> TrustRecords \cup {None}]
    BY <1>p, <1>r, <2>2, <2>3
  <2>5. trusted' \in [Projects -> Revisions \cup {None}]
    BY <2>2, <2>4, RegistersTyped
  <2>6. JobsWent({}) /\ Muted(jobEvents, jobEvents')
    BY <1>p, <1>7, <2>5, JobsLeft DEF Reopened
  <2>7. RecordsAreAudited'
    BY <1>7 DEF RecordsAreAudited
  <2>8. faults' \in 0..MaxFaults
    BY <1>7, TrustAssumption DEF UndoTrust, TrustInv, RegistryKept
  <2>9. untrusting' \in {untrusting, untrusting \cup {TrustLine("untrusted", e.project, e.id)}}
    BY <1>7 DEF UndoTrust
  <2>10. up' \in BOOLEAN /\ ledgerFailed' \in BOOLEAN
    BY <1>7 DEF TrustInv, RegistryKept
  <2>11. TrustWent({})
    BY <1>5, <1>7, <2>2, <2>6, <2>7, <2>8, <2>9, <2>10
  <2> QED
    BY <2>6, <2>11, MutedOnly
<1>8. ASSUME NEW e \in claimed, ~BaselineMoved(e), Fault, Forgotten, up' = FALSE,
             ledgerFailed' = FALSE, Registers(with(e)),
             trustLines' \in {trustLines, trustLines \cup {line}}, UNCHANGED untrusting
      PROVE  goal
  <2>1. RecordOf(e) \in TrustRecords
    BY <1>p, ClaimedRecord
  <2>2. with(e) \in [Projects -> TrustRecords \cup {None}]
    BY <1>p, <1>r, <2>1
  <2>3. trusted' \in [Projects -> Revisions \cup {None}]
    BY <1>8, <2>2, RegistersTyped
  <2>4. JobsWent({}) /\ Muted(jobEvents, jobEvents')
    BY <1>p, <1>8, <2>3, ForgottenWent
  <2>5. RecordsAreAudited' /\ up' \in BOOLEAN /\ ledgerFailed' \in BOOLEAN
    BY <1>8 DEF RecordsAreAudited
  <2>6. faults' \in 0..MaxFaults
    BY <1>8, FaultTyped
  <2>7. TrustWent({})
    BY <1>5, <1>8, <2>4, <2>5, <2>6
  <2> QED
    BY <2>4, <2>7, MutedOnly
<1>9. goal
  <2> HIDE DEF goal, j, with, line, id, p, claimed
  <2>1. FinishTrusted(t, p, id, Stage("delivered"), Stage("status"), UNCHANGED unreported)
    BY DEF p, id
  <2>2. \/ UNCHANGED trustVars \/ (UNCHANGED <<jobsPart, registryPart>> /\ still /\ fails)
        \/ Leaves(j) /\ UNCHANGED <<nextId, claims, registryPart>> /\ still /\ fails
        \/ \E e \in claimed :
              \/ /\ Leaves(Ended(j, e, "refused", "refused"))
                 /\ UNCHANGED <<nextId, claims, registryPart>> /\ still /\ fails
              \/ /\ Serves(TRUE) /\ ~BaselineMoved(e)
                 /\ Leaves(Ended(j, e, "trusted", "trusted")) /\ Registers(with(e))
                 /\ trustLines' = trustLines \cup {line}
                 /\ UNCHANGED <<nextId, claims, untrusting, up, ledgerFailed>> /\ fails
              \/ /\ ~BaselineMoved(e) /\ faults < MaxFaults /\ Reopened(j)
                 /\ trustLines' \in {trustLines, trustLines \cup {line}}
                 /\ UndoTrust(e) /\ ledgerFailed' = TRUE /\ UNCHANGED <<nextId, claims, up>>
              \/ /\ ~BaselineMoved(e) /\ Fault /\ Forgotten /\ up' = FALSE
                 /\ ledgerFailed' = FALSE /\ Registers(with(e))
                 /\ trustLines' \in {trustLines, trustLines \cup {line}}
                 /\ UNCHANGED untrusting
    <3> DEFINE fin == FinishTrusted(t, p, id, Stage("delivered"), Stage("status"),
                                    UNCHANGED unreported)
    <3> QED
      BY <2>1, Zenon DEF FinishTrusted, j, with, line, claimed
  <2> QED
    BY <1>2, <1>3, <1>4, <1>6, <1>7, <1>8, <2>2
<1> QED
  BY <1>1, <1>9

\* What others than the runners do.
LEMMA OthersWent ==
    ASSUME TrustInv, TrustOthers
    PROVE  TrustWent({<<"waiting", "approved">>}) /\ Muted(jobEvents, jobEvents')
<1> DEFINE moves == {<<"waiting", "approved">>}
           goal == TrustWent(moves) /\ Muted(jobEvents, jobEvents')
           still == UNCHANGED ledgerFailed \/ ledgerFailed' = TRUE
           fails == Fault \/ faults' = faults
           served == UNCHANGED registryPart /\ still /\ fails
<1>k. JobsKept
  BY DEF TrustInv
<1>r. /\ registry \in [Projects -> TrustRecords \cup {None}]
      /\ trustLines \in SUBSET TrustLines /\ untrusting \in SUBSET TrustLines
      /\ up \in BOOLEAN /\ ledgerFailed \in BOOLEAN /\ faults \in 0..MaxFaults
  BY DEF TrustInv, RegistryKept
<1>1. ASSUME served, JobsWent(moves) \/ JobsWent({})
      PROVE  TrustWent(moves)
  BY <1>1, WiderMoves, FaultTyped, CallKept
<1>2. ASSUME TrustWent({}), JobsWent({})
      PROVE  TrustWent(moves)
  BY <1>2, WiderMoves DEF TrustWent
<1>3. ASSUME NEW t \in Readings, NEW p \in Projects, NEW kind \in {"trust", "apply"},
             FileJob(t, p, kind)
      PROVE  goal
  <2>1. served /\ JobRequest(JobsTicked(JobsAt(gate, t)), p, kind)
    BY <1>3, Zenon DEF FileJob, Serve
  <2>2. t \in Time
    BY DEF Readings
  <2>3. JobsWent({}) /\ Muted(jobEvents, jobEvents')
    BY <1>k, <2>1, <2>2, CallRequest
  <2> QED
    BY <1>1, <2>1, <2>3
<1>4. ASSUME NEW t \in Readings, NEW e \in entries, ApproveJob(t, e) \/ DeclineJob(t, e.id)
      PROVE  goal
  <2>1. served
    BY <1>4, Zenon DEF ApproveJob, DeclineJob, Serve
  <2>2. t \in Time
    BY DEF Readings
  <2>3. \/ JobApprove(JobsAt(gate, t), e.id, e.id, e.scope)
        \/ JobDecline(JobsTicked(JobsAt(gate, t)), e.id)
    BY <1>4, Zenon DEF ApproveJob, DeclineJob, Serve
  <2>4. (JobsWent(moves) \/ JobsWent({})) /\ Muted(jobEvents, jobEvents')
    BY <1>k, <2>2, <2>3, QuietCalls
  <2> QED
    BY <1>1, <2>1, <2>4
<1>5. ASSUME NEW t \in Readings, ShowStatus(t) \/ \E p \in Projects : KillProject(t, p)
      PROVE  goal
  <2>1. served
    BY <1>5, Zenon DEF KillProject, ShowStatus, Serve
  <2>2. t \in Time
    BY DEF Readings
  <2>3. JobTick(JobsAt(gate, t)) \/ \E p \in Projects : JobKill(JobsAt(gate, t), p)
    BY <1>5, Zenon DEF KillProject, ShowStatus, Serve
  <2>4. JobsWent({}) /\ Muted(jobEvents, jobEvents')
    BY <1>k, <2>2, <2>3, QuietCalls
  <2> QED
    BY <1>1, <2>1, <2>4
<1>6. ASSUME NEW p \in Projects, Untrust(p)
      PROVE  goal
  <2> DEFINE records == [registry EXCEPT ![p] = None]
             line == TrustLine("untrusted", p, registry[p].job)
  <2>1. records \in [Projects -> TrustRecords \cup {None}] /\ Registers(records)
    BY <1>r, <1>6 DEF Untrust
  <2>2. registry' = records /\ trusted' \in [Projects -> Revisions \cup {None}]
    BY <2>1, RegistersTyped
  <2>3. UNCHANGED <<jobsPart, trustLines, up, ledgerFailed, faults>>
    BY <1>6 DEF Untrust
  <2>4. JobsWent({}) /\ Muted(jobEvents, jobEvents')
    BY <1>k, <2>2, <2>3, JobsUntouched
  <2>5. untrusting' \in SUBSET TrustLines
    <3>1. registry[p] \in TrustRecords
      BY <1>r, <1>6 DEF Untrust
    <3>2. line \in TrustLines
      BY <3>1 DEF TrustRecords, TrustLine, TrustLines
    <3>3. untrusting' = untrusting \cup {line}
      BY <1>6 DEF Untrust
    <3> QED
      BY <1>r, <3>2, <3>3
  <2>6. \A q \in Projects : registry'[q] \in {registry[q], None}
    BY <1>r, <2>2
  <2>7. Replaces
    BY <2>6 DEF Replaces
  <2>8. RecordsAreAudited'
    BY <2>3, <2>6, Zenon DEF TrustInv, RegistryKept, RecordsAreAudited
  <2>9. TrustWent({})
    BY <1>r, <2>1, <2>3, <2>4, <2>5, <2>7, <2>8, Registered
  <2> QED
    BY <1>2, <2>4, <2>9
<1>7. ASSUME NEW l \in untrusting, UntrustLine(l)
      PROVE  goal
  <2>1. /\ UNCHANGED jobsPart /\ registry' = registry /\ trusted' = trusted /\ up' = up
        /\ ledgerFailed' = ledgerFailed /\ untrusting' = untrusting \ {l} /\ fails
        /\ trustLines' \in {trustLines, trustLines \cup {l}}
    BY <1>7 DEF UntrustLine
  <2>2. Registers(registry)
    BY <2>1 DEF Registers, TrustedNow, TrustInv, RegistryKept
  <2>3. trusted' \in [Projects -> Revisions \cup {None}]
    BY <1>r, <2>2, RegistersTyped
  <2>4. JobsWent({}) /\ Muted(jobEvents, jobEvents')
    BY <1>k, <2>1, <2>3, JobsUntouched
  <2>5. faults' \in 0..MaxFaults
    BY <2>1, FaultTyped
  <2>6. trustLines' \in SUBSET TrustLines /\ untrusting' \in SUBSET TrustLines
    BY <1>r, <2>1
  <2>7. Replaces
    BY <2>1 DEF Replaces
  <2>8. RecordsAreAudited'
    BY <2>1, Zenon DEF TrustInv, RegistryKept, RecordsAreAudited
  <2>9. TrustWent({})
    BY <1>r, <2>1, <2>2, <2>4, <2>5, <2>6, <2>7, <2>8, Registered
  <2> QED
    BY <1>2, <2>4, <2>9
<1>8. ASSUME DaemonDown
      PROVE  goal
  <2>1. /\ Forgotten /\ registry' = registry /\ trusted' = trusted /\ up' = FALSE
        /\ ledgerFailed' = FALSE /\ untrusting' = untrusting /\ trustLines' = trustLines
        /\ fails
    BY <1>8, Zenon DEF DaemonDown
  <2>2. Registers(registry)
    BY <2>1 DEF Registers, TrustedNow, TrustInv, RegistryKept
  <2>3. trusted' \in [Projects -> Revisions \cup {None}]
    BY <1>r, <2>2, RegistersTyped
  <2>4. JobsWent({}) /\ Muted(jobEvents, jobEvents')
    BY <1>k, <2>1, <2>3, ForgottenWent
  <2>5. faults' \in 0..MaxFaults
    BY <2>1, FaultTyped
  <2>6. Replaces /\ RecordsAreAudited'
    BY <2>1 DEF Replaces, RecordsAreAudited
  <2>7. TrustWent({})
    BY <1>r, <2>1, <2>2, <2>4, <2>5, <2>6, Registered
  <2> QED
    BY <1>2, <2>4, <2>7
<1>9. ASSUME DaemonBoot
      PROVE  goal
  <2>1. Reconciled \in [Projects -> TrustRecords \cup {None}] /\ Registers(Reconciled)
    BY <1>r, <1>9 DEF DaemonBoot, Reconciled
  <2>2. registry' = Reconciled /\ trusted' \in [Projects -> Revisions \cup {None}]
    BY <2>1, RegistersTyped
  <2>3. UNCHANGED <<jobsPart, trustLines, untrusting, ledgerFailed, faults>> /\ up' = TRUE
    BY <1>9 DEF DaemonBoot
  <2>4. JobsWent({}) /\ Muted(jobEvents, jobEvents')
    BY <1>k, <2>2, <2>3, JobsUntouched
  <2>5. \A q \in Projects :
           /\ registry'[q] \in {registry[q], None}
           /\ registry'[q] # None => TrustLine("trusted", q, registry'[q].job) \in trustLines'
    BY <2>2, <2>3 DEF Reconciled
  <2>6. Replaces /\ RecordsAreAudited'
    BY <2>5, Zenon DEF Replaces, RecordsAreAudited
  <2>7. TrustWent({})
    BY <1>r, <2>1, <2>3, <2>4, <2>6, Registered
  <2> QED
    BY <1>2, <2>4, <2>7
<1> QED
  BY <1>3, <1>4, <1>5, <1>6, <1>7, <1>8, <1>9 DEF TrustOthers

LEMMA TrustStarts ==
    ASSUME TrustInit
    PROVE  TrustInv
<1>1. /\ registry \in [Projects -> TrustRecords \cup {None}] /\ trusted = TrustedNow
      /\ trustLines = {TrustLine("trusted", p, 0) : p \in {q \in Projects : registry[q] # None}}
      /\ \A p \in Projects : registry[p] # None => registry[p].job = 0
      /\ gate = EmptyGate /\ nextId = 1 /\ jobsHighWater = 0 /\ entries = {}
      /\ jobEvents = {} /\ claims = {}
      /\ untrusting = {} /\ up = TRUE /\ ledgerFailed = FALSE /\ faults = 0
  BY DEF TrustInit, TrustRecords
<1>2. trusted \in [Projects -> Revisions \cup {None}]
  BY <1>1, WentTyped DEF TrustedNow
<1>3. JobsInv
  BY <1>1, <1>2, InitInv DEF JobsInit
<1>4. ClaimsHeld /\ ScopesFit
  BY <1>1 DEF ClaimsHeld, ScopesFit
<1>5. RecordsAreAudited
  BY <1>1 DEF RecordsAreAudited
<1>6. trustLines \subseteq TrustLines /\ untrusting \subseteq TrustLines
  BY <1>1 DEF TrustLine, TrustLines
<1>7. up \in BOOLEAN /\ ledgerFailed \in BOOLEAN
  BY <1>1
<1>8. faults \in 0..MaxFaults
  BY <1>1, TrustAssumption
<1> QED
  BY <1>1, <1>3, <1>4, <1>5, <1>6, <1>7, <1>8 DEF TrustInv, JobsKept, RegistryKept

----------------------------------------------------------------------------
(* The runner's side.  What it has in hand (a job it plans, a scope it     *)
(* submitted), what it has still to report and what its journal says, each *)
(* against the jobs, the claims and the history of Terraform.              *)

PCs == {"down", "step", "work", "refuse", "check", "approved", "orphan", "execute"}
Runs == [id: Nat, tree: Trees, outcome: ApplyOutcomes]

\* A job that is no longer queued, in entries es of ids below n.
Started(id, es, n) == id \in Nat /\ id < n /\ \A e \in es : e.id = id => e.state # "queued"
\* A job being planned: nobody was asked about it.
Plans(id, what, es, n, cs) ==
    /\ Started(id, es, n)
    /\ \A e \in es : e.id = id => e.state \in {"working", "done"} /\ e.kind = what
    /\ \A c \in cs : c.id # id
\* A job whose scope was submitted, or is on its way.
Waits(id, sc, es, n, cs) ==
    /\ Started(id, es, n)
    /\ \A e \in es : e.id = id =>
          /\ e.kind = sc.kind
          /\ e.state \in {"waiting", "approved", "claimed"} => e.scope = sc
    /\ \A c \in cs : c.id = id => c.scope = sc
\* Terraform never ran for a job.
Unrun(id, runs) == \A i \in DOMAIN runs : runs[i].id # id
\* The result is what Terraform's history says.
TrueOf(id, result, runs) ==
    /\ result = "applied" => \E i \in DOMAIN runs : runs[i].id = id /\ runs[i].outcome = "ok"
    /\ result = "apply_failed" => \A i \in DOMAIN runs : runs[i].id = id => runs[i].outcome = "failed"
\* What an open entry of the journal may say.
Journals(note, runs) ==
    /\ note.phase = "claimed" => note.what \in {"trust", "apply"}
    /\ note.phase = "applying" => note.what = "apply"
    /\ note.phase = "reporting" => note.what \in Said /\ TrueOf(note.job, note.what, runs)
    /\ note.what = "trust" => Unrun(note.job, runs)

Planning == pc \in {"work", "refuse"}

\* The runner's own variables.
RunnerTyped ==
    /\ disk \in Disks /\ pc \in PCs /\ terraform \in Seq(Runs)
    /\ pending # None => pending.id \in Nat /\ pending.scope \in JobScopes
    /\ unreported # None => unreported \in Reports /\ pending = None
    /\ pc \in {"down", "work", "refuse", "orphan"} => pending = None
    /\ pc \in {"check", "approved", "execute"} => pending # None
    /\ pc # "step" => unreported = None
    /\ Planning \/ pc = "orphan" => task.kind \in {"trust", "apply"}
    /\ pc = "approved" => task.id = pending.id /\ task.kind = pending.scope.kind

\* They agree with entries es, with ids below n, claims cs and ledger lines ev.
InHand(es, n, cs) ==
    /\ Planning => Plans(task.id, task.kind, es, n, cs)
    /\ pc = "orphan" => Started(task.id, es, n) /\ Unrun(task.id, terraform)
    /\ pending # None => Waits(pending.id, pending.scope, es, n, cs) /\ Unrun(pending.id, terraform)
    /\ pc = "execute" => \E c \in cs : c.id = pending.id
Journaled(es, n) ==
    disk.journal # None =>
        /\ Started(disk.journal.job, es, n) /\ Journals(disk.journal, terraform)
        /\ Planning => disk.journal.job # task.id
        /\ pending # None /\ disk.journal.job = pending.id =>
              disk.journal.phase = "claimed" /\ disk.journal.what = pending.scope.kind
ToReport(es, n) ==
    unreported # None =>
        Started(unreported.id, es, n) /\ TrueOf(unreported.id, unreported.result, terraform)
LinesTrue(ev) ==
    \A l \in ev : l.kind \in Reported =>
        /\ TrueOf(l.id, l.kind, terraform)
        /\ Planning => l.id # task.id
        /\ pending # None => l.id # pending.id
RunsClaimed(cs) ==
    /\ \A i, k \in DOMAIN terraform : terraform[i].id = terraform[k].id => i = k
    /\ \A i \in DOMAIN terraform :
          \E c \in cs : /\ c.id = terraform[i].id /\ c.scope.kind = "apply"
                        /\ c.scope.revision = terraform[i].tree

RunnerKept(es, n, cs, ev) ==
    /\ RunnerTyped /\ InHand(es, n, cs) /\ Journaled(es, n) /\ ToReport(es, n)
    /\ LinesTrue(ev) /\ RunsClaimed(cs) /\ BaselineIsHonest
RunnerInv == TrustInv /\ RunnerKept(entries, nextId, claims, jobEvents)

\* The daemon has moved, the runner has not yet.
Halfway == TrustInv' /\ RunnerKept(entries', nextId', claims', jobEvents')

----------------------------------------------------------------------------
(* What the install, its commit and its undo write: the trees, the records *)
(* and the marker, never the journal nor how the last apply went.          *)

Notes(d) == {e \in Disks : e.journal = d.journal /\ e.applied = d.applied}
Writes(d) == {s \in Seq(Notes(d)) : s # <<>>}

LEMMA WritesEach ==
    ASSUME NEW d, NEW s \in Writes(d)
    PROVE  Last(s) \in Notes(d) /\ \A k \in DOMAIN s : s[k] \in Notes(d)
<1>1. s \in Seq(Notes(d)) /\ s # <<>>
  BY DEF Writes
<1>2. Len(s) \in DOMAIN s /\ \A k \in DOMAIN s : s[k] \in Notes(d)
  BY <1>1
<1> QED
  BY <1>2 DEF Last

LEMMA WritesJoined ==
    ASSUME NEW d, NEW s \in Seq(Notes(d)), NEW r \in Writes(d)
    PROVE  s \o r \in Writes(d) /\ Last(s \o r) = Last(r)
<1>1. r \in Seq(Notes(d)) /\ r # <<>> /\ Len(r) > 0 /\ Len(s) \in Nat
  BY DEF Writes
<1>2. s \o r \in Seq(Notes(d)) /\ Len(s \o r) = Len(s) + Len(r)
  BY <1>1
<1>3. s \o r # <<>>
  BY <1>1, <1>2
<1>4. (s \o r)[Len(s \o r)] = r[Len(r)]
  BY <1>1, <1>2
<1> QED
  BY <1>2, <1>3, <1>4 DEF Writes, Last

LEMMA NotesSame ==
    ASSUME NEW d, NEW e \in Notes(d)
    PROVE  e \in Disks /\ Notes(e) = Notes(d) /\ Writes(e) = Writes(d)
<1>1. e \in Disks /\ Notes(e) = Notes(d)
  BY DEF Notes
<1> QED
  BY <1>1 DEF Writes

LEMMA NoteFields ==
    ASSUME NEW d \in Disks
    PROVE  /\ d \in Notes(d)
           /\ \A x \in Trees : [d EXCEPT !.tree = x] \in Notes(d) /\ [d EXCEPT !.prev = x] \in Notes(d)
           /\ \A x \in Records : /\ [d EXCEPT !.json = x] \in Notes(d)
                                 /\ [d EXCEPT !.prevJson = x] \in Notes(d)
           /\ \A x \in BOOLEAN \cup {None} : [d EXCEPT !.marker = x] \in Notes(d)
           /\ \A x, y \in Trees : [d EXCEPT !.tree = x, !.prev = y] \in Notes(d)
           /\ \A x, y \in Records : [d EXCEPT !.json = x, !.prevJson = y] \in Notes(d)
           /\ d.tree \in Trees /\ d.prev \in Trees /\ d.json \in Records /\ d.prevJson \in Records
           /\ d.marker \in BOOLEAN \cup {None}
           /\ None \in Trees /\ Broken \in Trees /\ None \in Records
BY DEF Notes, Disks, Trees, Records

LEMMA OneWrite ==
    ASSUME NEW d, NEW e \in Notes(d)
    PROVE  <<e>> \in Writes(d) /\ Last(<<e>>) = e
BY DEF Writes, Last

LEMMA TwoWrites ==
    ASSUME NEW d, NEW e \in Notes(d), NEW f \in Notes(d)
    PROVE  <<e, f>> \in Writes(d) /\ Last(<<e, f>>) = f
BY DEF Writes, Last

LEMMA ThreeWrites ==
    ASSUME NEW d, NEW e \in Notes(d), NEW f \in Notes(d), NEW g \in Notes(d)
    PROVE  <<e, f, g>> \in Writes(d) /\ Last(<<e, f, g>>) = g
BY DEF Writes, Last

LEMMA GoneWrites ==
    ASSUME NEW d \in Disks
    PROVE  TreeGone(d) \in Writes(d) /\ PrevGone(d) \in Writes(d)
BY NoteFields, OneWrite, ThreeWrites DEF TreeGone, PrevGone

LEMMA UndoWrites ==
    ASSUME NEW d \in Disks
    PROVE  Undo(d) \in Writes(d) /\ Last(Undo(d)).marker = None
<1> DEFINE t == TreeBack(d)
           e == Last(t)
           j == t \o JsonBack(e)
           f == Last(j)
           u == [f EXCEPT !.marker = None]
<1>1. CASE d.marker = None
  BY <1>1, NoteFields, OneWrite DEF Undo
<1>2. CASE d.marker # None
  <2>1. t \in Writes(d)
    <3>1. TreeGone(d) \in Writes(d) /\ TreeGone(d) \in Seq(Notes(d))
      BY GoneWrites DEF Writes
    <3>2. <<[d EXCEPT !.tree = d.prev, !.prev = None]>> \in Writes(d) /\ <<d>> \in Writes(d)
      BY NoteFields, OneWrite
    <3>3. TreeGone(d) \o <<[d EXCEPT !.tree = d.prev, !.prev = None]>> \in Writes(d)
      BY <3>1, <3>2, WritesJoined
    <3> QED
      BY <3>1, <3>2, <3>3, Zenon DEF TreeBack
  <2>2. e \in Notes(d) /\ e \in Disks /\ Writes(e) = Writes(d) /\ Notes(e) = Notes(d)
    BY <2>1, WritesEach, NotesSame
  <2> HIDE DEF e
  <2>3. JsonBack(e) \in Writes(d)
    <3>1. /\ <<[e EXCEPT !.json = None]>> \in Writes(d) /\ <<e>> \in Writes(d)
          /\ <<[e EXCEPT !.json = None], [e EXCEPT !.json = e.prevJson, !.prevJson = None]>>
                \in Writes(d)
      BY <2>2, NoteFields, OneWrite, TwoWrites
    <3> QED
      BY <3>1, Zenon DEF JsonBack
  <2>4. j \in Writes(d) /\ j \in Seq(Notes(d))
    BY <2>1, <2>3, WritesJoined DEF Writes
  <2> HIDE DEF t, j
  <2>5. f \in Notes(d) /\ f \in Disks /\ Writes(f) = Writes(d) /\ Notes(f) = Notes(d)
    BY <2>4, WritesEach, NotesSame
  <2> HIDE DEF f
  <2>6. <<u>> \in Writes(d) /\ Last(<<u>>) = u /\ u.marker = None
    <3>1. u \in Notes(d)
      BY <2>5, NoteFields
    <3>2. u.marker = None
      BY <2>5 DEF Disks
    <3> QED
      BY <3>1, <3>2, OneWrite
  <2> HIDE DEF u
  <2>7. j \o <<u>> \in Writes(d) /\ Last(j \o <<u>>).marker = None
    BY <2>4, <2>6, WritesJoined
  <2> QED
    BY <1>2, <2>7, Zenon DEF Undo, t, e, j, f, u
<1> QED
  BY <1>1, <1>2

LEMMA ClearedWrites ==
    ASSUME NEW d \in Disks
    PROVE  Cleared(d) \in Writes(d)
<1> DEFINE p == PrevGone(d)
           e == Last(p)
<1>1. p \in Writes(d) /\ p \in Seq(Notes(d))
  BY GoneWrites DEF Writes
<1>2. e \in Notes(d) /\ e \in Disks /\ Notes(e) = Notes(d)
  BY <1>1, WritesEach, NotesSame
<1> HIDE DEF e, p
<1>3. <<[e EXCEPT !.prevJson = None]>> \in Writes(d)
  BY <1>2, NoteFields, OneWrite
<1>4. p \o <<[e EXCEPT !.prevJson = None]>> \in Writes(d)
  BY <1>1, <1>3, WritesJoined
<1> QED
  BY <1>4, Zenon DEF Cleared, e, p

LEMMA CommitWrites ==
    ASSUME NEW d \in Disks
    PROVE  Commit(d) \in Writes(d)
<1> DEFINE p == PrevGone(d)
           e == Last(p)
           j == [e EXCEPT !.prevJson = None]
           m == [j EXCEPT !.marker = None]
<1>1. p \in Writes(d) /\ p \in Seq(Notes(d))
  BY GoneWrites DEF Writes
<1>2. e \in Notes(d) /\ e \in Disks /\ Notes(e) = Notes(d)
  BY <1>1, WritesEach, NotesSame
<1> HIDE DEF e, p
<1>3. j \in Notes(d) /\ j \in Disks /\ Notes(j) = Notes(d)
  BY <1>2, NoteFields, NotesSame
<1> HIDE DEF j
<1>4. <<j, m>> \in Writes(d)
  BY <1>3, NoteFields, TwoWrites
<1> HIDE DEF m
<1>5. p \o <<j, m>> \in Writes(d)
  BY <1>1, <1>4, WritesJoined
<1> QED
  BY <1>5, Zenon DEF Commit, m, j, e, p

\* Every write of the swap but the last leaves what it found of the journal.
LEMMA SwapWrites ==
    ASSUME NEW d \in Disks, NEW record \in Revisions
    PROVE  Swap(d, record) \in Writes(d)
<1> DEFINE m == [d EXCEPT !.marker = d.tree # None]
           aside == [m EXCEPT !.prev = m.tree, !.tree = None]
           asideJson == [aside EXCEPT !.prevJson = m.json, !.json = None]
           two == <<m, aside>>
           moved == IF m.marker THEN two \o IF m.json = None THEN <<>> ELSE <<asideJson>>
                    ELSE <<m>>
           l == Last(moved)
           in == [l EXCEPT !.tree = record.digest]
           done == [in EXCEPT !.json = record]
<1>r. record.digest \in Trees /\ record \in Records
  BY DEF Revisions, Trees, Records
<1>1. m \in Notes(d) /\ m \in Disks /\ Notes(m) = Notes(d)
  <2>1. (d.tree # None) \in BOOLEAN \cup {None}
    OBVIOUS
  <2> QED
    BY <2>1, NoteFields, NotesSame
<1> HIDE DEF m
<1>2. aside \in Notes(d) /\ aside \in Disks /\ Notes(aside) = Notes(d)
  <2>1. aside = [m EXCEPT !.tree = None, !.prev = m.tree]
    BY <1>1 DEF Disks
  <2>2. None \in Trees /\ m.tree \in Trees
    BY <1>1, NoteFields
  <2> HIDE DEF aside
  <2>3. aside \in Notes(m)
    BY <1>1, <2>1, <2>2, NoteFields
  <2> QED
    BY <1>1, <2>3, NotesSame
<1> HIDE DEF aside
<1>3. asideJson \in Notes(d)
  <2>1. asideJson = [aside EXCEPT !.json = None, !.prevJson = m.json]
    BY <1>2 DEF Disks
  <2>2. None \in Records /\ m.json \in Records
    BY <1>1, NoteFields
  <2> HIDE DEF asideJson
  <2>3. asideJson \in Notes(aside)
    BY <1>2, <2>1, <2>2, NoteFields
  <2> QED
    BY <1>2, <2>3
<1> HIDE DEF asideJson
<1>4. moved \in Writes(d) /\ moved \in Seq(Notes(d))
  <2>1. two \in Writes(d) /\ two \in Seq(Notes(d)) /\ <<m>> \in Writes(d)
        /\ <<asideJson>> \in Writes(d)
    BY <1>1, <1>2, <1>3, OneWrite, TwoWrites DEF Writes
  <2> HIDE DEF two
  <2>2. two \o <<asideJson>> \in Writes(d) /\ two \o <<>> = two
    BY <2>1, WritesJoined
  <2>3. moved \in Writes(d)
    BY <2>1, <2>2
  <2> QED
    BY <2>3 DEF Writes
<1>5. l \in Notes(d) /\ l \in Disks /\ Notes(l) = Notes(d)
  BY <1>4, WritesEach, NotesSame
<1> HIDE DEF moved, l
<1>6. in \in Notes(d) /\ in \in Disks /\ Notes(in) = Notes(d)
  BY <1>5, <1>r, NoteFields, NotesSame
<1> HIDE DEF in
<1>7. <<in, done>> \in Writes(d)
  BY <1>6, <1>r, NoteFields, TwoWrites
<1>8. moved \o <<in, done>> \in Writes(d)
  BY <1>4, <1>7, WritesJoined
<1>9. Swap(d, record) = moved \o <<in, done>>
  BY Zenon DEF Swap, moved, l, in, asideJson, aside, m
<1> QED
  BY <1>8, <1>9

LEMMA InstallWrites ==
    ASSUME NEW d \in Disks, NEW record \in Revisions
    PROVE  Install(d, record) \in Writes(d)
<1> DEFINE c == Cleared(d)
           e == Last(c)
<1>1. c \in Writes(d) /\ c \in Seq(Notes(d))
  BY ClearedWrites DEF Writes
<1>2. e \in Disks /\ Writes(e) = Writes(d)
  BY <1>1, WritesEach, NotesSame
<1> HIDE DEF e, c
<1>3. Swap(e, record) \in Writes(d)
  BY <1>2, SwapWrites
<1>4. c \o Swap(e, record) \in Writes(d)
  BY <1>1, <1>3, WritesJoined
<1> QED
  BY <1>4 DEF Install, e, c

LEMMA RestoredWrites ==
    ASSUME NEW d \in Disks
    PROVE  Restored(d) \in Writes(d)
<1> DEFINE t == IF d.tree = None /\ d.prev # None
                THEN [d EXCEPT !.tree = d.prev, !.prev = None] ELSE d
           j == IF t.json = None /\ t.prevJson # None
                THEN [t EXCEPT !.json = t.prevJson, !.prevJson = None] ELSE t
           k == [j EXCEPT !.prev = IF j.tree # None THEN None ELSE @]
           u == [k EXCEPT !.prevJson = IF j.json # None THEN None ELSE @]
<1>1. t \in Notes(d) /\ t \in Disks /\ Notes(t) = Notes(d)
  <2>1. d \in Notes(d) /\ [d EXCEPT !.tree = d.prev, !.prev = None] \in Notes(d)
    BY NoteFields
  <2>2. t \in Notes(d)
    BY <2>1
  <2> QED
    BY <2>2, NotesSame
<1> HIDE DEF t
<1>2. j \in Notes(d) /\ j \in Disks /\ Notes(j) = Notes(d)
  <2>1. t \in Notes(d) /\ [t EXCEPT !.json = t.prevJson, !.prevJson = None] \in Notes(d)
    BY <1>1, NoteFields
  <2>2. j \in Notes(d)
    BY <2>1
  <2> QED
    BY <2>2, NotesSame
<1> HIDE DEF j
<1>3. k = [j EXCEPT !.prev = IF j.tree # None THEN None ELSE j.prev]
  OBVIOUS
<1>4. k \in Notes(d) /\ k \in Disks /\ Notes(k) = Notes(d)
  BY <1>2, <1>3, NoteFields, NotesSame
<1>5. u = [k EXCEPT !.prevJson = IF j.json # None THEN None ELSE k.prevJson]
  BY <1>4 DEF Disks
<1>6. u \in Notes(d)
  <2> HIDE DEF u, k
  <2> QED
    BY <1>4, <1>5, NoteFields
<1>7. Unmarked(d) = u
  <2>1. Unmarked(d) = [j EXCEPT !.prev = IF j.tree # None THEN None ELSE @,
                                !.prevJson = IF j.json # None THEN None ELSE @]
    BY Zenon DEF Unmarked, t, j
  <2> QED
    BY <1>2, <2>1 DEF Disks
<1> HIDE DEF u
<1>8. <<d, Unmarked(d)>> \in Writes(d) /\ <<d>> \in Writes(d)
  BY <1>6, <1>7, NoteFields, OneWrite, TwoWrites
<1> QED
  BY <1>8, UndoWrites, Zenon DEF Restored

----------------------------------------------------------------------------
(* What the daemon does meanwhile does not undo what the runner relies on. *)

LEMMA StartedOn ==
    ASSUME TrustInv, NEW moves \in SUBSET Moves, JobsWent(moves),
           NEW id, Started(id, entries, nextId)
    PROVE  Started(id, entries', nextId')
<1>1. nextId \in Nat /\ nextId' \in Nat /\ nextId <= nextId'
  BY 0 \in Nat, GoodParts DEF TrustInv, JobsWent, JobsKept, JobsInv
<1>2. ASSUME NEW f \in entries', f.id = id, f.state = "queued" PROVE FALSE
  <2>1. PICK e \in entries : Passed(e, f, moves)
    BY <1>1, <1>2 DEF JobsWent, Evolved, Started
  <2> QED
    BY <1>2, <2>1 DEF Started, Passed, Moves
<1> QED
  BY <1>1, <1>2 DEF Started

Unsubmitted == Moves \ {<<"working", "waiting">>}

LEMMA PlansOn ==
    ASSUME TrustInv, NEW moves \in SUBSET Unsubmitted, JobsWent(moves),
           NEW id, NEW what, Plans(id, what, entries, nextId, claims)
    PROVE  Plans(id, what, entries', nextId', claims')
<1>1. Started(id, entries', nextId')
  BY StartedOn DEF Plans, Unsubmitted
<1>2. ASSUME NEW f \in entries', f.id = id
      PROVE  f.state \in {"working", "done"} /\ f.kind = what
  <2>1. PICK e \in entries : Passed(e, f, moves)
    BY <1>2 DEF JobsWent, Evolved, Plans, Started
  <2>2. e.id = id /\ e.state \in {"working", "done"} /\ e.kind = what
    BY <1>2, <2>1 DEF Passed, Plans
  <2> QED
    BY <1>2, <2>1, <2>2 DEF Passed, Unsubmitted, Moves
<1>3. ASSUME NEW c \in claims', c.id = id PROVE FALSE
  BY <1>3 DEF JobsWent, Plans
<1> QED
  BY <1>1, <1>2, <1>3 DEF Plans

LEMMA WaitsOn ==
    ASSUME TrustInv, NEW moves \in SUBSET Unsubmitted, JobsWent(moves),
           NEW id, NEW sc, Waits(id, sc, entries, nextId, claims)
    PROVE  Waits(id, sc, entries', nextId', claims')
<1>1. Started(id, entries', nextId')
  BY StartedOn DEF Waits, Unsubmitted
<1>2. ASSUME NEW f \in entries', f.id = id
      PROVE  /\ f.kind = sc.kind
             /\ f.state \in {"waiting", "approved", "claimed"} => f.scope = sc
  <2>1. PICK e \in entries : Passed(e, f, moves)
    BY <1>2 DEF JobsWent, Evolved, Waits, Started
  <2>2. /\ e.id = id /\ e.kind = sc.kind
        /\ e.state \in {"waiting", "approved", "claimed"} => e.scope = sc
    BY <1>2, <2>1 DEF Passed, Waits
  <2>3. e.state # "queued"
    BY <2>2 DEF Waits, Started
  <2>4. f.state \in {"waiting", "approved", "claimed"}
           => f.scope = e.scope /\ e.state \in {"waiting", "approved", "claimed"}
    BY <2>1, <2>3 DEF Passed, Unsubmitted, Moves
  <2> QED
    BY <2>1, <2>2, <2>4 DEF Passed
<1>3. ASSUME NEW c \in claims', c.id = id PROVE c.scope = sc
  BY <1>3 DEF JobsWent, Waits
<1> QED
  BY <1>1, <1>2, <1>3 DEF Waits

\* Whatever the daemon does, bar what the runner has in hand.
LEMMA DaemonKept ==
    ASSUME RunnerInv, NEW moves \in SUBSET Moves, TrustWent(moves)
    PROVE  /\ TrustInv' /\ RunnerTyped /\ BaselineIsHonest
           /\ Journaled(entries', nextId') /\ ToReport(entries', nextId') /\ RunsClaimed(claims')
<1>1. /\ TrustInv /\ TrustInv' /\ JobsWent(moves) /\ claims \subseteq claims'
      /\ RunnerTyped /\ BaselineIsHonest
  BY DEF RunnerInv, RunnerKept, TrustWent, JobsWent
<1>2. Journaled(entries', nextId')
  <2>1. Journaled(entries, nextId)
    BY DEF RunnerInv, RunnerKept
  <2>2. disk.journal # None => Started(disk.journal.job, entries', nextId')
    BY <1>1, <2>1, StartedOn DEF Journaled
  <2> QED
    BY <2>1, <2>2 DEF Journaled
<1>3. ToReport(entries', nextId')
  <2>1. ToReport(entries, nextId)
    BY DEF RunnerInv, RunnerKept
  <2>2. unreported # None => Started(unreported.id, entries', nextId')
    BY <1>1, <2>1, StartedOn DEF ToReport
  <2> QED
    BY <2>1, <2>2 DEF ToReport
<1>4. RunsClaimed(claims')
  <2>1. RunsClaimed(claims)
    BY DEF RunnerInv, RunnerKept
  <2> QED
    BY <1>1, <2>1 DEF RunsClaimed
<1> QED
  BY <1>1, <1>2, <1>3, <1>4

\* All but a submit, and what a runner says of an apply.
LEMMA DaemonMoved ==
    ASSUME RunnerInv, NEW moves \in SUBSET Unsubmitted, TrustWent(moves), LinesTrue(jobEvents')
    PROVE  Halfway
<1>1. TrustInv /\ JobsWent(moves) /\ moves \in SUBSET Moves /\ claims \subseteq claims'
  BY DEF RunnerInv, TrustWent, Unsubmitted, JobsWent
<1>2. InHand(entries', nextId', claims')
  <2>1. InHand(entries, nextId, claims)
    BY DEF RunnerInv, RunnerKept
  <2>2. Planning => Plans(task.id, task.kind, entries', nextId', claims')
    BY <1>1, <2>1, PlansOn DEF InHand
  <2>3. pc = "orphan" => Started(task.id, entries', nextId')
    BY <1>1, <2>1, StartedOn DEF InHand
  <2>4. pending # None => Waits(pending.id, pending.scope, entries', nextId', claims')
    BY <1>1, <2>1, WaitsOn DEF InHand
  <2> QED
    BY <1>1, <2>1, <2>2, <2>3, <2>4 DEF InHand
<1> QED
  BY <1>1, <1>2, DaemonKept DEF RunnerKept, Halfway

LEMMA MutedLines ==
    ASSUME RunnerInv, Muted(jobEvents, jobEvents')
    PROVE  LinesTrue(jobEvents')
BY DEF RunnerInv, RunnerKept, LinesTrue, Muted

\* A call that the daemon does not get, or that leaves the jobs alone.
LEMMA NothingMoved ==
    ASSUME RunnerInv, UNCHANGED <<jobsPart, registryPart, ledgerFailed>>,
           \/ Fault \/ faults' = faults
           \/ faults + 1 < MaxFaults /\ faults' = faults + 2
    PROVE  TrustWent({}) /\ Halfway
<1>1. TrustInv /\ JobsKept
  BY DEF RunnerInv, TrustInv
<1>2. trusted' \in [Projects -> Revisions \cup {None}]
  BY <1>1 DEF registryPart, JobsKept, JobsInv
<1>3. JobsWent({}) /\ Muted(jobEvents, jobEvents')
  BY <1>1, <1>2, JobsUntouched
<1>4. faults' \in 0..MaxFaults
  BY <1>1, TrustAssumption DEF Fault, TrustInv, RegistryKept
<1>5. TrustWent({})
  BY <1>1, <1>3, <1>4, CallKept
<1> QED
  BY <1>3, <1>5, MutedLines, DaemonMoved DEF Unsubmitted

\* A call that leaves the registry alone, if the daemon gets it.
LEMMA CallMoved ==
    ASSUME RunnerInv, NEW moves \in SUBSET Unsubmitted, JobsWent(moves), LinesTrue(jobEvents'),
           UNCHANGED registryPart, UNCHANGED ledgerFailed \/ ledgerFailed' = TRUE,
           Fault \/ faults' = faults
    PROVE  TrustWent(moves) /\ Halfway
<1>1. TrustWent(moves)
  BY FaultTyped, CallKept DEF RunnerInv
<1> QED
  BY <1>1, DaemonMoved

----------------------------------------------------------------------------
(* The runner's own part of a step.                                        *)

\* Terraform did not run, and nothing new was taken in hand.
LEMMA SameJournal ==
    ASSUME Halfway, UNCHANGED terraform, disk'.journal \in {disk.journal, None},
           pending' # None => pending # None /\ pending' = pending,
           Planning' => Planning /\ task' = task
    PROVE  Journaled(entries, nextId)'
BY DEF Halfway, RunnerKept, Journaled

LEMMA SameReport ==
    ASSUME Halfway, UNCHANGED terraform,
           unreported' # None => /\ unreported # None /\ unreported'.id = unreported.id
                                 /\ unreported'.result = unreported.result
    PROVE  ToReport(entries, nextId)'
BY DEF Halfway, RunnerKept, ToReport

LEMMA Carried ==
    ASSUME Halfway, RunnerTyped', UNCHANGED terraform,
           disk'.applied \in {disk.applied, "uncertain"},
           pending' # None => pending # None /\ pending' = pending,
           Planning' => Planning /\ task' = task,
           pc' = "orphan" => pc = "orphan" /\ task' = task,
           pc' = "execute" => \E c \in claims' : c.id = pending.id,
           Journaled(entries, nextId)', ToReport(entries, nextId)'
    PROVE  RunnerInv'
<1>1. TrustInv' /\ InHand(entries', nextId', claims') /\ LinesTrue(jobEvents')
      /\ RunsClaimed(claims') /\ BaselineIsHonest
  BY DEF Halfway, RunnerKept
<1>2. InHand(entries, nextId, claims)'
  BY <1>1 DEF InHand, RunnerTyped
<1>3. LinesTrue(jobEvents)'
  BY <1>1 DEF LinesTrue
<1>4. RunsClaimed(claims)'
  BY <1>1 DEF RunsClaimed
<1>5. BaselineIsHonest'
  BY <1>1 DEF BaselineIsHonest
<1> QED
  BY <1>1, <1>2, <1>3, <1>4, <1>5 DEF RunnerInv, RunnerKept

LEMMA HalfwayParts ==
    ASSUME Halfway
    PROVE  /\ TrustInv' /\ RunnerTyped /\ disk \in Disks /\ disk \in Notes(disk)
           /\ disk.journal \in JournalEntries \cup {None}
           /\ nextId' \in Nat /\ Good(Held', nextId', claims') /\ Held'.entries = entries'
           /\ Held'.events = jobEvents'
<1>1. TrustInv' /\ RunnerTyped
  BY DEF Halfway, RunnerKept
<1>2. Good(Held', nextId', claims')
  BY <1>1 DEF TrustInv, JobsKept, JobsInv
<1>3. nextId' \in Nat
  BY <1>2, GoodParts
<1> QED
  BY <1>1, <1>2, <1>3 DEF RunnerTyped, Notes, Held, Disks

LEMMA RunnerStays ==
    ASSUME Halfway, UNCHANGED runnerVars
    PROVE  RunnerInv'
<1>1. /\ disk' = disk /\ pc' = pc /\ task' = task /\ pending' = pending
      /\ unreported' = unreported /\ terraform' = terraform
  BY DEF runnerVars, runnerMemory
<1>2. RunnerTyped'
  BY <1>1, HalfwayParts DEF RunnerTyped, Planning
<1>3. Journaled(entries, nextId)' /\ ToReport(entries, nextId)'
  BY <1>1, SameJournal, SameReport DEF Planning
<1>4. pc' = "execute" => \E c \in claims' : c.id = pending.id
  BY <1>1 DEF Halfway, RunnerKept, InHand
<1> QED
  BY <1>1, <1>2, <1>3, <1>4, Carried DEF Planning

\* The runner goes on without what it had in hand; the disk is as the install
\* or its undo left it, and an entry of the journal may be closed.
LEMMA Dropped ==
    ASSUME Halfway, UNCHANGED terraform, NEW d \in Notes(disk),
           \/ disk' = d \/ \E id : disk' = Closed(d, id),
           pc' \in {"step", "down"}, pending' = None,
           \/ unreported' = None
           \/ /\ UNCHANGED unreported /\ pc' = "step"
    PROVE  RunnerInv'
<1>1. d \in Disks /\ d.journal = disk.journal /\ d.applied = disk.applied
  BY DEF Notes
<1>2. disk' \in Disks /\ disk'.journal \in {disk.journal, None} /\ disk'.applied = disk.applied
  BY <1>1 DEF Closed, Disks
<1>3. RunnerTyped'
  BY <1>2, HalfwayParts DEF RunnerTyped, Planning, PCs
<1>4. Journaled(entries, nextId)' /\ ToReport(entries, nextId)'
  BY <1>2, SameJournal, SameReport DEF Planning
<1> QED
  BY <1>2, <1>3, <1>4, Carried DEF Planning

LEMMA DiesInv ==
    ASSUME Halfway, NEW s \in Writes(disk), Down, \E k \in DOMAIN s : disk' = s[k],
           UNCHANGED terraform
    PROVE  RunnerInv'
<1>1. PICK d \in Notes(disk) : disk' = d
  BY WritesEach
<1> QED
  BY <1>1, Dropped DEF Down

LEMMA CrashInv == ASSUME RunnerInv, Crash PROVE RunnerInv'
<1>1. Halfway
  BY NothingMoved DEF Crash
<1> QED
  BY <1>1, HalfwayParts, Dropped DEF Crash, Down

\* Executing ended, with nothing run.
LEMMA EndsInv ==
    ASSUME Halfway, pc = "execute", NEW d \in Disks, d.journal = disk.journal,
           d.applied \in {disk.applied, "uncertain"}, NEW install \in BOOLEAN, NEW journaled \in BOOLEAN,
           NEW result \in {"trusted", "apply_failed"}, Ends(d, terraform, result, install, journaled)
    PROVE  RunnerInv'
<1>1. /\ disk' = d /\ terraform' = terraform /\ pc' = "step" /\ pending' = None
      /\ unreported' = [id |-> pending.id, result |-> result, install |-> install,
                        journaled |-> journaled, stage |-> "finish"]
  BY DEF Ends, Goes, Report
<1>2. RunnerTyped /\ pending # None /\ pending.id \in Nat
  BY HalfwayParts DEF RunnerTyped
<1>3. RunnerTyped'
  BY <1>1, <1>2 DEF RunnerTyped, Planning, PCs, Said, Reports
<1>4. Journaled(entries, nextId)'
  BY <1>1, SameJournal DEF Planning
<1>5. ToReport(entries, nextId)'
  <2>1. Started(pending.id, entries', nextId') /\ Unrun(pending.id, terraform)
    BY <1>2 DEF Halfway, RunnerKept, InHand, Waits
  <2>2. TrueOf(pending.id, result, terraform)
    BY <2>1 DEF TrueOf, Unrun
  <2> QED
    BY <1>1, <2>1, <2>2 DEF ToReport
<1> QED
  BY <1>1, <1>3, <1>4, <1>5, Carried DEF Planning

LEMMA InstallInv == ASSUME RunnerInv, InstallTrust PROVE RunnerInv'
<1> DEFINE s == Install(disk, InstallRecord)
           n == Len(Cleared(disk))
<1>1. /\ pc = "execute" /\ UNCHANGED <<jobsPart, registryPart, ledgerFailed>>
      /\ \/ Fault \/ faults' = faults
         \/ faults + 1 < MaxFaults /\ faults' = faults + 2
  BY DEF InstallTrust, Executes, Ends
<1>2. Halfway
  BY <1>1, NothingMoved
<1>3. disk \in Disks /\ disk \in Notes(disk)
  BY <1>2, HalfwayParts
<1>4. s \in Writes(disk)
  <2>1. pending # None /\ pending.scope \in JobScopes /\ pending.scope.kind = "trust"
    BY <1>1, <1>2, HalfwayParts DEF RunnerTyped, InstallTrust, Executes
  <2>2. InstallRecord \in Revisions
    BY <2>1 DEF InstallRecord, JobScopes, TrustScopes, ApplyScopes, Revisions
  <2> QED
    BY <1>3, <2>2, InstallWrites
<1>5. n \in Nat /\ n > 0
  BY <1>3, ClearedWrites DEF Writes
<1>6. ASSUME NEW k \in n..(Len(s) - 1)
      PROVE  /\ s[k] \in Notes(disk) /\ Undo(s[k]) \in Writes(disk)
             /\ Last(Undo(s[k])) \in Notes(disk)
             /\ \A i \in DOMAIN Undo(s[k]) : Undo(s[k])[i] \in Notes(disk)
  <2>1. k \in DOMAIN s
    BY <1>4, <1>5 DEF Writes
  <2>2. s[k] \in Notes(disk) /\ s[k] \in Disks /\ Writes(s[k]) = Writes(disk)
    BY <1>4, <2>1, WritesEach, NotesSame
  <2>3. Undo(s[k]) \in Writes(disk)
    BY <2>2, UndoWrites
  <2> QED
    BY <2>2, <2>3, WritesEach
<1>7. \E d \in Notes(disk), result \in {"trusted", "apply_failed"}, install \in BOOLEAN :
         Ends(d, terraform, result, install, FALSE)
  <2>1. Last(s) \in Notes(disk)
    BY <1>4, WritesEach
  <2> HIDE DEF s, n
  <2>2. \/ Ends(Last(s), terraform, "trusted", TRUE, FALSE)
        \/ Ends(disk, terraform, "apply_failed", FALSE, FALSE)
        \/ \E k \in n..(Len(s) - 1) :
              Ends(Last(Undo(s[k])), terraform, "apply_failed", FALSE, FALSE)
        \/ \E k \in n..(Len(s) - 1) : \E i \in DOMAIN Undo(s[k]) :
              Ends(Undo(s[k])[i], terraform, "apply_failed", FALSE, FALSE)
    BY Zenon DEF InstallTrust, s, n
  <2> QED
    BY <1>3, <1>6, <2>1, <2>2
<1>8. PICK d \in Notes(disk), result \in {"trusted", "apply_failed"}, install \in BOOLEAN :
         Ends(d, terraform, result, install, FALSE)
  BY <1>7
<1>9. d \in Disks /\ d.journal = disk.journal /\ d.applied = disk.applied
  BY DEF Notes
<1> QED
  BY <1>1, <1>2, <1>8, <1>9, EndsInv

LEMMA InstallDiesInv == ASSUME RunnerInv, InstallDies PROVE RunnerInv'
<1> DEFINE s == Install(disk, InstallRecord)
<1>1. /\ pc = "execute" /\ UNCHANGED <<jobsPart, registryPart, ledgerFailed>> /\ Fault
      /\ Down /\ UNCHANGED terraform /\ \E k \in DOMAIN s : disk' = s[k]
  BY DEF InstallDies, Executes, Dies
<1>2. Halfway
  BY <1>1, NothingMoved
<1>3. s \in Writes(disk)
  <2>1. pending # None /\ pending.scope \in JobScopes /\ pending.scope.kind = "trust"
    BY <1>1, <1>2, HalfwayParts DEF RunnerTyped, InstallDies, Executes
  <2>2. InstallRecord \in Revisions
    BY <2>1 DEF InstallRecord, JobScopes, TrustScopes, ApplyScopes, Revisions
  <2> QED
    BY <1>2, <2>2, HalfwayParts, InstallWrites
<1> HIDE DEF s
<1> QED
  BY <1>1, <1>2, <1>3, DiesInv

----------------------------------------------------------------------------
(* Terraform runs.                                                         *)

LEMMA TrueOfMore ==
    ASSUME NEW runs \in Seq(Runs), NEW x \in Runs, NEW id, x.id # id, NEW result,
           TrueOf(id, result, runs)
    PROVE  TrueOf(id, result, Append(runs, x))
<1>1. /\ DOMAIN Append(runs, x) = (DOMAIN runs) \cup {Len(runs) + 1}
      /\ \A i \in DOMAIN runs : Append(runs, x)[i] = runs[i]
      /\ Append(runs, x)[Len(runs) + 1] = x
  OBVIOUS
<1> QED
  BY <1>1 DEF TrueOf

\* Terraform ran for the job in hand, for the first time.
LEMMA RanInv ==
    ASSUME Halfway, Executes("apply"), SameTree, NEW outcome \in ApplyOutcomes,
           terraform' = Begun(outcome), disk' \in Disks,
           disk'.applied = "applied" => outcome = "ok",
           \/ disk'.journal = Entry(pending.id, "applying", "apply")
           \/ disk'.journal = Entry(pending.id, "reporting", ResultOf(outcome)),
           pc' \in {"step", "down"}, pending' = None,
           \/ unreported' = None
           \/ /\ pc' = "step" /\ unreported' \in Reports
              /\ unreported'.id = pending.id /\ unreported'.result = ResultOf(outcome)
    PROVE  RunnerInv'
<1> DEFINE x == [id |-> pending.id, tree |-> disk.tree, outcome |-> outcome]
<1>1. /\ TrustInv' /\ RunnerTyped /\ InHand(entries', nextId', claims')
      /\ LinesTrue(jobEvents') /\ RunsClaimed(claims') /\ disk \in Disks
  BY HalfwayParts DEF Halfway, RunnerKept
<1>2. /\ pc = "execute" /\ pending # None /\ pending.id \in Nat
      /\ pending.scope \in JobScopes /\ pending.scope.kind = "apply"
      /\ terraform \in Seq(Runs)
  BY <1>1 DEF Executes, RunnerTyped
<1>3. x \in Runs /\ x.id = pending.id /\ x.tree = disk.tree /\ x.outcome = outcome
  BY <1>1, <1>2 DEF Runs, Disks
<1>4. terraform' = Append(terraform, x)
  BY DEF Begun
<1> HIDE DEF x
<1>5. /\ DOMAIN terraform' = (DOMAIN terraform) \cup {Len(terraform) + 1}
      /\ Len(terraform) + 1 \notin DOMAIN terraform
      /\ \A i \in DOMAIN terraform : terraform'[i] = terraform[i]
      /\ terraform'[Len(terraform) + 1] = x /\ terraform' \in Seq(Runs)
      /\ terraform' # <<>> /\ Last(terraform') = x
  BY <1>2, <1>3, <1>4 DEF Last
<1>6. Started(pending.id, entries', nextId') /\ Unrun(pending.id, terraform)
  BY <1>1, <1>2 DEF InHand, Waits
<1>7. TrueOf(pending.id, ResultOf(outcome), terraform') /\ ResultOf(outcome) \in Said
  BY <1>3, <1>5, <1>6 DEF TrueOf, Unrun, ResultOf, ApplyOutcomes, Said
<1>8. disk.tree = pending.scope.revision
  <2>1. Revision \in Revisions /\ Revision # None
    BY <1>2, RunnerAssumption DEF Revision, JobScopes, ApplyScopes, TrustScopes, Revisions
  <2>2. disk.tree = Revision.digest
    BY <2>1 DEF SameTree, LocalTrust
  <2> QED
    BY <2>2 DEF Revision
<1>9. RunsClaimed(claims)'
  <2>1. PICK c \in claims' : c.id = pending.id
    BY <1>1, <1>2 DEF InHand
  <2>2. c.scope = pending.scope
    BY <1>1, <1>2, <2>1 DEF InHand, Waits
  <2>3. \A i, k \in DOMAIN terraform' : terraform'[i].id = terraform'[k].id => i = k
    BY <1>1, <1>3, <1>5, <1>6 DEF RunsClaimed, Unrun
  <2>4. \A i \in DOMAIN terraform' :
           \E d \in claims' : /\ d.id = terraform'[i].id /\ d.scope.kind = "apply"
                              /\ d.scope.revision = terraform'[i].tree
    BY <1>1, <1>2, <1>3, <1>5, <1>8, <2>1, <2>2 DEF RunsClaimed
  <2> QED
    BY <2>3, <2>4 DEF RunsClaimed
<1>10. LinesTrue(jobEvents)'
  <2>1. ASSUME NEW l \in jobEvents', l.kind \in Reported
        PROVE  TrueOf(l.id, l.kind, terraform')
    <3>1. TrueOf(l.id, l.kind, terraform) /\ l.id # pending.id
      BY <1>1, <1>2, <2>1 DEF LinesTrue
    <3> QED
      BY <1>2, <1>3, <1>4, <3>1, TrueOfMore
  <2>2. ~Planning'
    BY DEF Planning
  <2> QED
    BY <2>1, <2>2 DEF LinesTrue
<1>11. BaselineIsHonest'
  BY <1>3, <1>5 DEF BaselineIsHonest
<1>12. Journaled(entries, nextId)'
  <2>1. disk'.journal.job = pending.id /\ Journals(disk'.journal, terraform')
    BY <1>7 DEF Entry, Journals, Said
  <2> QED
    BY <1>6, <2>1 DEF Journaled, Planning
<1>13. ToReport(entries, nextId)'
  BY <1>6, <1>7 DEF ToReport
<1>14. RunnerTyped'
  BY <1>5 DEF RunnerTyped, Planning, PCs
<1>15. InHand(entries, nextId, claims)'
  BY DEF InHand, Planning
<1> QED
  BY <1>1, <1>9, <1>10, <1>11, <1>12, <1>13, <1>14, <1>15 DEF RunnerInv, RunnerKept

\* What is written around a run.
LEMMA ApplyDisks ==
    ASSUME NEW id \in Nat, pending.id = id, disk \in Disks, NEW outcome \in ApplyOutcomes
    PROVE  LET done == Reporting(Applying(disk), id, ResultOf(outcome))
           IN  /\ Doubted(disk) \in Disks /\ Doubted(disk).journal = disk.journal
               /\ Doubted(disk).applied = "uncertain"
               /\ Applying(disk) \in Disks /\ Applying(disk).applied = "uncertain"
               /\ Applying(disk).journal = Entry(id, "applying", "apply")
               /\ done \in Disks /\ done.applied = "uncertain"
               /\ done.journal = Entry(id, "reporting", ResultOf(outcome))
               /\ \A a \in {"applied", "uncertain"} :
                     LET last == [done EXCEPT !.applied = a]
                     IN  last \in Disks /\ last.applied = a /\ last.journal = done.journal
<1> DEFINE done == Reporting(Applying(disk), id, ResultOf(outcome))
<1>1. /\ Entry(id, "applying", "apply") \in JournalEntries
      /\ Entry(id, "reporting", ResultOf(outcome)) \in JournalEntries
  BY DEF Entry, JournalEntries, ResultOf, ApplyOutcomes
<1>2. /\ Doubted(disk) \in Disks /\ Doubted(disk).journal = disk.journal
      /\ Doubted(disk).applied = "uncertain"
  BY DEF Doubted, Disks
<1>3. /\ Applying(disk) \in Disks /\ Applying(disk).applied = "uncertain"
      /\ Applying(disk).journal = Entry(id, "applying", "apply")
  BY <1>1, <1>2 DEF Applying, Disks
<1>4. /\ done \in Disks /\ done.applied = "uncertain"
      /\ done.journal = Entry(id, "reporting", ResultOf(outcome))
  BY <1>1, <1>3 DEF Reporting, Disks
<1> HIDE DEF done
<1>5. ASSUME NEW a \in {"applied", "uncertain"}
      PROVE  LET last == [done EXCEPT !.applied = a]
             IN  last \in Disks /\ last.applied = a /\ last.journal = done.journal
  BY <1>4 DEF Disks
<1> QED
  BY <1>2, <1>3, <1>4, <1>5 DEF done

LEMMA ApplyPlanInv ==
    ASSUME RunnerInv, NEW outcome \in ApplyOutcomes, ApplyPlan(outcome)
    PROVE  RunnerInv'
<1> DEFINE result == ResultOf(outcome)
           done == Reporting(Applying(disk), pending.id, result)
           last == IF outcome = "ok" THEN [done EXCEPT !.applied = "applied"] ELSE done
           unsaid == [last EXCEPT !.journal = Applying(disk).journal]
<1>1. /\ Executes("apply") /\ SameTree /\ pc = "execute"
      /\ UNCHANGED <<jobsPart, registryPart, ledgerFailed>> /\ (Fault \/ faults' = faults)
  BY DEF ApplyPlan, Ends, Executes
<1>2. Halfway
  BY <1>1, NothingMoved
<1>3. \E d \in {last, done, unsaid} : \E journaled \in BOOLEAN :
         Ends(d, Begun(outcome), result, FALSE, journaled)
  BY Zenon DEF ApplyPlan
<1>4. PICK d \in {last, done, unsaid}, journaled \in BOOLEAN :
         Ends(d, Begun(outcome), result, FALSE, journaled)
  BY <1>3
<1>5. disk \in Disks /\ pending # None /\ pending.id \in Nat
  BY <1>1, <1>2, HalfwayParts DEF RunnerTyped
<1>6. /\ done \in Disks /\ done.applied = "uncertain"
      /\ done.journal = Entry(pending.id, "reporting", result)
      /\ Applying(disk).journal = Entry(pending.id, "applying", "apply")
      /\ Applying(disk) \in Disks
      /\ [done EXCEPT !.applied = "applied"] \in Disks
      /\ [done EXCEPT !.applied = "applied"].journal = done.journal
  BY <1>5, ApplyDisks
<1> HIDE DEF done, result
<1>7. /\ last \in Disks
      /\ last.applied = "applied" => outcome = "ok"
      /\ last.journal = Entry(pending.id, "reporting", result)
  BY <1>6
<1> HIDE DEF last
<1>8. /\ unsaid \in Disks /\ unsaid.applied = last.applied
      /\ unsaid.journal = Entry(pending.id, "applying", "apply")
  BY <1>6, <1>7 DEF Disks
<1> HIDE DEF unsaid
<1>9. /\ d \in Disks
      /\ d.applied = "applied" => outcome = "ok"
      /\ \/ d.journal = Entry(pending.id, "applying", "apply")
         \/ d.journal = Entry(pending.id, "reporting", result)
  BY <1>6, <1>7, <1>8
<1>10. /\ disk' = d /\ terraform' = Begun(outcome) /\ pc' = "step" /\ pending' = None
       /\ unreported' = [id |-> pending.id, result |-> result, install |-> FALSE,
                         journaled |-> journaled, stage |-> "finish"]
  BY <1>4 DEF Ends, Goes, Report
<1>11. unreported' \in Reports
  BY <1>5, <1>10 DEF Reports, Said, result, ResultOf, ApplyOutcomes
<1>12. /\ unreported'.id = pending.id /\ unreported'.result = ResultOf(outcome)
       /\ \/ disk'.journal = Entry(pending.id, "applying", "apply")
          \/ disk'.journal = Entry(pending.id, "reporting", ResultOf(outcome))
  BY <1>9, <1>10 DEF result
<1> QED
  BY <1>1, <1>2, <1>9, <1>10, <1>11, <1>12, RanInv

LEMMA ApplyDiesInv ==
    ASSUME RunnerInv, NEW outcome \in ApplyOutcomes, ApplyDies(outcome)
    PROVE  RunnerInv'
<1> DEFINE done == Reporting(Applying(disk), pending.id, ResultOf(outcome))
           a == IF outcome = "ok" THEN "applied" ELSE "uncertain"
<1>1. /\ Executes("apply") /\ SameTree /\ pc = "execute" /\ Fault /\ Down
      /\ UNCHANGED <<jobsPart, registryPart, ledgerFailed>>
  BY DEF ApplyDies, Executes
<1>2. Halfway
  BY <1>1, NothingMoved
<1>3. disk \in Disks /\ pending # None /\ pending.id \in Nat /\ RunnerTyped
  BY <1>1, <1>2, HalfwayParts DEF RunnerTyped
<1>a. a \in {"applied", "uncertain"} /\ (a = "applied" => outcome = "ok")
  OBVIOUS
<1>4. /\ done \in Disks /\ done.applied = "uncertain"
      /\ done.journal = Entry(pending.id, "reporting", ResultOf(outcome))
      /\ Doubted(disk) \in Disks /\ Doubted(disk).journal = disk.journal
      /\ Doubted(disk).applied = "uncertain"
      /\ Applying(disk) \in Disks /\ Applying(disk).applied = "uncertain"
      /\ Applying(disk).journal = Entry(pending.id, "applying", "apply")
      /\ [done EXCEPT !.applied = a] \in Disks /\ [done EXCEPT !.applied = a].applied = a
      /\ [done EXCEPT !.applied = a].journal = done.journal
  BY <1>3, <1>a, ApplyDisks
<1>5. \/ disk' \in {Doubted(disk), Applying(disk)} /\ UNCHANGED terraform
      \/ disk' = Applying(disk) /\ terraform' = Begun(outcome)
      \/ disk' \in {done, [done EXCEPT !.applied = IF outcome = "ok" THEN "applied" ELSE @]}
         /\ terraform' = Begun(outcome)
  BY Zenon DEF ApplyDies
<1>6. [done EXCEPT !.applied = IF outcome = "ok" THEN "applied" ELSE @] = [done EXCEPT !.applied = a]
  BY <1>4 DEF Disks, a
<1> HIDE DEF done, a
<1>7. pc' = "down" /\ pending' = None /\ unreported' = None /\ task' = None
  BY <1>1 DEF Down
<1>8. CASE terraform' = Begun(outcome)
  <2>1. disk' \in {Applying(disk), done, [done EXCEPT !.applied = a]} \/ UNCHANGED terraform
    BY <1>5, <1>6
  <2>2. terraform' # terraform
    BY <1>3, <1>8 DEF Begun, RunnerTyped
  <2>3. /\ disk' \in Disks
        /\ disk'.applied = "applied" => outcome = "ok"
        /\ \/ disk'.journal = Entry(pending.id, "applying", "apply")
           \/ disk'.journal = Entry(pending.id, "reporting", ResultOf(outcome))
    BY <1>4, <1>a, <2>1, <2>2
  <2> QED
    BY <1>1, <1>2, <1>7, <1>8, <2>3, RanInv
<1>9. CASE disk' \in {Doubted(disk), Applying(disk)} /\ UNCHANGED terraform
  <2>1. /\ disk' \in Disks /\ disk'.applied = "uncertain"
        /\ disk'.journal = disk.journal \/ disk'.journal = Entry(pending.id, "applying", "apply")
    BY <1>4, <1>9
  <2>2. RunnerTyped'
    BY <1>3, <1>7, <1>9, <2>1 DEF RunnerTyped, Planning, PCs
  <2>3. Journaled(entries, nextId)'
    <3>1. CASE disk'.journal = disk.journal
      BY <1>2, <1>7, <1>9, <3>1, SameJournal DEF Planning
    <3>2. CASE disk'.journal = Entry(pending.id, "applying", "apply")
      <4>1. Started(pending.id, entries', nextId')
        BY <1>2, <1>3 DEF Halfway, RunnerKept, InHand, Waits
      <4>2. disk'.journal.job = pending.id /\ Journals(disk'.journal, terraform')
        BY <3>2 DEF Entry, Journals
      <4> QED
        BY <1>7, <4>1, <4>2 DEF Journaled, Planning
    <3> QED
      BY <2>1, <3>1, <3>2
  <2>4. ToReport(entries, nextId)'
    BY <1>7 DEF ToReport
  <2> QED
    BY <1>2, <1>7, <1>9, <2>1, <2>2, <2>3, <2>4, Carried DEF Planning
<1> QED
  BY <1>5, <1>8, <1>9

LEMMA ApplyRefusedInv == ASSUME RunnerInv, ApplyRefused PROVE RunnerInv'
<1>1. /\ Executes("apply") /\ pc = "execute"
      /\ UNCHANGED <<jobsPart, registryPart, ledgerFailed>> /\ (Fault \/ faults' = faults)
      /\ \E d \in {disk, Doubted(disk)} : Ends(d, terraform, "apply_failed", FALSE, FALSE)
  BY DEF ApplyRefused, Ends, Executes
<1>2. Halfway
  BY <1>1, NothingMoved
<1>3. PICK d \in {disk, Doubted(disk)} : Ends(d, terraform, "apply_failed", FALSE, FALSE)
  BY <1>1
<1>4. disk \in Disks
  BY <1>2, HalfwayParts
<1>5. d \in Disks /\ d.journal = disk.journal /\ d.applied \in {disk.applied, "uncertain"}
  BY <1>4 DEF Doubted, Disks
<1> QED
  BY <1>1, <1>2, <1>3, <1>5, EndsInv

----------------------------------------------------------------------------
(* What is left to report.                                                 *)

LEMMA JournalReportInv == ASSUME RunnerInv, JournalReport PROVE RunnerInv'
<1>1. /\ pc = "step" /\ unreported # None
      /\ unreported' = [unreported EXCEPT !.journaled = TRUE]
      /\ disk' = Reporting(disk, unreported.id, unreported.result)
      /\ UNCHANGED <<trustVars, pc, task, pending, terraform>>
  BY DEF JournalReport
<1>2. Halfway
  <2>1. UNCHANGED <<jobsPart, registryPart, ledgerFailed>> /\ faults' = faults
    BY <1>1 DEF trustVars
  <2> QED
    BY <2>1, NothingMoved
<1>3. /\ disk \in Disks /\ unreported \in Reports /\ pending = None /\ RunnerTyped
      /\ unreported.id \in Nat /\ unreported.result \in Said
  BY <1>1, <1>2, HalfwayParts DEF RunnerTyped, Reports
<1>4. /\ disk' \in Disks /\ disk'.applied = disk.applied
      /\ disk'.journal = Entry(unreported.id, "reporting", unreported.result)
  BY <1>1, <1>3 DEF Reporting, Entry, Disks, JournalEntries, Said
<1>5. /\ unreported' \in Reports /\ unreported'.id = unreported.id
      /\ unreported'.result = unreported.result
  BY <1>1, <1>3 DEF Reports
<1>6. /\ Started(unreported.id, entries', nextId')
      /\ TrueOf(unreported.id, unreported.result, terraform)
  BY <1>1, <1>2 DEF Halfway, RunnerKept, ToReport
<1>7. Journaled(entries, nextId)'
  <2>1. /\ disk'.journal.job = unreported.id /\ disk'.journal.phase = "reporting"
        /\ disk'.journal.what = unreported.result
    BY <1>4 DEF Entry
  <2>2. Journals(disk'.journal, terraform)
    BY <1>3, <1>6, <2>1 DEF Journals, Said
  <2> QED
    BY <1>1, <1>3, <1>6, <2>1, <2>2 DEF Journaled, Planning
<1>8. RunnerTyped'
  BY <1>1, <1>3, <1>4, <1>5 DEF RunnerTyped, Planning
<1>9. ToReport(entries, nextId)'
  BY <1>1, <1>2, SameReport, <1>5
<1> QED
  BY <1>1, <1>2, <1>3, <1>4, <1>7, <1>8, <1>9, Carried DEF Planning

\* A report goes from one stage to the next, or is to be sent again.
LEMMA StageInv ==
    ASSUME Halfway, pc = "step", unreported # None, DeliverKeeps,
           \/ UNCHANGED unreported
           \/ \E s \in {"finish", "status", "unknown", "delivered", "refused"} : Stage(s)
    PROVE  RunnerInv'
<1>1. /\ disk' = disk /\ pc' = pc /\ task' = task /\ pending' = pending /\ terraform' = terraform
  BY DEF DeliverKeeps
<1>2. unreported \in Reports /\ pending = None /\ RunnerTyped /\ disk \in Disks
  BY HalfwayParts DEF RunnerTyped
<1>3. /\ unreported' \in Reports /\ unreported'.id = unreported.id
      /\ unreported'.result = unreported.result
  BY <1>2 DEF Stage, Reports
<1>4. RunnerTyped'
  BY <1>1, <1>2, <1>3 DEF RunnerTyped, Planning
<1>5. Journaled(entries, nextId)' /\ ToReport(entries, nextId)'
  BY <1>1, <1>3, SameJournal, SameReport DEF Planning
<1> QED
  BY <1>1, <1>2, <1>4, <1>5, Carried DEF Planning

\* What a runner says of a job is so: the line it leaves is true.
LEMMA FinishMoved ==
    ASSUME RunnerInv, pc = "step", unreported # None, NEW t \in Time,
           NEW result \in {"applied", "apply_failed", "outcome_unknown"},
           result \in {unreported.result, "outcome_unknown"},
           FinishOther(t, unreported.id, result), UNCHANGED registryPart,
           UNCHANGED ledgerFailed \/ ledgerFailed' = TRUE, Fault \/ faults' = faults
    PROVE  Halfway
<1> DEFINE id == unreported.id
<1>1. /\ Started(id, entries, nextId) /\ TrueOf(id, unreported.result, terraform)
      /\ pending = None /\ ~Planning /\ LinesTrue(jobEvents)
  BY DEF RunnerInv, RunnerKept, ToReport, RunnerTyped, Planning
<1>2. id \in Nat /\ id < nextId /\ JobsKept /\ Project \in Projects
  BY <1>1, RunnerAssumption DEF Started, RunnerInv, TrustInv
<1>3. JobFinish(JobsAt(gate, t), Me, Project, id, result)
  BY DEF FinishOther
<1> HIDE DEF id
<1>4. /\ JobsWent({})
      /\ \A l \in jobEvents' : \/ l \in jobEvents \/ l.kind \notin Reported
                               \/ l.kind = result /\ l.id = id
  BY <1>2, <1>3, CallFinish
<1>5. LinesTrue(jobEvents')
  BY <1>1, <1>4 DEF LinesTrue, Reported
<1> QED
  BY <1>4, <1>5, CallMoved DEF Unsubmitted

\* The calls a runner makes that change nothing it relies on.
LEMMA QuietMoved ==
    ASSUME RunnerInv, NEW t \in Time, UNCHANGED registryPart,
           UNCHANGED ledgerFailed \/ ledgerFailed' = TRUE, Fault \/ faults' = faults,
           \/ JobTick(JobsAt(gate, t))
           \/ JobPoll(JobsTicked(JobsAt(gate, t)), Me)
           \/ \E id : \E result \in {"refused", "plan_failed"} :
                 JobRefuse(JobsAt(gate, t), Me, id, result)
    PROVE  Halfway /\ Muted(jobEvents, jobEvents')
<1>1. JobsKept /\ TrustInv
  BY DEF RunnerInv, TrustInv
<1>2. /\ JobsWent({}) \/ JobsWent({<<"queued", "working">>})
      /\ Muted(jobEvents, jobEvents')
  BY <1>1, QuietCalls
<1>3. LinesTrue(jobEvents')
  BY <1>2, MutedLines
<1>4. {} \in SUBSET Unsubmitted /\ {<<"queued", "working">>} \in SUBSET Unsubmitted
  BY DEF Unsubmitted, Moves
<1>5. CASE JobsWent({})
  BY <1>2, <1>3, <1>4, <1>5, CallMoved
<1>6. CASE JobsWent({<<"queued", "working">>})
  BY <1>2, <1>3, <1>4, <1>6, CallMoved
<1> QED
  BY <1>2, <1>5, <1>6

LEMMA SendFinishInv ==
    ASSUME RunnerInv, NEW t \in Time, SendFinish(t)
    PROVE  RunnerInv'
<1> DEFINE said == UNCHANGED unreported
                   \/ \E s \in {"finish", "status", "unknown", "delivered", "refused"} : Stage(s)
<1>1. pc = "step" /\ unreported # None /\ DeliverKeeps
  BY DEF SendFinish, Delivers
<1>2. Halfway /\ said
  <2>1. CASE unreported.result = "trusted"
    <3>1. FinishTrusted(t, Project, unreported.id,
              Stage("delivered"), Stage("status"), UNCHANGED unreported)
      BY <2>1, Zenon DEF SendFinish
    <3>2. /\ TrustWent({}) /\ OnlyTrusted(unreported.id)
          /\ Stage("delivered") \/ Stage("status") \/ UNCHANGED unreported
      BY <3>1, FinishTrustedWent DEF RunnerInv
    <3>3. LinesTrue(jobEvents')
      BY <1>1, <3>2 DEF LinesTrue, OnlyTrusted, RunnerInv, RunnerKept, RunnerTyped, Planning, TrueOf
    <3> QED
      BY <3>2, <3>3, DaemonMoved DEF Unsubmitted
  <2>2. CASE unreported.result # "trusted"
    <3>1. Call(FALSE, FinishOther(t, unreported.id, unreported.result),
              IF EndsJob(unreported.id) THEN Stage("delivered") ELSE Stage("status"),
              UNCHANGED unreported)
      BY <2>2, Zenon DEF SendFinish
    <3>2. /\ (IF EndsJob(unreported.id) THEN Stage("delivered") ELSE Stage("status"))
             \/ UNCHANGED unreported
          /\ \/ /\ FinishOther(t, unreported.id, unreported.result)
                /\ UNCHANGED registryPart /\ (UNCHANGED ledgerFailed \/ ledgerFailed' = TRUE)
                /\ (Fault \/ faults' = faults)
             \/ /\ UNCHANGED <<jobsPart, registryPart, ledgerFailed>>
                /\ (Fault \/ faults' = faults)
      BY <3>1, Zenon DEF Call, trustVars
    <3>3. unreported.result \in {"applied", "apply_failed", "outcome_unknown"}
      BY <1>1, <2>2 DEF RunnerInv, RunnerKept, RunnerTyped, Reports, Said
    <3>4. Halfway
      BY <1>1, <3>2, <3>3, FinishMoved, NothingMoved
    <3> QED
      BY <3>2, <3>4, Zenon
  <2> QED
    BY <2>1, <2>2
<1> QED
  BY <1>1, <1>2, StageInv

LEMMA AskStatusInv ==
    ASSUME RunnerInv, NEW t \in Time, AskStatus(t)
    PROVE  RunnerInv'
<1> DEFINE stage == StatusSays({e \in entries' : e.id = unreported.id})
<1>1. pc = "step" /\ unreported # None /\ DeliverKeeps
  BY DEF AskStatus, Delivers
<1>2. Call(FALSE, JobTick(JobsAt(gate, t)), Stage(stage), Stage("finish"))
  BY Zenon DEF AskStatus
<1>3. stage \in {"delivered", "unknown", "refused"}
  BY DEF StatusSays
<1> HIDE DEF stage
<1>4. /\ Stage(stage) \/ Stage("finish")
      /\ \/ /\ JobTick(JobsAt(gate, t)) /\ UNCHANGED registryPart
            /\ (UNCHANGED ledgerFailed \/ ledgerFailed' = TRUE) /\ (Fault \/ faults' = faults)
         \/ UNCHANGED <<jobsPart, registryPart, ledgerFailed>> /\ (Fault \/ faults' = faults)
  BY <1>2, Zenon DEF Call, trustVars
<1>5. Halfway
  BY <1>4, QuietMoved, NothingMoved
<1>6. \E s \in {"finish", "status", "unknown", "delivered", "refused"} : Stage(s)
  BY <1>3, <1>4
<1> QED
  BY <1>1, <1>5, <1>6, StageInv

LEMMA SendUnknownInv ==
    ASSUME RunnerInv, NEW t \in Time, SendUnknown(t)
    PROVE  RunnerInv'
<1>1. pc = "step" /\ unreported # None /\ DeliverKeeps
  BY DEF SendUnknown, Delivers
<1>2. Call(FALSE, FinishOther(t, unreported.id, "outcome_unknown"),
           Stage("delivered"), Stage("finish"))
  BY Zenon DEF SendUnknown
<1>3. /\ Stage("delivered") \/ Stage("finish")
      /\ \/ /\ FinishOther(t, unreported.id, "outcome_unknown") /\ UNCHANGED registryPart
            /\ (UNCHANGED ledgerFailed \/ ledgerFailed' = TRUE) /\ (Fault \/ faults' = faults)
         \/ UNCHANGED <<jobsPart, registryPart, ledgerFailed>> /\ (Fault \/ faults' = faults)
  BY <1>2, Zenon DEF Call, trustVars
<1>4. Halfway
  BY <1>1, <1>3, FinishMoved, NothingMoved
<1> QED
  BY <1>1, <1>3, <1>4, StageInv

LEMMA AnswerWrites ==
    ASSUME Halfway, Answered
    PROVE  AfterAnswer \in Writes(disk) /\ pc = "step" /\ pending = None
<1>1. disk \in Disks /\ pc = "step" /\ pending = None /\ unreported.install \in BOOLEAN
  BY HalfwayParts DEF Answered, Delivers, RunnerTyped, Reports
<1>2. unreported.stage \in {"delivered", "refused"}
  BY DEF Answered, Delivers
<1>3. AfterAnswer \in {<<disk>>, Commit(disk), Undo(disk)}
  BY <1>1, <1>2 DEF AfterAnswer
<1> QED
  BY <1>1, <1>3, HalfwayParts, OneWrite, CommitWrites, UndoWrites

LEMMA SettleInv == ASSUME RunnerInv, Settle PROVE RunnerInv'
<1> DEFINE s == AfterAnswer
<1>1. /\ Answered /\ unreported' = None
      /\ UNCHANGED <<jobsPart, registryPart, ledgerFailed, pc, task, pending, terraform>>
      /\ Fault \/ faults' = faults
      /\ \/ disk' = Closed(Last(s), unreported.id) \/ disk' = Last(s)
         \/ \E k \in DOMAIN s : disk' = Closed(s[k], unreported.id)
  BY DEF Settle
<1>2. Halfway
  BY <1>1, NothingMoved
<1>3. s \in Writes(disk) /\ pc = "step" /\ pending = None
  BY <1>1, <1>2, AnswerWrites
<1> HIDE DEF s
<1>4. \E d \in Notes(disk) : disk' = d \/ disk' = Closed(d, unreported.id)
  BY <1>1, <1>3, WritesEach
<1> QED
  BY <1>1, <1>2, <1>3, <1>4, Dropped

LEMMA SettleDiesInv == ASSUME RunnerInv, SettleDies PROVE RunnerInv'
<1> DEFINE s == AfterAnswer
<1>1. /\ Answered /\ Down /\ UNCHANGED <<jobsPart, registryPart, ledgerFailed, terraform>>
      /\ Fault /\ \E k \in DOMAIN s : disk' = s[k]
  BY DEF SettleDies, Dies
<1>2. Halfway
  BY <1>1, NothingMoved
<1>3. s \in Writes(disk)
  BY <1>1, <1>2, AnswerWrites
<1> HIDE DEF s
<1> QED
  BY <1>1, <1>2, <1>3, DiesInv

----------------------------------------------------------------------------
(* A start.                                                                *)

\* What a start leaves of the journal is what it reports.
LEMMA NotedJournal ==
    ASSUME Halfway, NEW r \in Notes(disk)
    PROVE  /\ Len(Noted(r)) \in DOMAIN Noted(r) /\ Noted(r) \in Seq(Disks)
           /\ \A k \in DOMAIN Noted(r) :
                 /\ Noted(r)[k] \in Disks
                 /\ Noted(r)[k].applied \in {disk.applied, "uncertain"}
                 /\ \/ Noted(r)[k].journal = disk.journal
                    \/ /\ disk.journal # None
                       /\ Noted(r)[k].journal
                             = Entry(disk.journal.job, "reporting", Recovered(disk))
           /\ disk.journal # None =>
                 /\ Recovered(disk) \in Said
                 /\ TrueOf(disk.journal.job, Recovered(disk), terraform)
<1> DEFINE doubted == IF Recovered(r) = "outcome_unknown" /\ r.applied # None
                      THEN Doubted(r) ELSE r
           last == Reporting(doubted, r.journal.job, Recovered(r))
<1>1. /\ r \in Disks /\ r.journal = disk.journal /\ r.applied = disk.applied
      /\ r.journal \in JournalEntries \cup {None}
  BY DEF Notes, Disks
<1>2. Recovered(r) = Recovered(disk)
  BY <1>1 DEF Recovered
<1>3. doubted \in Disks /\ doubted.journal = disk.journal
      /\ doubted.applied \in {disk.applied, "uncertain"}
  BY <1>1 DEF Doubted, Disks
<1>4. ASSUME disk.journal # None
      PROVE  /\ Recovered(disk) \in Said
             /\ TrueOf(disk.journal.job, Recovered(disk), terraform)
  <2>1. Journals(disk.journal, terraform) /\ disk.journal \in JournalEntries
    BY <1>1, <1>4 DEF Halfway, RunnerKept, Journaled
  <2>2. CASE disk.journal.phase = "reporting"
    BY <2>1, <2>2 DEF Journals, Recovered
  <2>3. CASE disk.journal.phase # "reporting"
    <3>1. CASE disk.journal.what = "trust"
      BY <2>1, <2>3, <3>1 DEF Journals, Recovered, Said, TrueOf, Unrun
    <3>2. CASE disk.journal.what # "trust"
      BY <2>3, <3>2 DEF Recovered, Said, TrueOf
    <3> QED
      BY <3>1, <3>2
  <2> QED
    BY <2>2, <2>3
<1>5. ASSUME disk.journal # None
      PROVE  /\ last \in Disks /\ last.applied \in {disk.applied, "uncertain"}
             /\ last.journal = Entry(disk.journal.job, "reporting", Recovered(disk))
  <2>1. Entry(r.journal.job, "reporting", Recovered(r)) \in JournalEntries
    BY <1>1, <1>2, <1>4, <1>5 DEF Entry, JournalEntries, Said
  <2> HIDE DEF doubted
  <2> QED
    BY <1>1, <1>2, <1>3, <2>1 DEF Reporting, Disks
<1>6. Noted(r) = <<r>> \/ (disk.journal # None /\ Noted(r) = <<doubted, last>>)
  BY <1>1, Zenon DEF Noted
<1> HIDE DEF last, doubted
<1>7. CASE Noted(r) = <<r>>
  BY <1>1, <1>4, <1>7
<1>8. CASE disk.journal # None /\ Noted(r) = <<doubted, last>>
  BY <1>3, <1>4, <1>5, <1>8
<1> QED
  BY <1>6, <1>7, <1>8

\* The runner has started, or died while it did.
LEMMA StartedInv ==
    ASSUME Halfway, pc = "down", UNCHANGED terraform, disk' \in Disks,
           disk'.applied \in {disk.applied, "uncertain"},
           \/ disk'.journal = disk.journal
           \/ /\ disk.journal # None /\ Recovered(disk) \in Said
              /\ TrueOf(disk.journal.job, Recovered(disk), terraform)
              /\ disk'.journal = Entry(disk.journal.job, "reporting", Recovered(disk)),
           pc' \in {"step", "down"}, pending' = None,
           \/ unreported' = None
           \/ /\ pc' = "step" /\ unreported' \in Reports
              /\ Started(unreported'.id, entries', nextId')
              /\ TrueOf(unreported'.id, unreported'.result, terraform)
    PROVE  RunnerInv'
<1>1. RunnerTyped'
  BY HalfwayParts DEF RunnerTyped, Planning, PCs
<1>2. Journaled(entries, nextId)'
  <2>1. CASE disk'.journal = disk.journal
    BY <2>1, SameJournal DEF Planning
  <2>2. CASE disk'.journal # disk.journal
    <3>1. Started(disk.journal.job, entries', nextId')
      BY <2>2 DEF Halfway, RunnerKept, Journaled
    <3>2. disk'.journal.job = disk.journal.job /\ Journals(disk'.journal, terraform)
      BY <2>2 DEF Entry, Journals, Said
    <3> QED
      BY <3>1, <3>2 DEF Journaled, Planning
  <2> QED
    BY <2>1, <2>2
<1>3. ToReport(entries, nextId)'
  BY DEF ToReport
<1> QED
  BY <1>1, <1>2, <1>3, Carried DEF Planning

LEMMA StartupInv == ASSUME RunnerInv, Startup PROVE RunnerInv'
<1>1. /\ pc = "down" /\ pc' = "step"
      /\ Fault \/ faults' = faults
      /\ UNCHANGED <<jobsPart, registryPart, ledgerFailed, task, pending, terraform>>
  BY DEF Startup, Goes
<1>2. Halfway
  BY <1>1, NothingMoved
<1>3. disk \in Disks /\ pending' = None /\ unreported = None
  BY <1>1, <1>2, HalfwayParts DEF RunnerTyped
<1>4. Restored(disk) \in Writes(disk)
  BY <1>3, RestoredWrites
<1>5. PICK r \in Notes(disk) : disk' = Last(Noted(r))
  BY <1>4, WritesEach DEF Startup
<1>6. /\ disk' \in Disks /\ disk'.applied \in {disk.applied, "uncertain"}
      /\ \/ disk'.journal = disk.journal
         \/ /\ disk.journal # None
            /\ disk'.journal = Entry(disk.journal.job, "reporting", Recovered(disk))
      /\ disk.journal # None =>
            /\ Recovered(disk) \in Said
            /\ TrueOf(disk.journal.job, Recovered(disk), terraform)
  BY <1>2, <1>5, NotedJournal DEF Last
<1>7. \/ unreported' = None
      \/ /\ unreported' \in Reports
         /\ Started(unreported'.id, entries', nextId')
         /\ TrueOf(unreported'.id, unreported'.result, terraform)
  <2>1. CASE disk.journal = None
    BY <1>3, <2>1 DEF Startup
  <2>2. CASE disk.journal # None
    <3>1. unreported' = [id |-> disk.journal.job, result |-> Recovered(disk),
                         install |-> KeepsInstall(disk), journaled |-> TRUE,
                         stage |-> "finish"]
      BY <2>2 DEF Startup, Report
    <3>2. Started(disk.journal.job, entries', nextId') /\ disk.journal.job \in Nat
      BY <1>2, <2>2 DEF Halfway, RunnerKept, Journaled, Started
    <3>3. KeepsInstall(disk) \in BOOLEAN
      BY DEF KeepsInstall
    <3> QED
      BY <1>6, <2>2, <3>1, <3>2, <3>3 DEF Reports
  <2> QED
    BY <2>1, <2>2
<1> QED
  BY <1>1, <1>2, <1>3, <1>6, <1>7, StartedInv

LEMMA StartupDiesInv == ASSUME RunnerInv, StartupDies PROVE RunnerInv'
<1> DEFINE s == Restored(disk)
           r == Last(s)
<1>1. /\ pc = "down" /\ Down /\ Fault
      /\ UNCHANGED <<jobsPart, registryPart, ledgerFailed, terraform>>
      /\ \E k \in DOMAIN (s \o Noted(r)) : disk' = (s \o Noted(r))[k]
  BY DEF StartupDies, Dies
<1>2. Halfway
  BY <1>1, NothingMoved
<1>3. s \in Writes(disk) /\ s \in Seq(Notes(disk))
  BY <1>2, HalfwayParts, RestoredWrites DEF Writes
<1>4. r \in Notes(disk) /\ \A k \in DOMAIN s : s[k] \in Notes(disk)
  BY <1>3, WritesEach
<1> HIDE DEF s, r
<1>5. Noted(r) \in Seq(Disks)
  BY <1>2, <1>4, NotedJournal
<1>6. \/ \E k \in DOMAIN s : disk' = s[k]
      \/ \E k \in DOMAIN Noted(r) : disk' = Noted(r)[k]
  <2>1. PICK k \in DOMAIN (s \o Noted(r)) : disk' = (s \o Noted(r))[k]
    BY <1>1
  <2>2. s \in Seq(Notes(disk)) /\ Noted(r) \in Seq(Disks) /\ k \in 1..(Len(s) + Len(Noted(r)))
    BY <1>3, <1>5, <2>1
  <2>3. CASE k <= Len(s)
    BY <2>1, <2>2, <2>3
  <2>4. CASE k > Len(s)
    <3>1. k - Len(s) \in DOMAIN Noted(r)
      BY <2>2, <2>4
    <3>2. (s \o Noted(r))[k] = Noted(r)[k - Len(s)]
      BY <2>2, <2>4
    <3> QED
      BY <2>1, <3>1, <3>2
  <2> QED
    BY <2>2, <2>3, <2>4
<1>7. CASE \E k \in DOMAIN s : disk' = s[k]
  BY <1>1, <1>2, <1>3, <1>7, DiesInv
<1>8. CASE \E k \in DOMAIN Noted(r) : disk' = Noted(r)[k]
  <2>1. /\ disk' \in Disks /\ disk'.applied \in {disk.applied, "uncertain"}
        /\ \/ disk'.journal = disk.journal
           \/ /\ disk.journal # None /\ Recovered(disk) \in Said
              /\ TrueOf(disk.journal.job, Recovered(disk), terraform)
              /\ disk'.journal = Entry(disk.journal.job, "reporting", Recovered(disk))
    BY <1>2, <1>4, <1>8, NotedJournal
  <2> QED
    BY <1>1, <1>2, <2>1, StartedInv DEF Down
<1> QED
  BY <1>6, <1>7, <1>8

----------------------------------------------------------------------------
(* The loop takes a job up, or goes on with one.                           *)

\* Halfway, bar what the runner has in hand.
ButInHand ==
    /\ TrustInv' /\ RunnerTyped /\ Journaled(entries', nextId') /\ ToReport(entries', nextId')
    /\ LinesTrue(jobEvents') /\ RunsClaimed(claims') /\ BaselineIsHonest

\* No record of how job `id` went, on either side.
Unsaid(id) ==
    /\ disk.journal # None => disk.journal.job # id
    /\ \A l \in jobEvents' : l.kind \in Reported => l.id # id

LEMMA TakenUp ==
    ASSUME ButInHand, UNCHANGED <<disk, unreported, terraform>>, RunnerTyped',
           InHand(entries, nextId, claims)', Planning' => Unsaid(task'.id),
           pending' # None => Unsaid(pending'.id)
    PROVE  RunnerInv'
<1>1. Journaled(entries, nextId)' /\ ToReport(entries, nextId)'
  BY DEF ButInHand, Journaled, ToReport, Unsaid
<1>2. LinesTrue(jobEvents)' /\ RunsClaimed(claims)' /\ BaselineIsHonest'
  BY DEF ButInHand, LinesTrue, RunsClaimed, BaselineIsHonest, Unsaid
<1> QED
  BY <1>1, <1>2 DEF ButInHand, RunnerInv, RunnerKept

\* What is known of a job that has not ended.
LEMMA JobOpen ==
    ASSUME TrustInv', NEW e \in entries'
    PROVE  /\ e.id \in Nat /\ e.id < nextId' /\ e.kind \in {"trust", "apply"}
           /\ \A f \in entries' : f.id = e.id => f = e
           /\ e.state # "done" => \A l \in jobEvents' : l.kind \in Reported => l.id # e.id
           /\ e.state \in {"working", "approved"} => \A c \in claims' : c.id # e.id
           /\ e.state \in {"waiting", "approved", "claimed"} => e.scope.kind = e.kind
<1>1. /\ Good(Held', nextId', claims') /\ Held'.entries = entries' /\ Held'.events = jobEvents'
      /\ ScopesFit'
  BY DEF TrustInv, JobsKept, JobsInv, Held
<1>2. e.id \in Nat /\ e.kind \in {"trust", "apply"}
  BY <1>1, GoodParts DEF Entries
<1>3. e.id < nextId' /\ \A f \in entries' : f.id = e.id => f = e
  BY <1>1 DEF Good, OneEach
<1>4. e.state # "done" => \A l \in jobEvents' : l.kind \in Reported => l.id # e.id
  BY <1>1 DEF Good, Told, OutcomesIn, OutcomeLines, Reported
<1>5. e.state \in {"working", "approved"} => \A c \in claims' : c.id # e.id
  BY <1>1 DEF Good, HandedOut
<1> QED
  BY <1>1, <1>2, <1>3, <1>4, <1>5 DEF ScopesFit

LEMMA PollsInv ==
    ASSUME RunnerInv, NEW t \in Time, Poll(t)
    PROVE  RunnerInv'
<1> DEFINE started == \E e \in StartedNow : Goes("work") /\ task' = Polled(e) /\ pending' = None
           approved ==
               \E e \in ApprovedNow :
                  /\ Goes(IF pending # None /\ pending.id = e.id THEN "approved" ELSE "orphan")
                  /\ task' = Polled(e)
                  /\ pending' = IF pending # None /\ pending.id = e.id THEN pending ELSE None
           idle == /\ StartedNow \cup ApprovedNow = {}
                   /\ Goes(IF pending = None THEN "step" ELSE "check")
                   /\ UNCHANGED <<task, pending>>
<1>1. pc = "step" /\ unreported = None
  BY DEF Poll
<1>2. Call(TRUE, JobPoll(JobsTicked(JobsAt(gate, t)), Me),
           UNCHANGED <<disk, unreported, terraform>> /\ (started \/ approved \/ idle),
           UNCHANGED runnerVars)
  BY Zenon DEF Poll
<1> HIDE DEF started, approved, idle
<1>3. /\ \/ /\ JobPoll(JobsTicked(JobsAt(gate, t)), Me) /\ UNCHANGED registryPart
            /\ (UNCHANGED ledgerFailed \/ ledgerFailed' = TRUE) /\ (Fault \/ faults' = faults)
         \/ UNCHANGED <<jobsPart, registryPart, ledgerFailed>> /\ (Fault \/ faults' = faults)
      /\ \/ UNCHANGED <<disk, unreported, terraform>> /\ (started \/ approved \/ idle)
         \/ UNCHANGED runnerVars
  BY <1>2, Zenon DEF Call, trustVars
<1>4. Halfway
  BY <1>3, QuietMoved, NothingMoved
<1>5. ButInHand /\ TrustInv' /\ RunnerTyped
  BY <1>4 DEF Halfway, RunnerKept, ButInHand
<1>6. CASE UNCHANGED runnerVars
  BY <1>4, <1>6, RunnerStays
<1>7. CASE UNCHANGED <<disk, unreported, terraform>> /\ started
  <2>1. PICK e \in StartedNow : pc' = "work" /\ task' = Polled(e) /\ pending' = None
    BY <1>7 DEF started, Goes
  <2>2. task'.id = e.id /\ task'.kind = e.kind
    BY <2>1 DEF Polled
  <2>3. /\ e \in entries' /\ e.state = "working"
        /\ \E q \in entries : q.id = e.id /\ q.state = "queued"
    BY DEF StartedNow
  <2>4. /\ e.id \in Nat /\ e.id < nextId' /\ e.kind \in {"trust", "apply"}
        /\ \A f \in entries' : f.id = e.id => f = e
        /\ \A l \in jobEvents' : l.kind \in Reported => l.id # e.id
        /\ \A c \in claims' : c.id # e.id
    BY <1>5, <2>3, JobOpen
  <2>5. disk.journal # None => disk.journal.job # e.id
    BY <2>3 DEF RunnerInv, RunnerKept, Journaled, Started
  <2>6. Plans(e.id, e.kind, entries', nextId', claims')
    BY <2>3, <2>4 DEF Plans, Started
  <2>7. InHand(entries, nextId, claims)'
    BY <2>1, <2>2, <2>6 DEF InHand
  <2>8. RunnerTyped'
    BY <1>1, <1>5, <1>7, <2>1, <2>2, <2>4 DEF RunnerTyped, Planning, PCs
  <2> QED
    BY <1>5, <1>7, <2>1, <2>2, <2>4, <2>5, <2>7, <2>8, TakenUp DEF Unsaid
<1>8. CASE UNCHANGED <<disk, unreported, terraform>> /\ approved
  <2>1. PICK e \in ApprovedNow :
           /\ pc' = IF pending # None /\ pending.id = e.id THEN "approved" ELSE "orphan"
           /\ task' = Polled(e)
           /\ pending' = IF pending # None /\ pending.id = e.id THEN pending ELSE None
    BY <1>8 DEF approved, Goes
  <2>2. task'.id = e.id /\ task'.kind = e.kind
    BY <2>1 DEF Polled
  <2>3. e \in entries' /\ e.state = "approved"
    BY DEF ApprovedNow
  <2>4. /\ e.id \in Nat /\ e.id < nextId' /\ e.kind \in {"trust", "apply"}
        /\ \A f \in entries' : f.id = e.id => f = e
        /\ \A c \in claims' : c.id # e.id
    BY <1>5, <2>3, JobOpen
  <2>5. CASE pending # None /\ pending.id = e.id
    <3>1. pc' = "approved" /\ pending' = pending
      BY <2>1, <2>5
    <3>2. e.kind = pending.scope.kind
      BY <1>4, <2>3, <2>5 DEF Halfway, RunnerKept, InHand, Waits
    <3>3. RunnerTyped'
      BY <1>1, <1>5, <1>8, <2>2, <2>5, <3>1, <3>2 DEF RunnerTyped, Planning, PCs
    <3>4. Journaled(entries, nextId)' /\ ToReport(entries, nextId)'
      BY <1>4, <1>8, <3>1, SameJournal, SameReport DEF Planning
    <3> QED
      BY <1>4, <1>8, <2>5, <3>1, <3>3, <3>4, Carried DEF Planning
  <2>6. CASE ~(pending # None /\ pending.id = e.id)
    <3>1. pc' = "orphan" /\ pending' = None
      BY <2>1, <2>6
    <3>2. Started(e.id, entries', nextId') /\ Unrun(e.id, terraform)
      BY <1>5, <2>3, <2>4 DEF Started, Unrun, ButInHand, RunsClaimed
    <3>3. InHand(entries, nextId, claims)'
      BY <1>8, <2>2, <3>1, <3>2 DEF InHand, Planning
    <3>4. RunnerTyped'
      BY <1>1, <1>5, <1>8, <2>2, <2>4, <3>1 DEF RunnerTyped, Planning, PCs
    <3> QED
      BY <1>5, <1>8, <3>1, <3>3, <3>4, TakenUp DEF Planning
  <2> QED
    BY <2>5, <2>6
<1>9. CASE UNCHANGED <<disk, unreported, terraform>> /\ idle
  <2>1. /\ pc' = IF pending = None THEN "step" ELSE "check"
        /\ task' = task /\ pending' = pending
    BY <1>9 DEF idle, Goes
  <2>2. RunnerTyped'
    BY <1>1, <1>5, <1>9, <2>1 DEF RunnerTyped, Planning, PCs
  <2>3. Journaled(entries, nextId)' /\ ToReport(entries, nextId)'
    BY <1>4, <1>9, <2>1, SameJournal, SameReport DEF Planning
  <2> QED
    BY <1>4, <1>9, <2>1, <2>2, <2>3, Carried DEF Planning
<1> QED
  BY <1>3, <1>6, <1>7, <1>8, <1>9

LEMMA CheckPendingInv ==
    ASSUME RunnerInv, NEW t \in Time, CheckPending(t)
    PROVE  RunnerInv'
<1> DEFINE arrived == /\ ClaimArrived(StateOf(pending.id)) /\ Goes("execute")
                      /\ UNCHANGED <<disk, pending>>
           waits == /\ StateOf(pending.id) \subseteq Active \ {"claimed"}
                    /\ StateOf(pending.id) # {}
                    /\ Goes("step") /\ UNCHANGED <<disk, pending>>
           over == /\ StateOf(pending.id) \subseteq {"done"}
                   /\ Goes("step") /\ pending' = None /\ disk' = Closed(disk, pending.id)
           unsure == Goes("step") /\ UNCHANGED <<disk, task, pending, unreported, terraform>>
<1>1. pc = "check"
  BY DEF CheckPending
<1>2. Call(FALSE, JobTick(JobsAt(gate, t)),
           UNCHANGED <<task, unreported, terraform>> /\ (arrived \/ waits \/ over), unsure)
  BY Zenon DEF CheckPending
<1> HIDE DEF arrived, waits, over, unsure
<1>3. /\ \/ /\ JobTick(JobsAt(gate, t)) /\ UNCHANGED registryPart
            /\ (UNCHANGED ledgerFailed \/ ledgerFailed' = TRUE) /\ (Fault \/ faults' = faults)
         \/ UNCHANGED <<jobsPart, registryPart, ledgerFailed>> /\ (Fault \/ faults' = faults)
      /\ \/ UNCHANGED <<task, unreported, terraform>> /\ (arrived \/ waits \/ over)
         \/ unsure
  BY <1>2, Zenon DEF Call, trustVars
<1>4. Halfway
  BY <1>3, QuietMoved, NothingMoved
<1>5. TrustInv' /\ RunnerTyped /\ pending # None /\ unreported = None
  BY <1>1, <1>4 DEF Halfway, RunnerKept, RunnerTyped
<1>6. UNCHANGED <<task, unreported, terraform>>
  BY <1>3 DEF unsure
<1>7. CASE over
  BY <1>4, <1>5, <1>6, <1>7, HalfwayParts, Dropped DEF over, Goes
<1>8. CASE arrived \/ waits \/ unsure
  <2>1. /\ disk' = disk /\ pending' = pending /\ pc' \in {"step", "execute"}
        /\ pc' = "execute" => StateOf(pending.id) = {"claimed"}
    BY <1>8 DEF arrived, waits, unsure, Goes, ClaimArrived
  <2>2. ASSUME StateOf(pending.id) = {"claimed"} PROVE \E c \in claims' : c.id = pending.id
    <3>1. PICK e \in entries' : e.id = pending.id /\ e.state = "claimed"
      BY <2>2 DEF StateOf
    <3> QED
      BY <1>5, <3>1 DEF TrustInv, JobsKept, ClaimsHeld
  <2>3. RunnerTyped'
    BY <1>5, <1>6, <2>1 DEF RunnerTyped, Planning, PCs
  <2>4. Journaled(entries, nextId)' /\ ToReport(entries, nextId)'
    BY <1>4, <1>6, <2>1, SameJournal, SameReport DEF Planning
  <2> QED
    BY <1>4, <1>5, <1>6, <2>1, <2>2, <2>3, <2>4, Carried DEF Planning
<1> QED
  BY <1>3, <1>7, <1>8

----------------------------------------------------------------------------
(* A plan, submitted or given up.                                          *)

LEMMA SubmitsInv ==
    ASSUME RunnerInv, NEW t \in Time, NEW sc \in Planned, Submit(t, sc)
    PROVE  RunnerInv'
<1> DEFINE waits == /\ pending' = [id |-> task.id, scope |-> sc]
                    /\ Goes("step") /\ Forgets
                    /\ UNCHANGED <<disk, unreported, terraform>>
           refuses == /\ StateOf(task.id) # {"waiting"} /\ Goes("refuse")
                      /\ UNCHANGED <<disk, task, pending, unreported, terraform>>
           answered == \/ StateOf(task.id) = {"waiting"} /\ waits
                       \/ refuses
           submitted == JobSubmit(JobsAt(gate, t), Me, task.id, sc)
           moves == {<<"working", "waiting">>}
<1>1. pc = "work"
  BY DEF Submit
<1>2. Call(TRUE, submitted, answered, waits)
  BY Zenon DEF Submit
<1> HIDE DEF submitted, waits, refuses, answered
<1>3. /\ \/ /\ submitted /\ UNCHANGED registryPart
            /\ (UNCHANGED ledgerFailed \/ ledgerFailed' = TRUE) /\ (Fault \/ faults' = faults)
         \/ /\ UNCHANGED <<jobsPart, registryPart, ledgerFailed>> /\ (Fault \/ faults' = faults)
            /\ waits
      /\ answered \/ waits
  BY <1>2, Zenon DEF Call, trustVars
<1>4. waits \/ refuses
  BY <1>3 DEF answered
<1>5. /\ TrustInv /\ JobsKept /\ RunnerTyped /\ task.kind \in {"trust", "apply"}
      /\ Plans(task.id, task.kind, entries, nextId, claims)
      /\ pending = None /\ unreported = None
      /\ disk.journal # None => disk.journal.job # task.id
  BY <1>1 DEF RunnerInv, TrustInv, RunnerKept, RunnerTyped, InHand, Journaled, Planning
<1>6. sc \in JobScopes /\ sc.kind = task.kind
  BY <1>5 DEF Planned, PlannedTrust, PlannedApply, JobScopes, TrustScopes, ApplyScopes
<1>7. /\ ButInHand /\ Started(task.id, entries', nextId')
      /\ \A f \in entries' : f.id = task.id =>
            /\ f.kind = task.kind /\ f.state \in {"working", "waiting", "done"}
            /\ f.state = "waiting" => f.scope = sc
      /\ \A c \in claims' : c.id # task.id
  <2>1. CASE UNCHANGED <<jobsPart, registryPart, ledgerFailed>> /\ (Fault \/ faults' = faults)
    <3>1. Halfway
      BY <2>1, NothingMoved
    <3> QED
      BY <1>1, <3>1 DEF Halfway, RunnerKept, ButInHand, InHand, Plans, Planning
  <2>2. CASE /\ submitted /\ UNCHANGED registryPart
             /\ (UNCHANGED ledgerFailed \/ ledgerFailed' = TRUE)
             /\ (Fault \/ faults' = faults)
    <3>1. /\ JobsWent(moves) /\ Muted(jobEvents, jobEvents')
          /\ \A f \in entries' :
                f.state = "waiting" => f \in entries \/ (f.id = task.id /\ f.scope = sc)
      BY <1>5, <1>6, <2>2, CallSubmit DEF submitted
    <3>2. TrustWent(moves) /\ moves \in SUBSET Moves
      BY <1>5, <2>2, <3>1, FaultTyped, CallKept DEF Moves
    <3>3. ButInHand
      BY <3>1, <3>2, DaemonKept, MutedLines DEF ButInHand
    <3>4. Started(task.id, entries', nextId')
      BY <1>5, <3>1, <3>2, StartedOn DEF Plans
    <3>5. ASSUME NEW f \in entries', f.id = task.id
          PROVE  /\ f.kind = task.kind /\ f.state \in {"working", "waiting", "done"}
                 /\ f.state = "waiting" => f.scope = sc
      <4>1. PICK e \in entries : Passed(e, f, moves)
        BY <1>5, <3>1, <3>5 DEF JobsWent, Evolved, Plans, Started
      <4>2. e.id = task.id /\ e.state \in {"working", "done"} /\ e.kind = task.kind
        BY <1>5, <3>5, <4>1 DEF Passed, Plans
      <4>3. f.kind = task.kind /\ f.state \in {"working", "waiting", "done"}
        BY <4>1, <4>2 DEF Passed
      <4>4. f.state = "waiting" => f \notin entries
        BY <1>5, <3>5 DEF Plans
      <4> QED
        BY <3>1, <4>3, <4>4
    <3>6. ASSUME NEW c \in claims' PROVE c.id # task.id
      BY <1>5, <3>1 DEF JobsWent, Plans
    <3> QED
      BY <3>3, <3>4, <3>5, <3>6
  <2> QED
    BY <1>3, <2>1, <2>2
<1>8. /\ Unrun(task.id, terraform)
      /\ \A l \in jobEvents' : l.kind \in Reported => l.id # task.id
  BY <1>1, <1>7 DEF ButInHand, RunsClaimed, Unrun, LinesTrue, Planning
<1>9. CASE waits
  <2>1. /\ pending' = [id |-> task.id, scope |-> sc] /\ pc' = "step"
        /\ UNCHANGED <<disk, unreported, terraform>>
    BY <1>9 DEF waits, Goes
  <2>2. pending'.id = task.id /\ pending'.scope = sc /\ task.id \in Nat
    BY <1>7, <2>1 DEF Started
  <2>3. Waits(task.id, sc, entries', nextId', claims')
    BY <1>6, <1>7 DEF Waits
  <2>4. InHand(entries, nextId, claims)'
    BY <1>8, <2>1, <2>2, <2>3 DEF InHand, Planning
  <2>5. RunnerTyped'
    BY <1>5, <1>6, <2>1, <2>2 DEF RunnerTyped, Planning, PCs
  <2> QED
    BY <1>5, <1>7, <1>8, <2>1, <2>2, <2>4, <2>5, TakenUp DEF Unsaid, Planning
<1>10. CASE refuses
  <2>1. /\ StateOf(task.id) # {"waiting"} /\ pc' = "refuse" /\ task' = task
        /\ pending' = pending /\ UNCHANGED <<disk, unreported, terraform>>
    BY <1>10 DEF refuses, Goes
  <2>2. ASSUME NEW f \in entries', f.id = task.id, f.state = "waiting" PROVE FALSE
    <3>1. \A g \in entries' : g.id = task.id => g = f
      BY <1>7, <2>2, JobOpen DEF ButInHand
    <3>2. StateOf(task.id) = {"waiting"}
      BY <2>2, <3>1 DEF StateOf
    <3> QED
      BY <2>1, <3>2
  <2>3. Plans(task.id, task.kind, entries', nextId', claims')
    BY <1>7, <2>2 DEF Plans
  <2>4. InHand(entries, nextId, claims)'
    BY <1>5, <2>1, <2>3 DEF InHand
  <2>5. RunnerTyped'
    BY <1>5, <2>1 DEF RunnerTyped, Planning, PCs
  <2> QED
    BY <1>5, <1>7, <1>8, <2>1, <2>4, <2>5, TakenUp DEF Unsaid
<1> QED
  BY <1>4, <1>9, <1>10

LEMMA PlanFailsInv == ASSUME RunnerInv, PlanFails PROVE RunnerInv'
<1>1. /\ pc = "work" /\ pc' = "refuse"
      /\ UNCHANGED <<trustVars, disk, task, pending, unreported, terraform>>
  BY DEF PlanFails, Goes
<1>2. Halfway
  <2>1. UNCHANGED <<jobsPart, registryPart, ledgerFailed>> /\ faults' = faults
    BY <1>1 DEF trustVars
  <2> QED
    BY <2>1, NothingMoved
<1>3. RunnerTyped'
  BY <1>1, <1>2, HalfwayParts DEF RunnerTyped, Planning, PCs
<1>4. Journaled(entries, nextId)' /\ ToReport(entries, nextId)'
  BY <1>1, <1>2, SameJournal, SameReport DEF Planning
<1> QED
  BY <1>1, <1>2, <1>3, <1>4, Carried DEF Planning

LEMMA PlanCancelledInv ==
    ASSUME RunnerInv, NEW t \in Time, PlanCancelled(t)
    PROVE  RunnerInv'
<1> DEFINE over == /\ StateOf(task.id) # {"working"} /\ Goes("step") /\ Forgets
                   /\ UNCHANGED <<disk, pending, unreported, terraform>>
           on == StateOf(task.id) = {"working"} /\ UNCHANGED runnerVars
<1>1. pc = "work" /\ Call(FALSE, JobTick(JobsAt(gate, t)), on \/ over, UNCHANGED runnerVars)
  BY Zenon DEF PlanCancelled
<1> HIDE DEF on, over
<1>2. /\ \/ /\ JobTick(JobsAt(gate, t)) /\ UNCHANGED registryPart
            /\ (UNCHANGED ledgerFailed \/ ledgerFailed' = TRUE) /\ (Fault \/ faults' = faults)
         \/ UNCHANGED <<jobsPart, registryPart, ledgerFailed>> /\ (Fault \/ faults' = faults)
      /\ on \/ over \/ UNCHANGED runnerVars
  BY <1>1, Zenon DEF Call, trustVars
<1>3. Halfway
  BY <1>2, QuietMoved, NothingMoved
<1>4. UNCHANGED runnerVars \/ over
  BY <1>2 DEF on
<1>5. CASE over
  <2>1. pending = None
    BY <1>1, <1>3, HalfwayParts DEF RunnerTyped
  <2> QED
    BY <1>3, <1>5, <2>1, HalfwayParts, Dropped DEF over, Goes
<1> QED
  BY <1>3, <1>4, <1>5, RunnerStays

LEMMA RefusesInv ==
    ASSUME RunnerInv, NEW t \in Time, NEW result \in {"refused", "plan_failed"},
           Refuse(t, result)
    PROVE  RunnerInv'
<1> DEFINE over == Goes("step") /\ Forgets
                   /\ UNCHANGED <<disk, pending, unreported, terraform>>
<1>1. pc = "refuse" /\ Call(FALSE, JobRefuse(JobsAt(gate, t), Me, task.id, result), over, over)
  BY Zenon DEF Refuse
<1> HIDE DEF over
<1>2. /\ \/ /\ JobRefuse(JobsAt(gate, t), Me, task.id, result) /\ UNCHANGED registryPart
            /\ (UNCHANGED ledgerFailed \/ ledgerFailed' = TRUE) /\ (Fault \/ faults' = faults)
         \/ UNCHANGED <<jobsPart, registryPart, ledgerFailed>> /\ (Fault \/ faults' = faults)
      /\ over
  BY <1>1, Zenon DEF Call, trustVars
<1>3. Halfway
  BY <1>2, QuietMoved, NothingMoved
<1>4. pending = None
  BY <1>1, <1>3, HalfwayParts DEF RunnerTyped
<1> QED
  BY <1>2, <1>3, <1>4, HalfwayParts, Dropped DEF over, Goes

----------------------------------------------------------------------------
(* A claim.                                                                *)

\* The daemon's side of a claim, had or not.
LEMMA ClaimMoved ==
    ASSUME RunnerInv, NEW t \in Time, NEW id \in Nat,
           \/ /\ JobClaim(JobsAt(gate, t), Me, id) /\ UNCHANGED registryPart
              /\ (UNCHANGED ledgerFailed \/ ledgerFailed' = TRUE) /\ (Fault \/ faults' = faults)
           \/ UNCHANGED <<jobsPart, registryPart, ledgerFailed>> /\ (Fault \/ faults' = faults)
    PROVE  Halfway
<1>1. JobsKept
  BY DEF RunnerInv, TrustInv
<1>2. ASSUME JobClaim(JobsAt(gate, t), Me, id), UNCHANGED registryPart,
             UNCHANGED ledgerFailed \/ ledgerFailed' = TRUE, Fault \/ faults' = faults
      PROVE  Halfway
  <2>1. JobsWent({<<"approved", "claimed">>}) /\ Muted(jobEvents, jobEvents')
    BY <1>1, <1>2, CallClaim
  <2>2. LinesTrue(jobEvents') /\ {<<"approved", "claimed">>} \in SUBSET Unsubmitted
    BY <2>1, MutedLines DEF Unsubmitted, Moves
  <2> QED
    BY <1>2, <2>1, <2>2, CallMoved
<1> QED
  BY <1>2, NothingMoved

\* The claim is in the journal before it is sent.
LEMMA ClaimNoted ==
    ASSUME RunnerTyped, NEW id \in Nat, NEW kind \in {"trust", "apply"}
    PROVE  LET noted == [disk EXCEPT !.journal = Entry(id, "claimed", kind)]
           IN  /\ noted \in Disks /\ noted.applied = disk.applied
               /\ noted.journal = Entry(id, "claimed", kind)
               /\ Closed(noted, id) \in Disks /\ Closed(noted, id).applied = disk.applied
               /\ Closed(noted, id).journal = None
<1> DEFINE noted == [disk EXCEPT !.journal = Entry(id, "claimed", kind)]
<1>1. Entry(id, "claimed", kind) \in JournalEntries /\ Entry(id, "claimed", kind).job = id
  BY DEF Entry, JournalEntries
<1>2. /\ noted \in Disks /\ noted.applied = disk.applied
      /\ noted.journal = Entry(id, "claimed", kind)
  BY <1>1 DEF RunnerTyped, Disks
<1> HIDE DEF noted
<1>3. /\ Closed(noted, id) \in Disks /\ Closed(noted, id).applied = disk.applied
      /\ Closed(noted, id).journal = None
  <2>1. CASE noted.journal = None
    BY <1>2, <2>1 DEF Closed
  <2>2. CASE noted.journal # None
    <3>1. Closed(noted, id) = [noted EXCEPT !.journal = None]
      BY <1>1, <1>2, <2>2 DEF Closed
    <3> QED
      BY <1>2, <3>1 DEF Disks
  <2> QED
    BY <2>1, <2>2
<1> QED
  BY <1>2, <1>3 DEF noted

LEMMA ClaimsInv ==
    ASSUME RunnerInv, NEW t \in Time, Claim(t)
    PROVE  RunnerInv'
<1> DEFINE noted == [disk EXCEPT !.journal = Entry(task.id, "claimed", task.kind)]
           handed == Handed(task.id) /\ Goes("execute") /\ disk' = noted /\ UNCHANGED pending
           refused == /\ ~Handed(task.id) /\ Goes("step") /\ pending' = None
                      /\ disk' = Closed(noted, task.id)
           unsure == /\ Goes("step") /\ Forgets /\ disk' = noted
                     /\ UNCHANGED <<pending, unreported, terraform>>
<1>1. pc = "approved"
  BY DEF Claim
<1>2. Call(TRUE, JobClaim(JobsAt(gate, t), Me, task.id),
           Forgets /\ UNCHANGED <<unreported, terraform>> /\ (handed \/ refused), unsure)
  BY Zenon DEF Claim
<1> HIDE DEF handed, refused, unsure
<1>3. /\ \/ /\ JobClaim(JobsAt(gate, t), Me, task.id) /\ UNCHANGED registryPart
            /\ (UNCHANGED ledgerFailed \/ ledgerFailed' = TRUE) /\ (Fault \/ faults' = faults)
         \/ UNCHANGED <<jobsPart, registryPart, ledgerFailed>> /\ (Fault \/ faults' = faults)
      /\ \/ UNCHANGED <<unreported, terraform>> /\ (handed \/ refused)
         \/ unsure
  BY <1>2, Zenon DEF Call, trustVars
<1>4. /\ pending # None /\ unreported = None /\ RunnerTyped
      /\ task.id = pending.id /\ task.kind = pending.scope.kind
      /\ task.id \in Nat /\ task.kind \in {"trust", "apply"}
  BY <1>1 DEF RunnerInv, RunnerKept, RunnerTyped, JobScopes, TrustScopes, ApplyScopes
<1>5. Halfway
  BY <1>3, <1>4, ClaimMoved
<1>6. /\ noted \in Disks /\ noted.applied = disk.applied
      /\ noted.journal = Entry(task.id, "claimed", task.kind)
      /\ Closed(noted, task.id) \in Disks /\ Closed(noted, task.id).applied = disk.applied
      /\ Closed(noted, task.id).journal = None
  BY <1>4, ClaimNoted
<1> HIDE DEF noted
<1>7. /\ UNCHANGED <<unreported, terraform>>
      /\ \/ disk' = noted /\ pending' = pending /\ pc' \in {"step", "execute"}
         \/ disk' = Closed(noted, task.id) /\ pending' = None /\ pc' = "step"
      /\ pc' = "execute" => \E c \in claims' : c.id = pending.id
  BY <1>3, <1>4 DEF handed, refused, unsure, Goes, Handed
<1>8. RunnerTyped'
  BY <1>4, <1>6, <1>7 DEF RunnerTyped, Planning, PCs
<1>9. Journaled(entries, nextId)'
  <2>1. CASE disk' = Closed(noted, task.id)
    BY <1>6, <2>1 DEF Journaled
  <2>2. CASE disk' = noted /\ pending' = pending
    <3>1. Started(pending.id, entries', nextId') /\ Unrun(pending.id, terraform)
      BY <1>4, <1>5 DEF Halfway, RunnerKept, InHand, Waits
    <3>2. /\ disk'.journal.job = task.id /\ disk'.journal.phase = "claimed"
          /\ disk'.journal.what = task.kind
      BY <1>6, <2>2 DEF Entry
    <3>3. Journals(disk'.journal, terraform')
      BY <1>4, <1>7, <3>1, <3>2 DEF Journals
    <3> QED
      BY <1>4, <1>7, <2>2, <3>1, <3>2, <3>3 DEF Journaled, Planning
  <2> QED
    BY <1>7, <2>1, <2>2
<1>10. ToReport(entries, nextId)'
  BY <1>5, <1>7, SameReport
<1> QED
  BY <1>4, <1>5, <1>6, <1>7, <1>8, <1>9, <1>10, Carried DEF Planning

LEMMA OrphanInv ==
    ASSUME RunnerInv, NEW t \in Time, Orphan(t)
    PROVE  RunnerInv'
<1> DEFINE noted == [disk EXCEPT !.journal = Entry(task.id, "claimed", task.kind)]
           handed == /\ Handed(task.id) /\ disk' = noted
                     /\ Report(task.id, "apply_failed", FALSE, FALSE)
           refused == /\ ~Handed(task.id) /\ disk' = Closed(noted, task.id)
                      /\ UNCHANGED unreported
           unsure == /\ Goes("step") /\ Forgets /\ disk' = noted
                     /\ UNCHANGED <<pending, unreported, terraform>>
<1>1. pc = "orphan"
  BY DEF Orphan
<1>2. Call(TRUE, JobClaim(JobsAt(gate, t), Me, task.id),
           Goes("step") /\ Forgets /\ UNCHANGED <<pending, terraform>> /\ (handed \/ refused),
           unsure)
  BY Zenon DEF Orphan
<1> HIDE DEF handed, refused, unsure
<1>3. /\ \/ /\ JobClaim(JobsAt(gate, t), Me, task.id) /\ UNCHANGED registryPart
            /\ (UNCHANGED ledgerFailed \/ ledgerFailed' = TRUE) /\ (Fault \/ faults' = faults)
         \/ UNCHANGED <<jobsPart, registryPart, ledgerFailed>> /\ (Fault \/ faults' = faults)
      /\ \/ Goes("step") /\ UNCHANGED <<pending, terraform>> /\ (handed \/ refused)
         \/ unsure
  BY <1>2, Zenon DEF Call, trustVars
<1>4. /\ pending = None /\ unreported = None /\ RunnerTyped
      /\ task.id \in Nat /\ task.kind \in {"trust", "apply"}
  BY <1>1 DEF RunnerInv, RunnerKept, RunnerTyped, InHand, Started
<1>5. Halfway
  BY <1>3, <1>4, ClaimMoved
<1>6. /\ noted \in Disks /\ noted.applied = disk.applied
      /\ noted.journal = Entry(task.id, "claimed", task.kind)
      /\ Closed(noted, task.id) \in Disks /\ Closed(noted, task.id).applied = disk.applied
      /\ Closed(noted, task.id).journal = None
  BY <1>4, ClaimNoted
<1> HIDE DEF noted
<1>7. /\ pending' = pending /\ UNCHANGED terraform /\ pc' = "step"
      /\ disk' \in {noted, Closed(noted, task.id)}
      /\ \/ unreported' = unreported
         \/ unreported' = [id |-> task.id, result |-> "apply_failed", install |-> FALSE,
                           journaled |-> FALSE, stage |-> "finish"]
  BY <1>3 DEF handed, refused, unsure, Goes, Report
<1>8. Started(task.id, entries', nextId') /\ Unrun(task.id, terraform)
  BY <1>1, <1>5 DEF Halfway, RunnerKept, InHand
<1>9. RunnerTyped'
  <2>1. unreported' # None => unreported' \in Reports
    <3>1. [id |-> task.id, result |-> "apply_failed", install |-> FALSE,
           journaled |-> FALSE, stage |-> "finish"] \in Reports
      BY <1>4 DEF Reports, Said
    <3> QED
      BY <1>4, <1>7, <3>1
  <2>2. disk' \in Disks
    BY <1>6, <1>7
  <2> QED
    BY <1>4, <1>7, <2>1, <2>2 DEF RunnerTyped, Planning, PCs
<1>10. Journaled(entries, nextId)'
  <2>1. CASE disk' = Closed(noted, task.id)
    BY <1>6, <2>1 DEF Journaled
  <2>2. CASE disk' = noted
    <3>1. /\ disk'.journal.job = task.id /\ disk'.journal.phase = "claimed"
          /\ disk'.journal.what = task.kind
      BY <1>6, <2>2 DEF Entry
    <3>2. Journals(disk'.journal, terraform')
      BY <1>4, <1>7, <1>8, <3>1 DEF Journals
    <3> QED
      BY <1>4, <1>7, <1>8, <3>1, <3>2 DEF Journaled, Planning
  <2> QED
    BY <1>7, <2>1, <2>2
<1>11. ToReport(entries, nextId)'
  BY <1>4, <1>7, <1>8 DEF ToReport, TrueOf, Unrun
<1> QED
  BY <1>4, <1>5, <1>6, <1>7, <1>9, <1>10, <1>11, Carried DEF Planning

LEMMA ClaimUnjournaledInv == ASSUME RunnerInv, ClaimUnjournaled PROVE RunnerInv'
<1>1. /\ pc' = "step" /\ pending' = None
      /\ UNCHANGED <<jobsPart, registryPart, ledgerFailed, disk, unreported, terraform>>
      /\ Fault \/ faults' = faults
  BY DEF ClaimUnjournaled, Goes
<1>2. Halfway
  BY <1>1, NothingMoved
<1> QED
  BY <1>1, <1>2, HalfwayParts, Dropped

----------------------------------------------------------------------------
(* The invariant holds throughout.                                         *)

LEMMA RunnerStarts ==
    ASSUME RunnerInit
    PROVE  RunnerInv
<1>1. TrustInv
  BY TrustStarts DEF RunnerInit
<1>2. /\ disk = [journal |-> None, tree |-> DigestOf(registry[Project]),
                 json |-> TrustedNow[Project], prev |-> None, prevJson |-> None,
                 marker |-> None, applied |-> None]
      /\ pc = "down" /\ task = None /\ pending = None /\ unreported = None
      /\ terraform = <<>> /\ jobEvents = {}
  BY DEF RunnerInit, TrustInit
<1>3. disk \in Disks
  <2>1. registry[Project] \in TrustRecords \cup {None}
    BY <1>1, RunnerAssumption DEF TrustInv, RegistryKept
  <2>2. DigestOf(registry[Project]) \in Trees
    BY <2>1 DEF DigestOf, Trees, TrustRecords
  <2>3. TrustedNow[Project] \in Records
    BY <2>1, RunnerAssumption DEF TrustedNow, Records, Revisions, TrustRecords
  <2>4. None \in Trees /\ None \in Records
    BY DEF Trees, Records
  <2> QED
    BY <1>2, <2>2, <2>3, <2>4 DEF Disks
<1>4. RunnerTyped
  BY <1>2, <1>3 DEF RunnerTyped, Planning, PCs
<1>5. /\ InHand(entries, nextId, claims) /\ Journaled(entries, nextId)
      /\ ToReport(entries, nextId) /\ LinesTrue(jobEvents) /\ RunsClaimed(claims)
      /\ BaselineIsHonest
  BY <1>2, RunnerAssumption DEF InHand, Journaled, ToReport, LinesTrue, RunsClaimed,
                                BaselineIsHonest, Planning
<1> QED
  BY <1>1, <1>4, <1>5 DEF RunnerInv, RunnerKept

LEMMA RunnerSteps ==
    ASSUME RunnerInv, [RunnerNext]_vars
    PROVE  RunnerInv'
<1>1. Readings \subseteq Time
  BY DEF Readings
<1>2. CASE Working
  BY <1>1, <1>2, PollsInv, CheckPendingInv, PlanCancelledInv, ClaimsInv, OrphanInv,
     SubmitsInv, RefusesInv DEF Working
<1>3. CASE PlanFails
  BY <1>3, PlanFailsInv
<1>4. CASE ClaimUnjournaled
  BY <1>4, ClaimUnjournaledInv
<1>5. CASE Executing
  BY <1>5, InstallInv, ApplyRefusedInv, ApplyPlanInv DEF Executing
<1>6. CASE Delivering
  BY <1>1, <1>6, JournalReportInv, SettleInv, SendFinishInv, AskStatusInv, SendUnknownInv
     DEF Delivering
<1>7. CASE Startup
  BY <1>7, StartupInv
<1>8. CASE Dying
  BY <1>8, CrashInv, InstallDiesInv, SettleDiesInv, StartupDiesInv, ApplyDiesInv DEF Dying
<1>9. CASE TrustOthers /\ UNCHANGED runnerVars
  <2>1. TrustWent({<<"waiting", "approved">>}) /\ Muted(jobEvents, jobEvents')
    BY <1>9, OthersWent DEF RunnerInv
  <2>2. LinesTrue(jobEvents') /\ {<<"waiting", "approved">>} \in SUBSET Unsubmitted
    BY <2>1, MutedLines DEF Unsubmitted, Moves
  <2>3. Halfway
    BY <2>1, <2>2, DaemonMoved
  <2> QED
    BY <1>9, <2>3, RunnerStays
<1>10. CASE UNCHANGED vars
  <2>1. UNCHANGED <<jobsPart, registryPart, ledgerFailed>> /\ faults' = faults
        /\ UNCHANGED runnerVars
    BY <1>10 DEF vars, trustVars
  <2> QED
    BY <2>1, NothingMoved, RunnerStays
<1> QED
  BY <1>2, <1>3, <1>4, <1>5, <1>6, <1>7, <1>8, <1>9, <1>10 DEF RunnerNext

LEMMA RunnerAlways == RunnerSpec => []RunnerInv
<1>1. RunnerInit => RunnerInv
  BY RunnerStarts
<1>2. RunnerInv /\ [RunnerNext]_vars => RunnerInv'
  BY RunnerSteps
<1> QED
  BY <1>1, <1>2, PTL DEF RunnerSpec

\* Whatever messages are lost and whoever crashes, a runner lets Terraform
\* apply a job at most once, and only with the tree of the scope that was
\* signed and claimed: a claim whose reply was lost, that was sent again, or
\* that status told of is the same claim (src/runner/run.rs, on_approved,
\* check_pending and apply_claimed).
THEOREM AppliesOnce == RunnerSpec => []AppliesAreApprovedOnce
<1>1. RunnerInv => AppliesAreApprovedOnce
  BY DEF RunnerInv, RunnerKept, RunsClaimed, AppliesAreApprovedOnce
<1> QED
  BY <1>1, RunnerAlways, PTL

\* What the ledger says of an apply is what Terraform did, after any crash
\* between running it, journaling its result and reporting it; and the state
\* shown to the approver is `applied` only after a run that ended well
\* (recover, send_finish and apply_claimed of src/runner/run.rs).
THEOREM ReportsAreTrue == RunnerSpec => []RecordedIsKnown
<1>1. RunnerInv => RecordedIsKnown
  <2>1. ASSUME LinesTrue(jobEvents) PROVE OutcomesAreTrue
    BY <2>1 DEF LinesTrue, OutcomesAreTrue, TrueOf, Reported
  <2> QED
    BY <2>1 DEF RunnerInv, RunnerKept, RecordedIsKnown
<1> QED
  BY <1>1, RunnerAlways, PTL

\* While the daemon serves, every revision it trusts has its line in the
\* ledger, after any crash, failed append or roll-back between the record and
\* the line (finish_trusted and reconcile_trusted of src/server.rs).
THEOREM TrustIsAudited == RunnerSpec => []RecordsAreAudited
<1>1. RunnerInv => RecordsAreAudited
  BY DEF RunnerInv, TrustInv, RegistryKept
<1> QED
  BY <1>1, RunnerAlways, PTL

\* A step that touches what is trusted.
LEMMA RegistrySteps ==
    ASSUME RunnerInv, RunnerNext
    PROVE  Replaces
<1>1. ASSUME UNCHANGED registry PROVE Replaces
  BY <1>1 DEF Replaces
<1>2. CASE Working
  <2>1. ASSUME NEW t \in Readings,
               \/ Poll(t) \/ CheckPending(t) \/ PlanCancelled(t) \/ Claim(t) \/ Orphan(t)
        PROVE  UNCHANGED registry
    <3>1. UNCHANGED registryPart
      BY <2>1, Zenon DEF Poll, CheckPending, PlanCancelled, Claim, Orphan, Call, trustVars
    <3> QED
      BY <3>1 DEF registryPart
  <2>2. ASSUME NEW t \in Readings, NEW sc \in Planned, Submit(t, sc) PROVE UNCHANGED registry
    <3>1. UNCHANGED registryPart
      BY <2>2, Zenon DEF Submit, Call, trustVars
    <3> QED
      BY <3>1 DEF registryPart
  <2>3. ASSUME NEW t \in Readings, NEW result, Refuse(t, result) PROVE UNCHANGED registry
    <3>1. UNCHANGED registryPart
      BY <2>3, Zenon DEF Refuse, Call, trustVars
    <3> QED
      BY <3>1 DEF registryPart
  <2> QED
    BY <1>1, <1>2, <2>1, <2>2, <2>3 DEF Working
<1>3. CASE PlanFails \/ ClaimUnjournaled \/ Executing \/ Startup \/ Dying
  <2>1. UNCHANGED registryPart
    BY <1>3 DEF PlanFails, ClaimUnjournaled, Executing, InstallTrust, ApplyRefused, ApplyPlan,
       Ends, Startup, Dying, Crash, InstallDies, SettleDies, StartupDies, ApplyDies, Dies,
       trustVars
  <2> QED
    BY <1>1, <2>1 DEF registryPart
<1>4. CASE JournalReport \/ Settle
  <2>1. UNCHANGED registryPart
    BY <1>4 DEF JournalReport, Settle, trustVars
  <2> QED
    BY <1>1, <2>1 DEF registryPart
<1>5. CASE \E t \in Readings : SendFinish(t) \/ AskStatus(t) \/ SendUnknown(t)
  <2>1. ASSUME NEW t \in Readings, AskStatus(t) \/ SendUnknown(t) PROVE UNCHANGED registry
    <3>1. UNCHANGED registryPart
      BY <2>1, Zenon DEF AskStatus, SendUnknown, Call, trustVars
    <3> QED
      BY <3>1 DEF registryPart
  <2>2. ASSUME NEW t \in Readings, SendFinish(t), unreported.result = "trusted" PROVE Replaces
    <3>1. FinishTrusted(t, Project, unreported.id,
              Stage("delivered"), Stage("status"), UNCHANGED unreported)
      BY <2>2, Zenon DEF SendFinish
    <3> QED
      BY <3>1, FinishTrustedWent DEF RunnerInv, TrustWent, Readings
  <2>3. ASSUME NEW t \in Readings, SendFinish(t), unreported.result # "trusted"
        PROVE  UNCHANGED registry
    <3>1. UNCHANGED registryPart
      BY <2>3, Zenon DEF SendFinish, Call, trustVars
    <3> QED
      BY <3>1 DEF registryPart
  <2> QED
    BY <1>1, <1>5, <2>1, <2>2, <2>3
<1>6. CASE TrustOthers
  BY <1>6, OthersWent DEF RunnerInv, TrustWent
<1> QED
  BY <1>2, <1>3, <1>4, <1>5, <1>6 DEF RunnerNext, Delivering

\* A trust record is written only for a claim of exactly what it says, and in
\* the place of the baseline that claim's approver was shown, whatever
\* `shoephoned untrust` did since (finish_trusted and update_trusted).
THEOREM BaselinesAreReplaced == RunnerSpec => RecordsReplaceTheirBaseline
<1> DEFINE A == \A p \in Projects :
                   LET new == registry'[p] IN
                   new # None /\ new # registry[p] =>
                       \E c \in claims :
                           /\ c.id = new.job /\ c.scope.kind = "trust" /\ c.scope.project = p
                           /\ c.scope.candidate = new.digest /\ c.scope.schema = new.schema
                           /\ c.scope.baseline = DigestOf(registry[p])
<1>1. RunnerInv /\ [RunnerNext]_vars => [A]_trustVars
  <2>1. RunnerInv /\ RunnerNext => A
    BY RegistrySteps DEF Replaces
  <2>2. UNCHANGED vars => UNCHANGED trustVars
    BY DEF vars
  <2> QED
    BY <2>1, <2>2
<1>2. RunnerSpec => [][A]_trustVars
  BY <1>1, RunnerAlways, PTL DEF RunnerSpec
<1> QED
  BY <1>2 DEF RecordsReplaceTheirBaseline

----------------------------------------------------------------------------
(* Two records of one trust.  What the registry says of the project, rec,  *)
(* against the runner's tree and trusted.json, at every write of an        *)
(* install, its undo and its commit, and at every step of the report.      *)

RevisionOf(rec) == [digest |-> rec.digest, schema |-> rec.schema]
ScopeRevision(sc) == [digest |-> sc.candidate, schema |-> sc.schema]

\* The journal says the trust of a job was installed.
SaysTrusted(note) == note # None /\ note.phase = "reporting" /\ note.what = "trusted"

\* Whose trust the registry has: not job id's, or no other's.
NotOf(id, rec) == rec # None => rec.job # id
OnlyOf(id, rec) == rec # None => rec.job = id

\* The ledger says that job id is trusted.
Recorded(id, ev) == \E l \in ev : l.kind = "trusted" /\ l.id = id

\* Job id was handed out, and has ended if it is known at all.
Taken(id, cs) == \E c \in cs : c.id = id
Over(id, es, cs) == Taken(id, cs) /\ \A e \in es : e.id = id => e.state # "claimed"
\* If it has not, the tree holds what it is to install.
Installed(id, d, es, cs) ==
    /\ Taken(id, cs)
    /\ \A e \in es : e.id = id /\ e.state = "claimed" =>
          e.kind = "trust" /\ e.project = Project /\ LocalTrust(d) = ScopeRevision(e.scope)

\* What taking an open install back leaves in trusted/ and in trusted.json.
OldTree(d) == CASE d.marker = None -> d.tree
                [] d.marker = TRUE -> IF d.prev # None THEN d.prev ELSE d.tree
                [] d.marker = FALSE -> None
OldJson(d) == CASE d.marker = None -> d.json
                [] d.marker = TRUE -> IF d.prevJson # None THEN d.prevJson ELSE d.json
                [] d.marker = FALSE -> None
\* The trust of rec can be had back from d.  An undo that was itself cut short
\* may have put the tree back and not yet the record: what is in place is then
\* not moved aside a second time.
Kept(rec, d) ==
    /\ OldTree(d) = rec.digest /\ OldJson(d) = RevisionOf(rec)
    /\ d.marker # None =>
          /\ LocalTrust(d) # None /\ LocalTrust(d).digest = rec.digest => d.prev = None
          /\ d.json # None /\ d.json.digest = rec.digest => d.prevJson = None

\* A record is of a job that was claimed or has ended; while calls are
\* answered, of one that ended as trusted.
RecordKnown(rec, es, n, live) ==
    rec # None =>
        /\ rec.job < n
        /\ \A e \in es : e.id = rec.job =>
              /\ e.state \in {"claimed", "done"}
              /\ live => e.state = "done" /\ e.kind = "trust" /\ e.result = "trusted"

\* What the runner plans or waits for is still to come, and the journal names
\* the job in hand from its claim on.
ToCome(rec, cs) ==
    /\ Planning => NotOf(task.id, rec)
    /\ pending # None =>
          /\ NotOf(pending.id, rec) /\ pending.scope.project = Project
          /\ pending.scope.kind = "trust" => pending.scope.candidate # pending.scope.baseline
          /\ Taken(pending.id, cs) =>
                /\ disk.journal # None /\ disk.journal.job = pending.id
                /\ pending.scope.kind = "trust" /\ rec # None =>
                      rec.digest = pending.scope.baseline

\* The report, the journal and the marker of an open install.
Opened ==
    /\ unreported # None =>
          /\ unreported.journaled =>
                disk.journal = Entry(unreported.id, "reporting", unreported.result)
          /\ ~unreported.journaled => unreported.stage = "finish"
          /\ unreported.install <=> unreported.result = "trusted" /\ disk.marker # None
          /\ unreported.result = "trusted" /\ ~unreported.journaled => unreported.install
    /\ KeepsInstall(disk) => pc = "down" \/ (unreported # None /\ unreported.journaled)

\* What the daemon made of a report that a job's trust was installed.
Judged(stage, id, rec, es, cs) ==
    /\ stage # "unknown"
    /\ stage = "delivered" => OnlyOf(id, rec) /\ Over(id, es, cs)
    /\ stage \in {"status", "refused"} => NotOf(id, rec) /\ Over(id, es, cs)

\* An install that is open, or that was reported.
Pledged(rec, es, cs, ev) ==
    /\ unreported # None /\ unreported.result = "trusted" /\ ~unreported.journaled =>
          /\ Installed(unreported.id, disk, es, cs)
          /\ NotOf(unreported.id, rec) /\ ~Recorded(unreported.id, ev)
    /\ KeepsInstall(disk) =>
          /\ Installed(disk.journal.job, disk, es, cs)
          /\ Recorded(disk.journal.job, ev) => OnlyOf(disk.journal.job, rec)
    /\ SaysTrusted(disk.journal) /\ disk.marker = None => Over(disk.journal.job, es, cs)
    /\ unreported # None /\ KeepsInstall(disk) =>
          Judged(unreported.stage, unreported.id, rec, es, cs)

\* The runner holds what the registry says: the trust it has just installed,
\* once that is recorded, and else the one it could go back to.
Holds(rec) ==
    rec # None =>
        IF KeepsInstall(disk) /\ rec.job = disk.journal.job
        THEN LocalTrust(disk) = RevisionOf(rec)
        ELSE Kept(rec, disk)

Sides(rec, es, n, cs, ev, live) ==
    /\ RecordKnown(rec, es, n, live) /\ ToCome(rec, cs) /\ Opened
    /\ Pledged(rec, es, cs, ev) /\ Holds(rec)
SidesInv == Sides(registry[Project], entries, nextId, claims, jobEvents, ~ledgerFailed)

\* Sequences of writes, each of which leaves a disk in S.
Path(S) == {s \in Seq(S) : s # <<>>}

LEMMA PathEach ==
    ASSUME NEW S, NEW s \in Path(S)
    PROVE  Last(s) \in S /\ \A k \in DOMAIN s : s[k] \in S
<1>1. s \in Seq(S) /\ s # <<>>
  BY DEF Path
<1>2. Len(s) \in DOMAIN s /\ \A k \in DOMAIN s : s[k] \in S
  BY <1>1
<1> QED
  BY <1>2 DEF Last

LEMMA PathJoined ==
    ASSUME NEW S, NEW s \in Path(S), NEW r \in Path(S)
    PROVE  s \o r \in Path(S) /\ Last(s \o r) = Last(r)
<1>1. /\ r \in Seq(S) /\ r # <<>> /\ Len(r) > 0
      /\ s \in Seq(S) /\ s # <<>> /\ Len(s) > 0
  BY DEF Path
<1>2. s \o r \in Seq(S) /\ Len(s \o r) = Len(s) + Len(r)
  BY <1>1
<1>3. s \o r # <<>>
  BY <1>1, <1>2
<1>4. (s \o r)[Len(s \o r)] = r[Len(r)]
  BY <1>1, <1>2
<1> QED
  BY <1>2, <1>3, <1>4 DEF Path, Last

LEMMA PathOf ==
    ASSUME NEW S, NEW d \in S
    PROVE  <<d>> \in Path(S) /\ Last(<<d>>) = d
BY DEF Path, Last

LEMMA PathOfTwo ==
    ASSUME NEW S, NEW d \in S, NEW e \in S
    PROVE  <<d, e>> \in Path(S) /\ Last(<<d, e>>) = e
BY DEF Path, Last

LEMMA PathOfThree ==
    ASSUME NEW S, NEW d \in S, NEW e \in S, NEW f \in S
    PROVE  <<d, e, f>> \in Path(S) /\ Last(<<d, e, f>>) = f
BY DEF Path, Last

KeptDisks(rec) == {d \in Disks : Kept(rec, d)}

LEMMA RecordFields ==
    ASSUME NEW rec \in TrustRecords
    PROVE  /\ rec.digest \in Digests /\ rec.digest # None /\ rec.digest # Broken
           /\ RevisionOf(rec) \in Revisions /\ RevisionOf(rec) # None
           /\ RevisionOf(rec).digest = rec.digest
BY JobsAssumption, RunnerAssumption DEF TrustRecords, RevisionOf, Revisions

LEMMA DiskFields ==
    ASSUME NEW d \in Disks
    PROVE  /\ d.tree \in Trees /\ d.prev \in Trees /\ d.json \in Records /\ d.prevJson \in Records
           /\ d.marker \in BOOLEAN \cup {None}
           /\ d.json # None => d.json \in Revisions /\ d.json.digest \in Digests
           /\ None \in Trees /\ None \in Records /\ Broken \in Trees /\ None \notin BOOLEAN
           /\ Broken # None /\ None \notin Digests /\ Broken \notin Digests
BY JobsAssumption, RunnerAssumption DEF Disks, Trees, Records, Revisions

\* The undo, of the trees and then of the records.
LEMMA TreeBackKeeps ==
    ASSUME NEW rec \in TrustRecords, NEW d \in KeptDisks(rec), d.marker # None
    PROVE  /\ TreeBack(d) \in Path(KeptDisks(rec))
           /\ LET e == Last(TreeBack(d))
              IN  e.marker = TRUE /\ e.prev = None
<1>1. d \in Disks /\ Kept(rec, d) /\ d.marker = TRUE
  <2>1. d.marker = FALSE => OldTree(d) = None
    BY DiskFields DEF OldTree
  <2> QED
    BY <2>1, RecordFields, DiskFields DEF KeptDisks, Kept
<1>2. CASE d.prev = None
  <2>1. TreeBack(d) = <<d>>
    BY <1>1, <1>2 DEF TreeBack
  <2> QED
    BY <1>1, <1>2, <2>1, PathOf
<1>3. CASE d.prev # None
  <2> DEFINE broken == [d EXCEPT !.tree = Broken]
             gone == [d EXCEPT !.tree = None]
             back == [d EXCEPT !.tree = d.prev, !.prev = None]
  <2>0. d.prev = rec.digest /\ OldJson(d) = RevisionOf(rec)
    BY <1>1, <1>3, DiskFields DEF Kept, OldTree
  <2>1. /\ broken \in Disks /\ broken.tree = Broken /\ broken.prev = d.prev /\ broken.json = d.json
        /\ broken.prevJson = d.prevJson /\ broken.marker = TRUE
    BY <1>1, DiskFields DEF Disks
  <2>2. /\ gone \in Disks /\ gone.tree = None /\ gone.prev = d.prev /\ gone.json = d.json
        /\ gone.prevJson = d.prevJson /\ gone.marker = TRUE
    BY <1>1, DiskFields DEF Disks
  <2>3. /\ back \in Disks /\ back.tree = d.prev /\ back.prev = None /\ back.json = d.json
        /\ back.prevJson = d.prevJson /\ back.marker = TRUE
    BY <1>1, DiskFields DEF Disks
  <2> HIDE DEF broken, gone, back
  <2>4. \A e \in {broken, gone, back} :
           /\ OldTree(e) = rec.digest /\ OldJson(e) = RevisionOf(rec)
           /\ e.json = d.json /\ e.prevJson = d.prevJson
    BY <1>1, <1>3, <2>0, <2>1, <2>2, <2>3 DEF OldTree, OldJson
  <2>5. LocalTrust(broken) = None /\ LocalTrust(gone) = None
    BY <1>1, <2>1, <2>2, DiskFields DEF LocalTrust
  <2>6. broken \in KeptDisks(rec) /\ gone \in KeptDisks(rec) /\ back \in KeptDisks(rec)
    BY <1>1, <2>1, <2>2, <2>3, <2>4, <2>5 DEF KeptDisks, Kept
  <2>7. /\ TreeGone(d) \in {<<d>>, <<d, broken, gone>>}
        /\ TreeBack(d) = TreeGone(d) \o <<back>>
    BY <1>1, <1>3, Zenon DEF TreeBack, TreeGone, broken, gone, back
  <2>8. /\ <<d>> \in Path(KeptDisks(rec)) /\ <<d, broken, gone>> \in Path(KeptDisks(rec))
        /\ <<back>> \in Path(KeptDisks(rec)) /\ Last(<<back>>) = back
    BY <2>6, PathOf, PathOfThree
  <2>9. TreeGone(d) \in Path(KeptDisks(rec))
    BY <2>7, <2>8
  <2>10. TreeBack(d) \in Path(KeptDisks(rec)) /\ Last(TreeBack(d)) = back
    BY <2>7, <2>8, <2>9, PathJoined
  <2> QED
    BY <2>3, <2>10
<1> QED
  BY <1>2, <1>3

LEMMA JsonBackKeeps ==
    ASSUME NEW rec \in TrustRecords, NEW d \in KeptDisks(rec), d.marker = TRUE, d.prev = None
    PROVE  /\ JsonBack(d) \in Path(KeptDisks(rec))
           /\ LET e == Last(JsonBack(d))
              IN  e.marker = TRUE /\ e.prev = None /\ e.prevJson = None
<1>1. d \in Disks /\ Kept(rec, d)
  BY DEF KeptDisks
<1>2. CASE d.prevJson = None
  <2>1. JsonBack(d) = <<d>>
    BY <1>2 DEF JsonBack
  <2> QED
    BY <1>2, <2>1, PathOf
<1>3. CASE d.prevJson # None
  <2> DEFINE gone == [d EXCEPT !.json = None]
             back == [d EXCEPT !.json = d.prevJson, !.prevJson = None]
  <2>0. d.prevJson = RevisionOf(rec) /\ OldTree(d) = rec.digest
    BY <1>1, <1>3, DiskFields DEF Kept, OldJson
  <2>1. /\ gone \in Disks /\ gone.tree = d.tree /\ gone.prev = None /\ gone.json = None
        /\ gone.prevJson = d.prevJson /\ gone.marker = TRUE
    BY <1>1, DiskFields DEF Disks
  <2>2. /\ back \in Disks /\ back.tree = d.tree /\ back.prev = None /\ back.json = d.prevJson
        /\ back.prevJson = None /\ back.marker = TRUE
    BY <1>1, DiskFields DEF Disks
  <2> HIDE DEF gone, back
  <2>3. \A e \in {gone, back} : OldTree(e) = rec.digest /\ OldJson(e) = RevisionOf(rec)
    BY <1>3, <2>0, <2>1, <2>2 DEF OldTree, OldJson
  <2>4. gone \in KeptDisks(rec) /\ back \in KeptDisks(rec)
    BY <2>1, <2>2, <2>3 DEF KeptDisks, Kept
  <2>5. JsonBack(d) = <<gone, back>>
    BY <1>3, Zenon DEF JsonBack, gone, back
  <2>6. <<gone, back>> \in Path(KeptDisks(rec)) /\ Last(<<gone, back>>) = back
    BY <2>4, PathOfTwo
  <2> QED
    BY <2>2, <2>5, <2>6
<1> QED
  BY <1>2, <1>3

LEMMA UndoKeeps ==
    ASSUME NEW rec \in TrustRecords, NEW d \in KeptDisks(rec)
    PROVE  Undo(d) \in Path(KeptDisks(rec))
<1> DEFINE t == TreeBack(d)
           j == t \o JsonBack(Last(t))
           f == Last(j)
           u == [f EXCEPT !.marker = None]
<1>1. CASE d.marker = None
  BY <1>1, PathOf DEF Undo
<1>2. CASE d.marker # None
  <2>1. /\ t \in Path(KeptDisks(rec)) /\ Last(t) \in KeptDisks(rec)
        /\ Last(t).marker = TRUE /\ Last(t).prev = None
    BY <1>2, TreeBackKeeps, PathEach
  <2> HIDE DEF t
  <2>2. /\ JsonBack(Last(t)) \in Path(KeptDisks(rec))
        /\ Last(JsonBack(Last(t))).marker = TRUE /\ Last(JsonBack(Last(t))).prev = None
        /\ Last(JsonBack(Last(t))).prevJson = None
    BY <2>1, JsonBackKeeps
  <2>3. j \in Path(KeptDisks(rec)) /\ f = Last(JsonBack(Last(t)))
    BY <2>1, <2>2, PathJoined
  <2>4. f \in KeptDisks(rec)
    BY <2>3, PathEach
  <2> HIDE DEF f, j
  <2>5. f \in Disks /\ Kept(rec, f) /\ f.marker = TRUE /\ f.prev = None /\ f.prevJson = None
    BY <2>2, <2>3, <2>4 DEF KeptDisks
  <2>6. /\ u \in Disks /\ u.marker = None /\ u.tree = f.tree /\ u.json = f.json
    BY <2>5, DiskFields DEF Disks
  <2> HIDE DEF u
  <2>7. u \in KeptDisks(rec)
    BY <2>5, <2>6, DiskFields DEF KeptDisks, Kept, OldTree, OldJson
  <2>8. Undo(d) = j \o <<u>>
    BY <1>2, Zenon DEF Undo, t, j, f, u
  <2> QED
    BY <2>3, <2>7, <2>8, PathOf, PathJoined
<1> QED
  BY <1>1, <1>2

\* An install starts from what the approver was shown: nothing is left from one
\* before, or it is not needed.
LEMMA Baseline ==
    ASSUME NEW rec \in TrustRecords, NEW d \in KeptDisks(rec), DigestOf(LocalTrust(d)) = rec.digest
    PROVE  /\ d.tree = rec.digest /\ d.json = RevisionOf(rec) /\ d.marker \in {None, TRUE}
           /\ d.marker = TRUE => d.prev = None /\ d.prevJson = None
<1>1. d \in Disks /\ Kept(rec, d)
  BY DEF KeptDisks
<1>2. LocalTrust(d) = d.json /\ d.json # None /\ d.tree = rec.digest /\ d.json.digest = rec.digest
  BY RecordFields DEF LocalTrust, DigestOf
<1>3. d.marker # FALSE
  BY <1>1, RecordFields, DiskFields DEF Kept, OldTree
<1>4. d.marker = TRUE => d.prev = None /\ d.prevJson = None
  BY <1>1, <1>2, DiskFields DEF Kept
<1>5. d.json = RevisionOf(rec)
  BY <1>1, <1>3, <1>4, DiskFields DEF Kept, OldJson
<1> QED
  BY <1>1, <1>2, <1>3, <1>4, <1>5, DiskFields

LEMMA ClearedKeeps ==
    ASSUME NEW rec \in TrustRecords, NEW d \in KeptDisks(rec), DigestOf(LocalTrust(d)) = rec.digest
    PROVE  /\ Cleared(d) \in Path(KeptDisks(rec))
           /\ LET e == Last(Cleared(d))
              IN  /\ e \in Disks /\ e.tree = rec.digest /\ e.json = RevisionOf(rec)
                  /\ e.prev = None /\ e.prevJson = None
<1> DEFINE K == KeptDisks(rec)
           broken == [d EXCEPT !.prev = Broken]
           gone == [d EXCEPT !.prev = None]
           p == Last(PrevGone(d))
           e == [p EXCEPT !.prevJson = None]
<1>1. /\ d \in Disks /\ Kept(rec, d) /\ d.tree = rec.digest /\ d.json = RevisionOf(rec)
      /\ d.marker \in {None, TRUE} /\ (d.marker = TRUE => d.prev = None /\ d.prevJson = None)
  BY Baseline DEF KeptDisks
<1>2. PrevGone(d) \in Path(K) /\ p \in K /\ p.prev = None /\ p.tree = d.tree
      /\ p.json = d.json /\ p.prevJson = d.prevJson /\ p.marker = d.marker
  <2>1. CASE d.prev = None
    <3>1. PrevGone(d) = <<d>>
      BY <2>1 DEF PrevGone
    <3>2. <<d>> \in Path(K) /\ Last(<<d>>) = d
      BY PathOf
    <3> QED
      BY <2>1, <3>1, <3>2
  <2>2. CASE d.prev # None
    <3>1. /\ broken \in Disks /\ broken.tree = d.tree /\ broken.json = d.json
          /\ broken.prevJson = d.prevJson /\ broken.marker = None
          /\ gone \in Disks /\ gone.tree = d.tree /\ gone.prev = None /\ gone.json = d.json
          /\ gone.prevJson = d.prevJson /\ gone.marker = None /\ d.marker = None
      BY <1>1, <2>2, DiskFields DEF Disks
    <3>2. PrevGone(d) = <<d, broken, gone>>
      BY <2>2 DEF PrevGone
    <3> HIDE DEF broken, gone
    <3>3. broken \in K /\ gone \in K
      BY <1>1, <3>1, DiskFields DEF KeptDisks, Kept, OldTree, OldJson
    <3>4. <<d, broken, gone>> \in Path(K) /\ Last(<<d, broken, gone>>) = gone
      BY <3>3, PathOfThree
    <3> QED
      BY <3>1, <3>2, <3>3, <3>4
  <2> QED
    BY <2>1, <2>2
<1> HIDE DEF p
<1>3. /\ e \in Disks /\ e.tree = d.tree /\ e.json = d.json /\ e.prev = None
      /\ e.prevJson = None /\ e.marker = d.marker
  BY <1>2, DiskFields DEF KeptDisks, Disks
<1> HIDE DEF e
<1>4. e \in K
  BY <1>1, <1>3, DiskFields DEF KeptDisks, Kept, OldTree, OldJson
<1>5. <<e>> \in Path(K) /\ Last(<<e>>) = e
  BY <1>4, PathOf
<1>6. Cleared(d) = PrevGone(d) \o <<e>>
  BY Zenon DEF Cleared, e, p
<1> HIDE DEF K
<1>7. Cleared(d) \in Path(K) /\ Last(Cleared(d)) = e
  BY <1>2, <1>5, <1>6, PathJoined
<1> QED
  BY <1>1, <1>3, <1>7 DEF K

LEMMA SwapKeeps ==
    ASSUME NEW rec \in TrustRecords, NEW d \in Disks, d.tree = rec.digest,
           d.json = RevisionOf(rec), d.prev = None, d.prevJson = None,
           NEW record \in Revisions, record.digest # rec.digest
    PROVE  Swap(d, record) \in Path(KeptDisks(rec))
<1> DEFINE K == KeptDisks(rec)
           m == [d EXCEPT !.marker = d.tree # None]
           aside == [m EXCEPT !.prev = m.tree, !.tree = None]
           asideJson == [aside EXCEPT !.prevJson = m.json, !.json = None]
           moved == <<m, aside>> \o <<asideJson>>
           in == [Last(moved) EXCEPT !.tree = record.digest]
           done == [in EXCEPT !.json = record]
<1>r. /\ rec.digest \in Trees /\ rec.digest # None /\ RevisionOf(rec) # None
      /\ RevisionOf(rec).digest = rec.digest /\ record # None /\ record \in Records
      /\ record.digest \in Trees
  BY RecordFields, DiskFields, RunnerAssumption DEF Revisions, Trees, Records
<1>1. /\ m \in Disks /\ m.tree = d.tree /\ m.json = d.json /\ m.prev = None
      /\ m.prevJson = None /\ m.marker = TRUE
  BY <1>r DEF Disks
<1> HIDE DEF m
<1>2. /\ aside \in Disks /\ aside.tree = None /\ aside.json = d.json /\ aside.prev = d.tree
      /\ aside.prevJson = None /\ aside.marker = TRUE
  BY <1>1, DiskFields DEF Disks
<1> HIDE DEF aside
<1>3. /\ asideJson \in Disks /\ asideJson.tree = None /\ asideJson.json = None
      /\ asideJson.prev = d.tree /\ asideJson.prevJson = d.json /\ asideJson.marker = TRUE
  BY <1>1, <1>2, DiskFields DEF Disks
<1> HIDE DEF asideJson
<1>4. m \in K /\ aside \in K /\ asideJson \in K
  BY <1>r, <1>1, <1>2, <1>3 DEF KeptDisks, Kept, OldTree, OldJson, LocalTrust
<1>5. moved \in Path(K) /\ Last(moved) = asideJson
  <2>1. <<m, aside>> \in Path(K) /\ <<asideJson>> \in Path(K) /\ Last(<<asideJson>>) = asideJson
    BY <1>4, PathOf, PathOfTwo
  <2> QED
    BY <2>1, PathJoined
<1> HIDE DEF moved
<1>6. /\ in \in Disks /\ in.tree = record.digest /\ in.json = None
      /\ in.prev = d.tree /\ in.prevJson = d.json /\ in.marker = TRUE
  BY <1>r, <1>3, <1>5 DEF Disks
<1> HIDE DEF in
<1>7. /\ done \in Disks /\ done.tree = record.digest /\ done.json = record
      /\ done.prev = d.tree /\ done.prevJson = d.json /\ done.marker = TRUE
  BY <1>r, <1>6 DEF Disks
<1> HIDE DEF done
<1>8. in \in K /\ done \in K
  BY <1>r, <1>6, <1>7 DEF KeptDisks, Kept, OldTree, OldJson, LocalTrust
<1>9. <<in, done>> \in Path(K)
  BY <1>8, PathOfTwo
<1>10. Swap(d, record) = moved \o <<in, done>>
  <2>1. m.marker = TRUE /\ m.json # None
    BY <1>r, <1>1
  <2> QED
    BY <2>1, Zenon DEF Swap, moved, in, done, asideJson, aside, m
<1> QED
  BY <1>5, <1>9, <1>10, PathJoined

LEMMA InstallKeeps ==
    ASSUME NEW rec \in TrustRecords, NEW d \in KeptDisks(rec), DigestOf(LocalTrust(d)) = rec.digest,
           NEW record \in Revisions, record.digest # rec.digest
    PROVE  Install(d, record) \in Path(KeptDisks(rec))
<1> DEFINE e == Last(Cleared(d))
<1>1. /\ Cleared(d) \in Path(KeptDisks(rec))
      /\ e \in Disks /\ e.tree = rec.digest /\ e.json = RevisionOf(rec)
      /\ e.prev = None /\ e.prevJson = None
  BY ClearedKeeps
<1> HIDE DEF e
<1>2. Swap(e, record) \in Path(KeptDisks(rec))
  BY <1>1, SwapKeeps
<1> QED
  BY <1>1, <1>2, PathJoined DEF Install, e

\* What an install ends with.
LEMMA InstallEnds ==
    ASSUME NEW d \in Disks, NEW record \in Revisions
    PROVE  LET e == Last(Install(d, record)) IN e.marker # None /\ LocalTrust(e) = record
<1> DEFINE S == {x \in Disks : x.marker \in BOOLEAN}
           c == Last(Cleared(d))
           m == [c EXCEPT !.marker = c.tree # None]
           aside == [m EXCEPT !.prev = m.tree, !.tree = None]
           asideJson == [aside EXCEPT !.prevJson = m.json, !.json = None]
           moved == IF m.marker THEN <<m, aside>> \o IF m.json = None THEN <<>> ELSE <<asideJson>>
                    ELSE <<m>>
           l == Last(moved)
           in == [l EXCEPT !.tree = record.digest]
           done == [in EXCEPT !.json = record]
<1>r. record \in Records /\ record.digest \in Trees /\ record # None /\ None \notin BOOLEAN
  BY RunnerAssumption, DiskFields DEF Revisions, Trees, Records
<1>1. Cleared(d) \in Path(Disks) /\ c \in Disks
  <2>1. Cleared(d) \in Writes(d)
    BY ClearedWrites
  <2>2. Notes(d) \subseteq Disks
    BY DEF Notes
  <2>3. Cleared(d) \in Path(Disks)
    BY <2>1, <2>2 DEF Writes, Path
  <2> QED
    BY <2>3, PathEach
<1> HIDE DEF c
<1>2. m \in S
  BY <1>1 DEF Disks
<1> HIDE DEF m
<1>3. aside \in S
  BY <1>2, DiskFields DEF Disks
<1> HIDE DEF aside
<1>4. asideJson \in S
  BY <1>2, <1>3, DiskFields DEF Disks
<1> HIDE DEF asideJson
<1>5. moved \in Path(S) /\ l \in S
  <2>1. /\ <<m, aside>> \in Path(S) /\ <<asideJson>> \in Path(S) /\ <<m>> \in Path(S)
        /\ <<m, aside>> \o <<>> = <<m, aside>>
    BY <1>2, <1>3, <1>4, PathOf, PathOfTwo
  <2>2. <<m, aside>> \o <<asideJson>> \in Path(S)
    BY <2>1, PathJoined
  <2>3. moved \in Path(S)
    BY <2>1, <2>2
  <2> QED
    BY <2>3, PathEach
<1> HIDE DEF moved, l
<1>6. in \in S /\ in.tree = record.digest
  BY <1>r, <1>5 DEF Disks
<1> HIDE DEF in
<1>7. done \in S /\ done.tree = record.digest /\ done.json = record
  BY <1>r, <1>6 DEF Disks
<1> HIDE DEF done
<1>8. <<in, done>> \in Path(S) /\ Last(<<in, done>>) = done
  BY <1>6, <1>7, PathOfTwo
<1>9. Swap(c, record) = moved \o <<in, done>>
  BY Zenon DEF Swap, moved, l, in, done, asideJson, aside, m
<1>10. Last(Swap(c, record)) = done /\ Swap(c, record) \in Path(S)
  BY <1>5, <1>8, <1>9, PathJoined
<1>11. Swap(c, record) \in Path(Disks)
  BY <1>10 DEF Path
<1>12. Last(Install(d, record)) = done
  BY <1>1, <1>10, <1>11, PathJoined DEF Install, c
<1> QED
  BY <1>r, <1>7, <1>12 DEF LocalTrust

\* A commit leaves the trust that was installed, and nothing to go back to.
LEMMA CommitKeeps ==
    ASSUME NEW d \in Disks
    PROVE  LET s == Commit(d)
               same(e) == e.tree = d.tree /\ e.json = d.json
           IN  /\ s \in Path({e \in Disks : same(e)})
               /\ \A k \in DOMAIN s : s[k].marker \in {d.marker, None}
               /\ Last(s).marker = None
<1> DEFINE S == {e \in Notes(d) : e.tree = d.tree /\ e.json = d.json /\ e.marker \in {d.marker, None}}
           broken == [d EXCEPT !.prev = Broken]
           gone == [d EXCEPT !.prev = None]
           p == Last(PrevGone(d))
           j == [p EXCEPT !.prevJson = None]
           m == [j EXCEPT !.marker = None]
<1>1. d \in S /\ broken \in S /\ gone \in S
  BY NoteFields DEF Disks
<1> HIDE DEF broken, gone
<1>2. PrevGone(d) \in Path(S) /\ p \in S
  <2>1. PrevGone(d) \in {<<d>>, <<d, broken, gone>>}
    BY Zenon DEF PrevGone, broken, gone
  <2>2. <<d>> \in Path(S) /\ <<d, broken, gone>> \in Path(S)
    BY <1>1, PathOf, PathOfThree
  <2>3. PrevGone(d) \in Path(S)
    BY <2>1, <2>2
  <2> QED
    BY <2>3, PathEach
<1> HIDE DEF p
<1>3. j \in S
  BY <1>2, DiskFields DEF Notes, Disks
<1> HIDE DEF j
<1>4. m \in S /\ m.marker = None
  BY <1>3, DiskFields DEF Notes, Disks
<1> HIDE DEF m
<1>5. <<j, m>> \in Path(S) /\ Last(<<j, m>>) = m
  BY <1>3, <1>4, PathOfTwo
<1>6. Commit(d) = PrevGone(d) \o <<j, m>>
  BY Zenon DEF Commit, p, j, m
<1> HIDE DEF S
<1>7. Commit(d) \in Path(S) /\ Last(Commit(d)) = m
  BY <1>2, <1>5, <1>6, PathJoined
<1>8. \A k \in DOMAIN Commit(d) : Commit(d)[k] \in S
  BY <1>7, PathEach
<1>9. S \subseteq {e \in Disks : e.tree = d.tree /\ e.json = d.json}
  BY DEF S, Notes
<1>10. Commit(d) \in Path({e \in Disks : e.tree = d.tree /\ e.json = d.json})
  BY <1>7, <1>9 DEF Path
<1>11. \A k \in DOMAIN Commit(d) : Commit(d)[k].marker \in {d.marker, None}
  BY <1>8 DEF S
<1> QED
  BY <1>4, <1>7, <1>10, <1>11

\* What a start puts back, with no install open, is not missing.
LEMMA UnmarkedKeeps ==
    ASSUME NEW rec \in TrustRecords, NEW d \in KeptDisks(rec), d.marker = None
    PROVE  Unmarked(d) \in KeptDisks(rec)
<1>1. /\ d \in Disks /\ d.tree = rec.digest /\ d.json = RevisionOf(rec)
      /\ d.tree # None /\ d.json # None
  BY RecordFields, DiskFields DEF KeptDisks, Kept, OldTree, OldJson
<1>2. Unmarked(d) = [d EXCEPT !.prev = None, !.prevJson = None]
  BY <1>1 DEF Unmarked
<1>3. /\ Unmarked(d) \in Disks /\ Unmarked(d).tree = d.tree /\ Unmarked(d).json = d.json
      /\ Unmarked(d).marker = None
  BY <1>1, <1>2, DiskFields DEF Disks
<1> QED
  BY <1>1, <1>3, DiskFields DEF KeptDisks, Kept, OldTree, OldJson

LEMMA UnmarkedStays ==
    ASSUME NEW d \in Disks
    PROVE  Unmarked(d).marker = d.marker
<1> DEFINE t == IF d.tree = None /\ d.prev # None
                THEN [d EXCEPT !.tree = d.prev, !.prev = None] ELSE d
           j == IF t.json = None /\ t.prevJson # None
                THEN [t EXCEPT !.json = t.prevJson, !.prevJson = None] ELSE t
<1>1. t \in Disks /\ t.marker = d.marker
  BY DiskFields DEF Disks
<1> HIDE DEF t
<1>2. j \in Disks /\ j.marker = d.marker
  BY <1>1, DiskFields DEF Disks
<1> HIDE DEF j
<1>3. Unmarked(d) = [j EXCEPT !.prev = IF j.tree # None THEN None ELSE @,
                              !.prevJson = IF j.json # None THEN None ELSE @]
  BY Zenon DEF Unmarked, t, j
<1> QED
  BY <1>2, <1>3 DEF Disks

\* What is kept does not depend on the journal.
LEMMA KeptByTrees ==
    ASSUME NEW rec, NEW d, NEW e, e.tree = d.tree, e.json = d.json, e.prev = d.prev,
           e.prevJson = d.prevJson, e.marker = d.marker
    PROVE  (Kept(rec, e) <=> Kept(rec, d)) /\ LocalTrust(e) = LocalTrust(d)
BY DEF Kept, OldTree, OldJson, LocalTrust

\* The undo ends with its marker gone; a start's puts back what it can.
LEMMA RestoredKeeps ==
    ASSUME NEW rec \in TrustRecords, NEW d \in KeptDisks(rec)
    PROVE  Restored(d) \in Path(KeptDisks(rec))
<1>1. <<d>> \in Path(KeptDisks(rec)) /\ Undo(d) \in Path(KeptDisks(rec))
  BY PathOf, UndoKeeps
<1>2. d.marker = None => <<d, Unmarked(d)>> \in Path(KeptDisks(rec))
  BY UnmarkedKeeps, PathOfTwo
<1> QED
  BY <1>1, <1>2, Zenon DEF Restored

----------------------------------------------------------------------------
(* What the daemon does meanwhile.                                         *)

\* The sides once the daemon has moved, before the runner has; of the claims
\* cs the runner has taken note.
HalfSides(cs) ==
    LET rec == registry'[Project]
    IN  /\ RecordKnown(rec, entries', nextId', ~ledgerFailed') /\ ToCome(rec, cs) /\ Opened
        /\ Pledged(rec, entries', claims', jobEvents') /\ Holds(rec)

\* A daemon that has moved: what it trusts of the project is as before, or
\* nothing, and a failed ledger is good again only with no job known.
DaemonWent(moves) ==
    /\ moves \subseteq Moves /\ JobsWent(moves)
    /\ registry'[Project] \in {registry[Project], None}
    /\ \A l \in jobEvents' : l \in jobEvents \/ l.kind # "trusted"
    /\ ledgerFailed /\ ~ledgerFailed' => entries' = {}

LEMMA ClaimedOn ==
    ASSUME TrustInv, NEW moves \in SUBSET Moves, JobsWent(moves), NEW f \in entries',
           f.state = "claimed", Taken(f.id, claims)
    PROVE  \E e \in entries : /\ e.id = f.id /\ e.state = "claimed" /\ e.kind = f.kind
                              /\ e.project = f.project /\ e.scope = f.scope
<1>1. PICK e \in entries : Passed(e, f, moves)
  BY DEF JobsWent, Evolved
<1>2. e.state # "approved"
  <2>1. HandedOut(Held, nextId, claims) /\ Held.entries = entries
    BY DEF TrustInv, JobsKept, JobsInv, Good, Held
  <2> QED
    BY <1>1, <2>1 DEF HandedOut, Taken, Passed
<1> QED
  BY <1>1, <1>2 DEF Passed, Moves

LEMMA TakenOn ==
    ASSUME NEW moves, JobsWent(moves), NEW id, Taken(id, claims)
    PROVE  Taken(id, claims')
BY DEF JobsWent, Taken

LEMMA OverOn ==
    ASSUME TrustInv, NEW moves \in SUBSET Moves, JobsWent(moves), NEW id, Over(id, entries, claims)
    PROVE  Over(id, entries', claims')
<1>1. Taken(id, claims) /\ Taken(id, claims')
  BY TakenOn DEF Over
<1> QED
  BY <1>1, ClaimedOn DEF Over

LEMMA InstalledOn ==
    ASSUME TrustInv, NEW moves \in SUBSET Moves, JobsWent(moves), NEW id, NEW d,
           Installed(id, d, entries, claims)
    PROVE  Installed(id, d, entries', claims')
<1>1. Taken(id, claims) /\ Taken(id, claims')
  BY TakenOn DEF Installed
<1>2. ASSUME NEW f \in entries', f.id = id, f.state = "claimed"
      PROVE  f.kind = "trust" /\ f.project = Project /\ LocalTrust(d) = ScopeRevision(f.scope)
  BY <1>1, <1>2, ClaimedOn DEF Installed
<1> QED
  BY <1>1, <1>2 DEF Installed

LEMMA KnownOn ==
    ASSUME TrustInv, NEW moves \in SUBSET Moves, JobsWent(moves), NEW rec \in TrustRecords \cup {None},
           RecordKnown(rec, entries, nextId, ~ledgerFailed),
           ledgerFailed /\ ~ledgerFailed' => entries' = {}
    PROVE  RecordKnown(rec, entries', nextId', ~ledgerFailed')
<1> SUFFICES ASSUME rec # None PROVE RecordKnown(rec, entries', nextId', ~ledgerFailed')
  BY DEF RecordKnown
<1>1. nextId \in Nat /\ nextId' \in Nat /\ nextId <= nextId' /\ rec.job \in Nat /\ rec.job < nextId
  BY 0 \in Nat, GoodParts DEF TrustInv, JobsWent, JobsKept, JobsInv, TrustRecords, RecordKnown
<1>2. ASSUME NEW f \in entries', f.id = rec.job
      PROVE  /\ f.state \in {"claimed", "done"}
             /\ ~ledgerFailed' => f.state = "done" /\ f.kind = "trust" /\ f.result = "trusted"
  <2>1. PICK e \in entries : Passed(e, f, moves)
    BY <1>1, <1>2 DEF JobsWent, Evolved
  <2>2. /\ e.id = rec.job /\ e.state \in {"claimed", "done"}
        /\ ~ledgerFailed => e.state = "done" /\ e.kind = "trust" /\ e.result = "trusted"
    BY <1>2, <2>1 DEF RecordKnown, Passed
  <2>3. f.state \in {"claimed", "done"}
    BY <2>1, <2>2 DEF Passed, Moves
  <2>4. ~ledgerFailed' => ~ledgerFailed
    BY <1>2
  <2>5. e.state = "done" => f = e
    BY <2>1 DEF Passed
  <2> QED
    BY <2>2, <2>3, <2>4, <2>5
<1> QED
  BY <1>1, <1>2 DEF RecordKnown

LEMMA SidesMoved ==
    ASSUME RunnerInv, SidesInv, NEW moves, DaemonWent(moves)
    PROVE  HalfSides(claims)
<1> DEFINE rec == registry[Project]
           new == registry'[Project]
<1>1. /\ TrustInv /\ moves \in SUBSET Moves /\ JobsWent(moves) /\ new \in {rec, None}
      /\ rec \in TrustRecords \cup {None} /\ (ledgerFailed /\ ~ledgerFailed' => entries' = {})
  BY RunnerAssumption DEF DaemonWent, RunnerInv, TrustInv, RegistryKept
<1>2. /\ RecordKnown(rec, entries, nextId, ~ledgerFailed) /\ ToCome(rec, claims) /\ Opened
      /\ Pledged(rec, entries, claims, jobEvents) /\ Holds(rec)
  BY DEF SidesInv, Sides
<1> HIDE DEF rec, new
<1>3. RecordKnown(new, entries', nextId', ~ledgerFailed')
  <2>1. RecordKnown(rec, entries', nextId', ~ledgerFailed')
    BY <1>1, <1>2, KnownOn
  <2> QED
    BY <1>1, <2>1 DEF RecordKnown
<1>4. ToCome(new, claims) /\ Holds(new)
  BY <1>1, <1>2 DEF ToCome, Holds, NotOf
<1>5. \A id : /\ NotOf(id, rec) => NotOf(id, new)
              /\ OnlyOf(id, rec) => OnlyOf(id, new)
              /\ Recorded(id, jobEvents') => Recorded(id, jobEvents)
              /\ Over(id, entries, claims) => Over(id, entries', claims')
              /\ Installed(id, disk, entries, claims) => Installed(id, disk, entries', claims')
  <2>1. ASSUME NEW id
        PROVE  /\ NotOf(id, rec) => NotOf(id, new)
               /\ OnlyOf(id, rec) => OnlyOf(id, new)
               /\ Recorded(id, jobEvents') => Recorded(id, jobEvents)
    BY <1>1 DEF NotOf, OnlyOf, Recorded, DaemonWent
  <2>2. ASSUME NEW id, Over(id, entries, claims) PROVE Over(id, entries', claims')
    BY <1>1, <2>2, OverOn
  <2>3. ASSUME NEW id, Installed(id, disk, entries, claims) PROVE Installed(id, disk, entries', claims')
    BY <1>1, <2>3, InstalledOn
  <2> QED
    BY <2>1, <2>2, <2>3
<1>6. Pledged(new, entries', claims', jobEvents')
  BY <1>2, <1>5, Zenon DEF Pledged, Judged
<1> QED
  BY <1>2, <1>3, <1>4, <1>6 DEF HalfSides, new

\* A call that leaves the registry alone.
LEMMA DaemonQuiet ==
    ASSUME NEW moves \in SUBSET Moves, JobsWent(moves),
           \A l \in jobEvents' : l \in jobEvents \/ l.kind # "trusted",
           UNCHANGED registryPart, UNCHANGED ledgerFailed \/ ledgerFailed' = TRUE
    PROVE  DaemonWent(moves)
<1>1. registry' = registry
  BY DEF registryPart
<1> QED
  BY <1>1 DEF DaemonWent

LEMMA DaemonIdle ==
    ASSUME RunnerInv, UNCHANGED <<jobsPart, registryPart, ledgerFailed>>
    PROVE  DaemonWent({}) /\ claims' = claims
<1>1. trusted' \in [Projects -> Revisions \cup {None}]
  BY DEF registryPart, RunnerInv, TrustInv, JobsKept, JobsInv
<1>2. JobsWent({}) /\ Muted(jobEvents, jobEvents')
  BY <1>1, JobsUntouched DEF RunnerInv, TrustInv
<1> QED
  BY <1>2, DaemonQuiet DEF jobsPart, Muted, Reported

LEMMA DaemonCalls ==
    ASSUME RunnerInv, NEW t \in Time, UNCHANGED registryPart,
           UNCHANGED ledgerFailed \/ ledgerFailed' = TRUE,
           \/ JobTick(JobsAt(gate, t))
           \/ JobPoll(JobsTicked(JobsAt(gate, t)), Me)
           \/ \E id : \E result \in {"refused", "plan_failed"} :
                 JobRefuse(JobsAt(gate, t), Me, id, result)
    PROVE  claims' = claims /\ \E moves : DaemonWent(moves)
<1>1. /\ JobsWent({}) \/ JobsWent({<<"queued", "working">>})
      /\ Muted(jobEvents, jobEvents')
  BY QuietCalls DEF RunnerInv, TrustInv
<1>2. \A l \in jobEvents' : l \in jobEvents \/ l.kind # "trusted"
  BY <1>1 DEF Muted, Reported
<1>3. {} \in SUBSET Moves /\ {<<"queued", "working">>} \in SUBSET Moves
  BY DEF Moves
<1>4. claims' = claims
  BY Zenon DEF JobTick, JobPoll, JobRefuse, JobsQuiet
<1> QED
  BY <1>1, <1>2, <1>3, <1>4, DaemonQuiet

----------------------------------------------------------------------------
(* The runner's own part of a step, with the trees left as they are.       *)

SameTrees(d, e) ==
    e.tree = d.tree /\ e.json = d.json /\ e.prev = d.prev /\ e.prevJson = d.prevJson
    /\ e.marker = d.marker

LEMMA SidesQuiet ==
    ASSUME RunnerInv', NEW cs, HalfSides(cs), SameTrees(disk, disk'),
           \/ disk'.journal = disk.journal
           \/ ~SaysTrusted(disk'.journal) /\ ~KeepsInstall(disk),
           unreported' # None /\ unreported'.result = "trusted" /\ ~unreported'.journaled =>
               unreported' = unreported,
           unreported' # None /\ KeepsInstall(disk') =>
               Judged(unreported'.stage, unreported'.id, registry'[Project], entries', claims'),
           ToCome(registry[Project], claims)', Opened'
    PROVE  SidesInv'
<1>1. LET rec == registry'[Project]
      IN  /\ RecordKnown(rec, entries', nextId', ~ledgerFailed')
          /\ Pledged(rec, entries', claims', jobEvents') /\ Holds(rec)
  BY DEF HalfSides
<1>2. /\ LocalTrust(disk') = LocalTrust(disk)
      /\ \A rec : Kept(rec, disk') <=> Kept(rec, disk)
      /\ disk'.marker = disk.marker
  BY KeptByTrees DEF SameTrees
<1>3. /\ SaysTrusted(disk'.journal) => disk'.journal = disk.journal
      /\ KeepsInstall(disk') <=> KeepsInstall(disk)
      /\ KeepsInstall(disk) => disk'.journal = disk.journal
  BY <1>2 DEF SaysTrusted, KeepsInstall
<1>4. RecordKnown(registry[Project], entries, nextId, ~ledgerFailed)'
  BY <1>1 DEF RecordKnown
<1>5. Holds(registry[Project])'
  BY <1>1, <1>2, <1>3 DEF Holds
<1>6. Pledged(registry[Project], entries, claims, jobEvents)'
  BY <1>1, <1>2, <1>3 DEF Pledged, Installed
<1> QED
  BY <1>4, <1>5, <1>6 DEF SidesInv, Sides

\* A step with nothing to report: the trees are as they were, the journal
\* names no trust that was installed.
LEMMA SidesUnreported ==
    ASSUME RunnerInv', NEW cs, HalfSides(cs), pc # "down", unreported = None,
           SameTrees(disk, disk'), disk'.journal = disk.journal \/ ~SaysTrusted(disk'.journal),
           unreported' # None =>
               /\ unreported'.result # "trusted" /\ ~unreported'.install
               /\ unreported'.stage = "finish"
               /\ unreported'.journaled =>
                     disk'.journal = Entry(unreported'.id, "reporting", unreported'.result),
           ToCome(registry[Project], claims)'
    PROVE  SidesInv'
<1>1. ~KeepsInstall(disk)
  BY DEF HalfSides, Opened
<1>2. ~KeepsInstall(disk')
  BY <1>1 DEF KeepsInstall, SaysTrusted, SameTrees
<1>3. Opened'
  BY <1>2 DEF Opened
<1> QED
  BY <1>1, <1>2, <1>3, SidesQuiet

LEMMA TreesStay == SameTrees(disk, disk)
BY DEF SameTrees

LEMMA ClosedTrees ==
    ASSUME NEW d \in Disks, NEW id
    PROVE  /\ SameTrees(d, Closed(d, id))
           /\ Closed(d, id).journal \in {d.journal, None}
           /\ d.journal # None /\ d.journal.job = id => Closed(d, id).journal = None
BY DEF SameTrees, Closed, Disks

LEMMA NotedTrees ==
    ASSUME NEW d \in Disks, NEW note \in JournalEntries \cup {None}
    PROVE  /\ [d EXCEPT !.journal = note] \in Disks
           /\ SameTrees(d, [d EXCEPT !.journal = note])
           /\ [d EXCEPT !.journal = note].journal = note
BY DEF SameTrees, Disks

\* What a call to the daemon comes to, had or lost, if it claims nothing and
\* leaves the registry alone.
LEMMA CallSides ==
    ASSUME RunnerInv, SidesInv, NEW t \in Time,
           \/ /\ \/ JobTick(JobsAt(gate, t))
                 \/ JobPoll(JobsTicked(JobsAt(gate, t)), Me)
                 \/ \E id : \E result \in {"refused", "plan_failed"} :
                       JobRefuse(JobsAt(gate, t), Me, id, result)
              /\ UNCHANGED registryPart /\ (UNCHANGED ledgerFailed \/ ledgerFailed' = TRUE)
           \/ UNCHANGED <<jobsPart, registryPart, ledgerFailed>>
    PROVE  HalfSides(claims) /\ claims' = claims /\ registry' = registry
<1>1. claims' = claims /\ \E moves : DaemonWent(moves)
  BY DaemonCalls, DaemonIdle
<1>2. registry' = registry
  BY DEF registryPart
<1> QED
  BY <1>1, <1>2, SidesMoved

LEMMA CrashSides == ASSUME RunnerInv, RunnerInv', SidesInv, Crash PROVE SidesInv'
<1>1. /\ UNCHANGED <<jobsPart, registryPart, ledgerFailed>> /\ disk' = disk
      /\ pc' = "down" /\ pending' = None /\ unreported' = None
  BY DEF Crash, Down
<1>2. HalfSides(claims)
  BY <1>1, DaemonIdle, SidesMoved
<1>3. ToCome(registry[Project], claims)' /\ Opened'
  BY <1>1 DEF ToCome, Opened, Planning
<1> QED
  BY <1>1, <1>2, <1>3, TreesStay, SidesQuiet

\* What the daemon and the runner say of a job as it is taken up.
LEMMA PollSides ==
    ASSUME RunnerInv, RunnerInv', SidesInv, NEW t \in Time, Poll(t)
    PROVE  SidesInv'
<1> DEFINE started == \E e \in StartedNow : Goes("work") /\ task' = Polled(e) /\ pending' = None
           approved ==
               \E e \in ApprovedNow :
                  /\ Goes(IF pending # None /\ pending.id = e.id THEN "approved" ELSE "orphan")
                  /\ task' = Polled(e)
                  /\ pending' = IF pending # None /\ pending.id = e.id THEN pending ELSE None
           idle == /\ StartedNow \cup ApprovedNow = {}
                   /\ Goes(IF pending = None THEN "step" ELSE "check")
                   /\ UNCHANGED <<task, pending>>
<1>1. pc = "step" /\ unreported = None
  BY DEF Poll
<1>2. Call(TRUE, JobPoll(JobsTicked(JobsAt(gate, t)), Me),
           UNCHANGED <<disk, unreported, terraform>> /\ (started \/ approved \/ idle),
           UNCHANGED runnerVars)
  BY Zenon DEF Poll
<1> HIDE DEF started, approved, idle
<1>3. /\ \/ /\ JobPoll(JobsTicked(JobsAt(gate, t)), Me) /\ UNCHANGED registryPart
            /\ (UNCHANGED ledgerFailed \/ ledgerFailed' = TRUE)
         \/ UNCHANGED <<jobsPart, registryPart, ledgerFailed>>
      /\ \/ UNCHANGED <<disk, unreported, terraform>> /\ (started \/ approved \/ idle)
         \/ UNCHANGED runnerVars
  BY <1>2, Zenon DEF Call, trustVars
<1>4. HalfSides(claims) /\ claims' = claims /\ registry' = registry
  BY <1>3, CallSides
<1>5. disk' = disk /\ unreported' = unreported
  BY <1>3 DEF runnerVars, runnerMemory
<1>6. /\ ToCome(registry[Project], claims)
      /\ RecordKnown(registry[Project], entries', nextId', ~ledgerFailed')
  BY <1>4 DEF HalfSides
<1>7. ToCome(registry[Project], claims)'
  <2>1. CASE UNCHANGED runnerVars
    BY <1>4, <1>5, <1>6, <2>1 DEF ToCome, Planning, runnerVars, runnerMemory
  <2>2. CASE started
    <3>1. PICK e \in StartedNow : pc' = "work" /\ task' = Polled(e) /\ pending' = None
      BY <2>2 DEF started, Goes
    <3>2. task'.id = e.id /\ e \in entries' /\ e.state = "working"
      BY <3>1 DEF Polled, StartedNow
    <3>3. NotOf(e.id, registry[Project])
      BY <1>6, <3>2 DEF RecordKnown, NotOf
    <3> QED
      BY <1>4, <3>1, <3>2, <3>3 DEF ToCome
  <2>3. CASE approved \/ idle
    <3>1. pc' \in {"approved", "orphan", "step", "check"} /\ pending' \in {pending, None}
      BY <2>3 DEF approved, idle, Goes
    <3> QED
      BY <1>4, <1>5, <1>6, <3>1 DEF ToCome, Planning
  <2> QED
    BY <1>3, <2>1, <2>2, <2>3
<1> QED
  BY <1>1, <1>4, <1>5, <1>7, TreesStay, SidesUnreported

LEMMA CheckPendingSides ==
    ASSUME RunnerInv, RunnerInv', SidesInv, NEW t \in Time, CheckPending(t)
    PROVE  SidesInv'
<1> DEFINE arrived == /\ ClaimArrived(StateOf(pending.id)) /\ Goes("execute")
                      /\ UNCHANGED <<disk, pending>>
           waits == /\ StateOf(pending.id) \subseteq Active \ {"claimed"}
                    /\ StateOf(pending.id) # {}
                    /\ Goes("step") /\ UNCHANGED <<disk, pending>>
           over == /\ StateOf(pending.id) \subseteq {"done"}
                   /\ Goes("step") /\ pending' = None /\ disk' = Closed(disk, pending.id)
           unsure == Goes("step") /\ UNCHANGED <<disk, task, pending, unreported, terraform>>
<1>1. pc = "check"
  BY DEF CheckPending
<1>2. Call(FALSE, JobTick(JobsAt(gate, t)),
           UNCHANGED <<task, unreported, terraform>> /\ (arrived \/ waits \/ over), unsure)
  BY Zenon DEF CheckPending
<1> HIDE DEF arrived, waits, over, unsure
<1>3. /\ \/ /\ JobTick(JobsAt(gate, t)) /\ UNCHANGED registryPart
            /\ (UNCHANGED ledgerFailed \/ ledgerFailed' = TRUE)
         \/ UNCHANGED <<jobsPart, registryPart, ledgerFailed>>
      /\ \/ UNCHANGED <<task, unreported, terraform>> /\ (arrived \/ waits \/ over)
         \/ unsure
  BY <1>2, Zenon DEF Call, trustVars
<1>4. HalfSides(claims) /\ claims' = claims /\ registry' = registry
  BY <1>3, CallSides
<1>5. unreported = None /\ disk \in Disks
  BY <1>1 DEF RunnerInv, RunnerKept, RunnerTyped
<1>6. /\ unreported' = unreported /\ pc' \in {"step", "execute"}
      /\ \/ disk' = disk /\ pending' = pending
         \/ disk' = Closed(disk, pending.id) /\ pending' = None
  BY <1>3 DEF arrived, waits, over, unsure, Goes
<1>7. SameTrees(disk, disk') /\ disk'.journal \in {disk.journal, None}
  BY <1>5, <1>6, ClosedTrees, TreesStay
<1>8. ToCome(registry[Project], claims)'
  BY <1>4, <1>6 DEF HalfSides, ToCome, Planning
<1> QED
  BY <1>1, <1>4, <1>5, <1>6, <1>7, <1>8, SidesUnreported DEF SaysTrusted

\* A plan that is given up.
LEMMA PlanEndsSides ==
    ASSUME RunnerInv, RunnerInv', SidesInv,
           \/ PlanFails
           \/ \E t \in Time : PlanCancelled(t)
           \/ \E t \in Time, result \in {"refused", "plan_failed"} : Refuse(t, result)
    PROVE  SidesInv'
<1>1. Planning /\ pending = None /\ unreported = None /\ pc # "down"
  BY DEF PlanFails, PlanCancelled, Refuse, RunnerInv, RunnerKept, RunnerTyped, Planning
<1>2. /\ HalfSides(claims) /\ claims' = claims /\ registry' = registry
      /\ disk' = disk /\ unreported' = unreported /\ pending' = pending
      /\ pc' = "step" \/ (pc' \in {pc, "refuse"} /\ task' = task)
  <2>1. CASE PlanFails
    <3>1. /\ UNCHANGED <<jobsPart, registryPart, ledgerFailed>> /\ pc' = "refuse"
          /\ UNCHANGED <<disk, task, pending, unreported>>
      BY <2>1 DEF PlanFails, Goes, trustVars
    <3> QED
      BY <3>1, DaemonIdle, SidesMoved DEF registryPart
  <2>2. ASSUME NEW t \in Time, PlanCancelled(t)
        PROVE  /\ HalfSides(claims) /\ claims' = claims /\ registry' = registry
               /\ disk' = disk /\ unreported' = unreported /\ pending' = pending
               /\ pc' = "step" \/ (pc' = pc /\ task' = task)
    <3> DEFINE ends == Goes("step") /\ Forgets /\ UNCHANGED <<disk, pending, unreported, terraform>>
    <3>1. Call(FALSE, JobTick(JobsAt(gate, t)),
               \/ StateOf(task.id) = {"working"} /\ UNCHANGED runnerVars
               \/ StateOf(task.id) # {"working"} /\ ends,
               UNCHANGED runnerVars)
      BY <2>2, Zenon DEF PlanCancelled
    <3> HIDE DEF ends
    <3>2. /\ \/ /\ JobTick(JobsAt(gate, t)) /\ UNCHANGED registryPart
                /\ (UNCHANGED ledgerFailed \/ ledgerFailed' = TRUE)
             \/ UNCHANGED <<jobsPart, registryPart, ledgerFailed>>
          /\ ends \/ UNCHANGED runnerVars
      BY <3>1, Zenon DEF Call, trustVars
    <3>3. HalfSides(claims) /\ claims' = claims /\ registry' = registry
      BY <3>2, CallSides
    <3> QED
      BY <3>2, <3>3 DEF ends, Goes, runnerVars, runnerMemory
  <2>3. ASSUME NEW t \in Time, NEW result \in {"refused", "plan_failed"}, Refuse(t, result)
        PROVE  /\ HalfSides(claims) /\ claims' = claims /\ registry' = registry
               /\ disk' = disk /\ unreported' = unreported /\ pending' = pending /\ pc' = "step"
    <3> DEFINE ends == Goes("step") /\ Forgets /\ UNCHANGED <<disk, pending, unreported, terraform>>
    <3>1. Call(FALSE, JobRefuse(JobsAt(gate, t), Me, task.id, result), ends, ends)
      BY <2>3, Zenon DEF Refuse
    <3> HIDE DEF ends
    <3>2. /\ \/ /\ JobRefuse(JobsAt(gate, t), Me, task.id, result) /\ UNCHANGED registryPart
                /\ (UNCHANGED ledgerFailed \/ ledgerFailed' = TRUE)
             \/ UNCHANGED <<jobsPart, registryPart, ledgerFailed>>
          /\ ends
      BY <3>1, Zenon DEF Call, trustVars
    <3>3. HalfSides(claims) /\ claims' = claims /\ registry' = registry
      BY <3>2, CallSides
    <3> QED
      BY <3>2, <3>3 DEF ends, Goes
  <2> QED
    BY <2>1, <2>2, <2>3
<1>3. ToCome(registry[Project], claims)'
  BY <1>1, <1>2 DEF HalfSides, ToCome, Planning
<1> QED
  BY <1>1, <1>2, <1>3, TreesStay, SidesUnreported

LEMMA SubmitSides ==
    ASSUME RunnerInv, RunnerInv', SidesInv, NEW t \in Time, NEW sc \in Planned, Submit(t, sc)
    PROVE  SidesInv'
<1> DEFINE waits == /\ pending' = [id |-> task.id, scope |-> sc]
                    /\ Goes("step") /\ Forgets
                    /\ UNCHANGED <<disk, unreported, terraform>>
           refuses == /\ StateOf(task.id) # {"waiting"} /\ Goes("refuse")
                      /\ UNCHANGED <<disk, task, pending, unreported, terraform>>
           answered == \/ StateOf(task.id) = {"waiting"} /\ waits
                       \/ refuses
           submitted == JobSubmit(JobsAt(gate, t), Me, task.id, sc)
           moves == {<<"working", "waiting">>}
<1>1. pc = "work"
  BY DEF Submit
<1>2. Call(TRUE, submitted, answered, waits)
  BY Zenon DEF Submit
<1> HIDE DEF submitted, waits, refuses, answered
<1>3. /\ \/ /\ submitted /\ UNCHANGED registryPart
            /\ (UNCHANGED ledgerFailed \/ ledgerFailed' = TRUE)
         \/ UNCHANGED <<jobsPart, registryPart, ledgerFailed>>
      /\ waits \/ refuses
  BY <1>2, Zenon DEF Call, trustVars, answered
<1>4. /\ JobsKept /\ task.kind \in {"trust", "apply"} /\ pending = None /\ unreported = None
      /\ Plans(task.id, task.kind, entries, nextId, claims)
  BY <1>1 DEF RunnerInv, TrustInv, RunnerKept, RunnerTyped, InHand, Planning
<1>5. /\ sc \in JobScopes /\ sc.project = Project
      /\ sc.kind = "trust" => sc.candidate # sc.baseline
  BY <1>4 DEF Planned, PlannedTrust, PlannedApply, JobScopes, TrustScopes, ApplyScopes
<1>6. HalfSides(claims) /\ claims' = claims /\ registry' = registry
  <2>1. CASE UNCHANGED <<jobsPart, registryPart, ledgerFailed>>
    BY <2>1, DaemonIdle, SidesMoved DEF registryPart
  <2>2. CASE /\ submitted /\ UNCHANGED registryPart
             /\ (UNCHANGED ledgerFailed \/ ledgerFailed' = TRUE)
    <3>1. JobsWent(moves) /\ Muted(jobEvents, jobEvents')
      BY <1>4, <1>5, <2>2, CallSubmit DEF submitted
    <3>2. moves \in SUBSET Moves /\ \A l \in jobEvents' : l \in jobEvents \/ l.kind # "trusted"
      BY <3>1 DEF Moves, Muted, Reported
    <3>3. DaemonWent(moves)
      BY <2>2, <3>1, <3>2, DaemonQuiet
    <3>4. claims' = claims
      BY <2>2, Zenon DEF submitted, JobSubmit, JobsQuiet
    <3> QED
      BY <2>2, <3>3, <3>4, SidesMoved DEF registryPart
  <2> QED
    BY <1>3, <2>1, <2>2
<1>7. NotOf(task.id, registry[Project])
  BY <1>1, <1>6 DEF HalfSides, ToCome, Planning
<1>8. /\ UNCHANGED <<disk, unreported>>
      /\ \/ pc' = "refuse" /\ task' = task /\ pending' = None
         \/ pc' = "step" /\ pending' = [id |-> task.id, scope |-> sc]
  BY <1>3, <1>4 DEF waits, refuses, Goes
<1>9. ToCome(registry[Project], claims)'
  <2>1. ~Taken(task.id, claims')
    BY <1>4, <1>6 DEF Plans, Taken
  <2>2. CASE pc' = "refuse" /\ task' = task /\ pending' = None
    BY <1>6, <1>7, <2>2 DEF ToCome
  <2>3. CASE pc' = "step" /\ pending' = [id |-> task.id, scope |-> sc]
    <3>1. pending'.id = task.id /\ pending'.scope = sc
      BY <2>3
    <3> QED
      BY <1>5, <1>6, <1>7, <2>1, <2>3, <3>1 DEF ToCome, Planning
  <2> QED
    BY <1>8, <2>2, <2>3
<1> QED
  BY <1>1, <1>4, <1>6, <1>8, <1>9, TreesStay, SidesUnreported

\* The daemon's side of a claim: what it hands out still stands.
LEMMA ClaimHalf ==
    ASSUME RunnerInv, SidesInv, NEW t \in Time, NEW id \in Nat,
           \/ /\ JobClaim(JobsAt(gate, t), Me, id) /\ UNCHANGED registryPart
              /\ (UNCHANGED ledgerFailed \/ ledgerFailed' = TRUE)
           \/ UNCHANGED <<jobsPart, registryPart, ledgerFailed>>
    PROVE  /\ HalfSides(claims) /\ registry' = registry
           /\ \A c \in claims' \ claims :
                 c.scope.project = Project /\ c.scope.kind = "trust" /\ registry[Project] # None
                    => registry[Project].digest = c.scope.baseline
<1> DEFINE moves == {<<"approved", "claimed">>}
<1>1. CASE UNCHANGED <<jobsPart, registryPart, ledgerFailed>>
  BY <1>1, DaemonIdle, SidesMoved DEF registryPart
<1>2. CASE /\ JobClaim(JobsAt(gate, t), Me, id) /\ UNCHANGED registryPart
           /\ (UNCHANGED ledgerFailed \/ ledgerFailed' = TRUE)
  <2>1. JobsWent(moves) /\ Muted(jobEvents, jobEvents') /\ ClaimsStillTrusted
    BY <1>2, CallClaim DEF RunnerInv, TrustInv
  <2>2. moves \in SUBSET Moves /\ \A l \in jobEvents' : l \in jobEvents \/ l.kind # "trusted"
    BY <2>1 DEF Moves, Muted, Reported
  <2>3. HalfSides(claims) /\ registry' = registry
    BY <1>2, <2>1, <2>2, DaemonQuiet, SidesMoved DEF registryPart
  <2>4. ASSUME NEW c \in claims' \ claims, c.scope.project = Project, c.scope.kind = "trust",
               registry[Project] # None
        PROVE  registry[Project].digest = c.scope.baseline
    <3>1. trusted[Project] = [digest |-> registry[Project].digest, schema |-> registry[Project].schema]
      BY <2>4, RunnerAssumption DEF RunnerInv, TrustInv, RegistryKept, TrustedNow
    <3>2. trusted[Project] # None
      BY <2>4, <3>1, RunnerAssumption DEF RunnerInv, TrustInv, RegistryKept, TrustRecords, Revisions
    <3>3. Stands(c.scope)
      BY <2>1 DEF ClaimsStillTrusted
    <3>4. trusted[Project] \in [digest: {c.scope.baseline}, schema: Schemas]
      BY <2>4, <3>2, <3>3 DEF Stands
    <3> QED
      BY <3>1, <3>4
  <2> QED
    BY <2>3, <2>4
<1> QED
  BY <1>1, <1>2

LEMMA ClaimSides ==
    ASSUME RunnerInv, RunnerInv', SidesInv, NEW t \in Time, Claim(t)
    PROVE  SidesInv'
<1> DEFINE note == Entry(task.id, "claimed", task.kind)
           noted == [disk EXCEPT !.journal = note]
           handed == Handed(task.id) /\ Goes("execute") /\ disk' = noted /\ UNCHANGED pending
           refused == /\ ~Handed(task.id) /\ Goes("step") /\ pending' = None
                      /\ disk' = Closed(noted, task.id)
           unsure == /\ Goes("step") /\ Forgets /\ disk' = noted
                     /\ UNCHANGED <<pending, unreported, terraform>>
<1>1. pc = "approved"
  BY DEF Claim
<1>2. Call(TRUE, JobClaim(JobsAt(gate, t), Me, task.id),
           Forgets /\ UNCHANGED <<unreported, terraform>> /\ (handed \/ refused), unsure)
  BY Zenon DEF Claim
<1> HIDE DEF handed, refused, unsure
<1>3. /\ \/ /\ JobClaim(JobsAt(gate, t), Me, task.id) /\ UNCHANGED registryPart
            /\ (UNCHANGED ledgerFailed \/ ledgerFailed' = TRUE)
         \/ UNCHANGED <<jobsPart, registryPart, ledgerFailed>>
      /\ \/ UNCHANGED <<unreported, terraform>> /\ (handed \/ refused)
         \/ unsure
  BY <1>2, Zenon DEF Call, trustVars
<1>4. /\ pending # None /\ unreported = None /\ disk \in Disks
      /\ task.id = pending.id /\ task.id \in Nat /\ task.kind \in {"trust", "apply"}
  BY <1>1 DEF RunnerInv, RunnerKept, RunnerTyped, JobScopes, TrustScopes, ApplyScopes
<1>5. /\ HalfSides(claims) /\ registry' = registry
      /\ \A c \in claims' \ claims :
            c.scope.project = Project /\ c.scope.kind = "trust" /\ registry[Project] # None
               => registry[Project].digest = c.scope.baseline
  BY <1>3, <1>4, ClaimHalf
<1>6. note \in JournalEntries /\ note.job = task.id /\ note # None /\ ~SaysTrusted(note)
  <2>1. note \in JournalEntries /\ note.job = task.id /\ note.phase = "claimed"
    BY <1>4 DEF Entry, JournalEntries
  <2> QED
    BY <2>1, RunnerAssumption DEF SaysTrusted
<1> HIDE DEF note
<1>7. noted \in Disks /\ SameTrees(disk, noted) /\ noted.journal = note
  BY <1>4, <1>6, NotedTrees
<1> HIDE DEF noted
<1>8. /\ SameTrees(disk, Closed(noted, task.id)) /\ Closed(noted, task.id).journal \in {note, None}
  BY <1>7, ClosedTrees DEF SameTrees
<1>9. /\ unreported' = unreported /\ ~Planning'
      /\ \/ disk' = noted /\ pending' = pending
         \/ disk' = Closed(noted, task.id) /\ pending' = None
  BY <1>3 DEF handed, refused, unsure, Goes, Planning
<1>10. SameTrees(disk, disk') /\ ~SaysTrusted(disk'.journal)
  BY <1>6, <1>7, <1>8, <1>9 DEF SaysTrusted
<1>11. ToCome(registry[Project], claims)'
  <2>1. CASE pending' = None
    BY <1>9, <2>1 DEF ToCome
  <2>2. CASE disk' = noted /\ pending' = pending
    <3>1. /\ NotOf(pending.id, registry[Project]) /\ pending.scope.project = Project
          /\ pending.scope.kind = "trust" => pending.scope.candidate # pending.scope.baseline
          /\ Taken(pending.id, claims) /\ pending.scope.kind = "trust" /\ registry[Project] # None
                => registry[Project].digest = pending.scope.baseline
      BY <1>4, <1>5 DEF HalfSides, ToCome
    <3>2. \A c \in claims' : c.id = pending.id => c.scope = pending.scope
      BY <1>4, <2>2 DEF RunnerInv, RunnerKept, InHand, Waits
    <3>3. Taken(pending.id, claims') /\ pending.scope.kind = "trust" /\ registry[Project] # None
             => registry[Project].digest = pending.scope.baseline
      BY <1>5, <3>1, <3>2 DEF Taken
    <3> QED
      BY <1>4, <1>5, <1>6, <1>7, <1>9, <2>2, <3>1, <3>3 DEF ToCome
  <2> QED
    BY <1>9, <2>1, <2>2
<1> QED
  BY <1>1, <1>4, <1>5, <1>9, <1>10, <1>11, SidesUnreported

LEMMA OrphanSides ==
    ASSUME RunnerInv, RunnerInv', SidesInv, NEW t \in Time, Orphan(t)
    PROVE  SidesInv'
<1> DEFINE note == Entry(task.id, "claimed", task.kind)
           noted == [disk EXCEPT !.journal = note]
           handed == /\ Handed(task.id) /\ disk' = noted
                     /\ Report(task.id, "apply_failed", FALSE, FALSE)
           refused == /\ ~Handed(task.id) /\ disk' = Closed(noted, task.id)
                      /\ UNCHANGED unreported
           unsure == /\ Goes("step") /\ Forgets /\ disk' = noted
                     /\ UNCHANGED <<pending, unreported, terraform>>
<1>1. pc = "orphan"
  BY DEF Orphan
<1>2. Call(TRUE, JobClaim(JobsAt(gate, t), Me, task.id),
           Goes("step") /\ Forgets /\ UNCHANGED <<pending, terraform>> /\ (handed \/ refused),
           unsure)
  BY Zenon DEF Orphan
<1> HIDE DEF handed, refused, unsure
<1>3. /\ \/ /\ JobClaim(JobsAt(gate, t), Me, task.id) /\ UNCHANGED registryPart
            /\ (UNCHANGED ledgerFailed \/ ledgerFailed' = TRUE)
         \/ UNCHANGED <<jobsPart, registryPart, ledgerFailed>>
      /\ \/ Goes("step") /\ UNCHANGED <<pending, terraform>> /\ (handed \/ refused)
         \/ unsure
  BY <1>2, Zenon DEF Call, trustVars
<1>4. /\ pending = None /\ unreported = None /\ disk \in Disks
      /\ task.id \in Nat /\ task.kind \in {"trust", "apply"}
  BY <1>1 DEF RunnerInv, RunnerKept, RunnerTyped, InHand, Started
<1>5. HalfSides(claims)
  BY <1>3, <1>4, ClaimHalf
<1>6. note \in JournalEntries /\ note.phase = "claimed"
  BY <1>4 DEF Entry, JournalEntries
<1> HIDE DEF note
<1>7. noted \in Disks /\ SameTrees(disk, noted) /\ noted.journal = note
  BY <1>4, <1>6, NotedTrees
<1> HIDE DEF noted
<1>8. /\ SameTrees(disk, Closed(noted, task.id)) /\ Closed(noted, task.id).journal \in {note, None}
  BY <1>7, ClosedTrees DEF SameTrees
<1>9. /\ pending' = None /\ ~Planning' /\ disk' \in {noted, Closed(noted, task.id)}
      /\ \/ unreported' = None
         \/ unreported' = [id |-> task.id, result |-> "apply_failed", install |-> FALSE,
                           journaled |-> FALSE, stage |-> "finish"]
  BY <1>3, <1>4 DEF handed, refused, unsure, Goes, Report, Planning
<1>10. SameTrees(disk, disk') /\ ~SaysTrusted(disk'.journal)
  BY <1>6, <1>7, <1>8, <1>9 DEF SaysTrusted
<1>11. ToCome(registry[Project], claims)'
  BY <1>9 DEF ToCome
<1> QED
  BY <1>1, <1>4, <1>5, <1>9, <1>10, <1>11, SidesUnreported

\* A claim that cannot be journaled, and what an apply comes to.
LEMMA ClaimUnjournaledSides ==
    ASSUME RunnerInv, RunnerInv', SidesInv, ClaimUnjournaled
    PROVE  SidesInv'
<1>1. /\ pc \in {"approved", "orphan"} /\ pc' = "step" /\ pending' = None
      /\ UNCHANGED <<jobsPart, registryPart, ledgerFailed, disk, unreported>>
  BY DEF ClaimUnjournaled, Goes
<1>2. HalfSides(claims) /\ unreported = None
  BY <1>1, DaemonIdle, SidesMoved DEF RunnerInv, RunnerKept, RunnerTyped
<1>3. ToCome(registry[Project], claims)'
  BY <1>1 DEF ToCome, Planning
<1> QED
  BY <1>1, <1>2, <1>3, TreesStay, SidesUnreported

LEMMA ApplyTrees ==
    ASSUME disk \in Disks, pending.id \in Nat, NEW outcome \in ApplyOutcomes
    PROVE  LET done == Reporting(Applying(disk), pending.id, ResultOf(outcome))
           IN  /\ \A d \in {Doubted(disk), Applying(disk), done} :
                     /\ SameTrees(disk, d)
                     /\ \A a : SameTrees(disk, [d EXCEPT !.applied = a])
                     /\ \A a : [d EXCEPT !.applied = a].journal = d.journal
               /\ \A d \in Disks : SameTrees(disk, d) =>
                     SameTrees(disk, [d EXCEPT !.journal = Applying(disk).journal])
               /\ ResultOf(outcome) \in {"applied", "apply_failed", "outcome_unknown"}
<1> DEFINE done == Reporting(Applying(disk), pending.id, ResultOf(outcome))
<1>1. ResultOf(outcome) \in {"applied", "apply_failed", "outcome_unknown"}
  BY DEF ResultOf, ApplyOutcomes
<1>2. /\ Doubted(disk) \in Disks /\ Applying(disk) \in Disks /\ done \in Disks
  BY ApplyDisks
<1>3. SameTrees(disk, Doubted(disk))
  BY DEF SameTrees, Doubted, Disks
<1>4. SameTrees(Doubted(disk), Applying(disk))
  BY <1>2 DEF SameTrees, Applying, Disks
<1>5. SameTrees(Applying(disk), done)
  BY <1>2 DEF SameTrees, Reporting, Disks
<1>6. \A d \in {Doubted(disk), Applying(disk), done} : d \in Disks /\ SameTrees(disk, d)
  BY <1>2, <1>3, <1>4, <1>5 DEF SameTrees
<1> HIDE DEF done
<1>7. ASSUME NEW d \in Disks, SameTrees(disk, d), NEW a
      PROVE  /\ SameTrees(disk, [d EXCEPT !.applied = a])
             /\ [d EXCEPT !.applied = a].journal = d.journal
             /\ SameTrees(disk, [d EXCEPT !.journal = a])
  BY <1>7 DEF SameTrees, Disks
<1> QED
  BY <1>1, <1>6, <1>7 DEF done

LEMMA ApplySides ==
    ASSUME RunnerInv, RunnerInv', SidesInv,
           \/ ApplyRefused
           \/ \E outcome \in ApplyOutcomes : ApplyPlan(outcome) \/ ApplyDies(outcome)
    PROVE  SidesInv'
<1>1. /\ pc = "execute" /\ pending' = None /\ pc' \in {"step", "down"}
      /\ UNCHANGED <<jobsPart, registryPart, ledgerFailed>>
  BY DEF ApplyRefused, ApplyPlan, ApplyDies, Executes, Ends, Down, Goes
<1>2. HalfSides(claims) /\ unreported = None /\ disk \in Disks /\ pending.id \in Nat
  BY <1>1, DaemonIdle, SidesMoved DEF RunnerInv, RunnerKept, RunnerTyped
<1>3. ToCome(registry[Project], claims)'
  BY <1>1 DEF ToCome, Planning
<1> DEFINE calm == /\ SameTrees(disk, disk')
                   /\ disk'.journal = disk.journal \/ ~SaysTrusted(disk'.journal)
                   /\ unreported' # None =>
                         /\ unreported'.result # "trusted" /\ ~unreported'.install
                         /\ unreported'.stage = "finish"
                         /\ unreported'.journaled =>
                               disk'.journal = Entry(unreported'.id, "reporting", unreported'.result)
<1>4. ASSUME ApplyRefused PROVE calm
  <2>1. /\ disk' \in {disk, Doubted(disk)}
        /\ unreported' = [id |-> pending.id, result |-> "apply_failed", install |-> FALSE,
                          journaled |-> FALSE, stage |-> "finish"]
    BY <1>4 DEF ApplyRefused, Ends, Report
  <2>2. SameTrees(disk, disk') /\ disk'.journal = disk.journal
    BY <1>2, <2>1 DEF Doubted, SameTrees, Disks
  <2> QED
    BY <2>1, <2>2
<1>5. ASSUME NEW outcome \in ApplyOutcomes, ApplyPlan(outcome) \/ ApplyDies(outcome) PROVE calm
  <2> DEFINE result == ResultOf(outcome)
             done == Reporting(Applying(disk), pending.id, result)
             last == IF outcome = "ok" THEN [done EXCEPT !.applied = "applied"] ELSE done
             lost == [done EXCEPT !.applied = IF outcome = "ok" THEN "applied" ELSE @]
             unsaid == [last EXCEPT !.journal = Applying(disk).journal]
  <2>1. /\ done \in Disks /\ done.journal = Entry(pending.id, "reporting", result)
        /\ Applying(disk).journal = Entry(pending.id, "applying", "apply")
        /\ Doubted(disk).journal = disk.journal
        /\ [done EXCEPT !.applied = "applied"] \in Disks
    BY <1>2, <1>5, ApplyDisks
  <2>2. /\ SameTrees(disk, Doubted(disk)) /\ SameTrees(disk, Applying(disk)) /\ SameTrees(disk, done)
        /\ SameTrees(disk, last) /\ last.journal = done.journal
        /\ SameTrees(disk, lost) /\ lost.journal = done.journal
        /\ result \in {"applied", "apply_failed", "outcome_unknown"}
    BY <1>2, <1>5, ApplyTrees, Zenon
  <2>3. last \in Disks
    BY <2>1
  <2> HIDE DEF last
  <2>4. SameTrees(disk, unsaid) /\ unsaid.journal = Applying(disk).journal
    <3>1. SameTrees(disk, unsaid)
      BY <1>2, <1>5, <2>2, <2>3, ApplyTrees, Zenon
    <3>2. unsaid.journal = Applying(disk).journal
      BY <2>3 DEF Disks
    <3> QED
      BY <3>1, <3>2
  <2>5. ~SaysTrusted(Entry(pending.id, "reporting", result))
        /\ ~SaysTrusted(Entry(pending.id, "applying", "apply"))
    BY <2>2 DEF SaysTrusted, Entry
  <2>6. CASE ApplyPlan(outcome)
    <3>1. \/ Ends(last, Begun(outcome), result, FALSE, TRUE)
          \/ Ends(done, Begun(outcome), result, FALSE, TRUE)
          \/ Ends(unsaid, Begun(outcome), result, FALSE, FALSE)
      BY <2>6, Zenon DEF ApplyPlan, last
    <3> HIDE DEF done, unsaid, result
    <3>2. \E journaled \in BOOLEAN :
             /\ unreported' = [id |-> pending.id, result |-> result, install |-> FALSE,
                               journaled |-> journaled, stage |-> "finish"]
             /\ disk' \in {last, done, unsaid} /\ (journaled => disk' \in {last, done})
      BY <3>1 DEF Ends, Report
    <3>3. PICK journaled \in BOOLEAN :
             /\ unreported' = [id |-> pending.id, result |-> result, install |-> FALSE,
                               journaled |-> journaled, stage |-> "finish"]
             /\ disk' \in {last, done, unsaid} /\ (journaled => disk' \in {last, done})
      BY <3>2
    <3>4. SameTrees(disk, disk') /\ ~SaysTrusted(disk'.journal)
      BY <2>1, <2>2, <2>4, <2>5, <3>3 DEF result
    <3>5. journaled => disk'.journal = Entry(pending.id, "reporting", result)
      BY <2>1, <2>2, <3>3
    <3> QED
      BY <2>2, <3>3, <3>4, <3>5
  <2>7. CASE ApplyDies(outcome)
    <3>1. unreported' = None /\ disk' \in {Doubted(disk), Applying(disk), done, lost}
      BY <2>7, Zenon DEF ApplyDies, Down
    <3> HIDE DEF done, lost, result
    <3>2. SameTrees(disk, disk')
      BY <2>2, <3>1
    <3>3. disk'.journal = disk.journal \/ ~SaysTrusted(disk'.journal)
      BY <2>1, <2>2, <2>5, <3>1
    <3> QED
      BY <3>1, <3>2, <3>3
  <2> QED
    BY <1>5, <2>6, <2>7
<1>6. calm
  BY <1>4, <1>5
<1> HIDE DEF calm
<1>7. SidesInv'
  BY <1>1, <1>2, <1>3, <1>6, SidesUnreported DEF calm
<1> QED
  BY <1>7

----------------------------------------------------------------------------
(* The steps that write the trees.                                         *)

\* What is written can be undone, and the journal says of no trust that it was
\* installed.
LEMMA SidesRewritten ==
    ASSUME NEW cs, HalfSides(cs), ~SaysTrusted(disk'.journal),
           (registry[Project] # None => Kept(registry[Project], disk))',
           ToCome(registry[Project], claims)', Opened',
           unreported' # None /\ unreported'.result = "trusted" /\ ~unreported'.journaled =>
               /\ Installed(unreported.id, disk, entries, claims)'
               /\ NotOf(unreported.id, registry[Project])' /\ ~Recorded(unreported.id, jobEvents)'
    PROVE  SidesInv'
<1>1. RecordKnown(registry[Project], entries, nextId, ~ledgerFailed)'
  BY DEF HalfSides, RecordKnown
<1>2. ~KeepsInstall(disk')
  BY DEF KeepsInstall, SaysTrusted
<1>3. Holds(registry[Project])'
  BY <1>2 DEF Holds
<1>4. Pledged(registry[Project], entries, claims, jobEvents)'
  BY <1>2 DEF Pledged
<1> QED
  BY <1>1, <1>3, <1>4 DEF SidesInv, Sides

\* What is known of a trust that is about to be installed.
LEMMA ToInstall ==
    ASSUME RunnerInv, SidesInv, Executes("trust")
    PROVE  LET rec == registry[Project]
               record == InstallRecord
           IN  /\ unreported = None /\ disk \in Disks /\ disk \in Notes(disk)
               /\ record \in Revisions /\ ~SaysTrusted(disk.journal)
               /\ rec # None => /\ rec \in TrustRecords /\ disk \in KeptDisks(rec)
                                /\ rec.digest = pending.scope.baseline
                                /\ record.digest # rec.digest
               /\ NotOf(pending.id, rec) /\ ~Recorded(pending.id, jobEvents)
               /\ \A d : LocalTrust(d) = record => Installed(pending.id, d, entries, claims)
<1> DEFINE rec == registry[Project]
<1>1. pc = "execute" /\ pending.scope.kind = "trust"
  BY DEF Executes
<1>2. /\ unreported = None /\ disk \in Disks /\ pending # None /\ pending.id \in Nat
      /\ pending.scope \in JobScopes
  BY <1>1 DEF RunnerInv, RunnerKept, RunnerTyped
<1>3. /\ Taken(pending.id, claims) /\ Waits(pending.id, pending.scope, entries, nextId, claims)
      /\ disk.journal # None /\ disk.journal.job = pending.id => disk.journal.phase = "claimed"
      /\ ~Recorded(pending.id, jobEvents)
  BY <1>1, <1>2 DEF RunnerInv, RunnerKept, InHand, Journaled, LinesTrue, Taken, Recorded, Reported
<1>4. /\ NotOf(pending.id, rec) /\ pending.scope.project = Project
      /\ pending.scope.candidate # pending.scope.baseline
      /\ disk.journal # None /\ disk.journal.job = pending.id
      /\ rec # None => rec.digest = pending.scope.baseline
      /\ ~KeepsInstall(disk)
  BY <1>1, <1>2, <1>3 DEF SidesInv, Sides, ToCome, Opened
<1>5. rec # None => rec \in TrustRecords /\ disk \in KeptDisks(rec)
  BY <1>2, <1>4, RunnerAssumption
     DEF SidesInv, Sides, Holds, KeptDisks, RunnerInv, TrustInv, RegistryKept
<1>6. /\ InstallRecord \in Revisions /\ InstallRecord.digest = pending.scope.candidate
      /\ InstallRecord = ScopeRevision(pending.scope)
  BY <1>1, <1>2 DEF InstallRecord, JobScopes, TrustScopes, ApplyScopes, Revisions, ScopeRevision
<1>7. ASSUME NEW d, LocalTrust(d) = InstallRecord PROVE Installed(pending.id, d, entries, claims)
  BY <1>1, <1>3, <1>4, <1>6, <1>7
     DEF Installed, Waits, RunnerInv, TrustInv, JobsKept, ScopesFit
<1>8. disk \in Notes(disk)
  BY <1>2 DEF Notes
<1> QED
  BY <1>2, <1>3, <1>4, <1>5, <1>6, <1>7, <1>8 DEF SaysTrusted

\* Each write of it leaves the trust that is recorded to go back to.
LEMMA InstallPath ==
    ASSUME RunnerInv, SidesInv, Executes("trust"), InstallBaseline, registry[Project] # None
    PROVE  Install(disk, InstallRecord) \in Path(KeptDisks(registry[Project]))
<1>1. /\ registry[Project] \in TrustRecords /\ disk \in KeptDisks(registry[Project])
      /\ registry[Project].digest = pending.scope.baseline
      /\ InstallRecord \in Revisions /\ InstallRecord.digest # registry[Project].digest
  BY ToInstall
<1>2. pending.scope.baseline # None
  BY <1>1, RecordFields
<1>3. DigestOf(LocalTrust(disk)) = registry[Project].digest
  BY <1>1, <1>2 DEF InstallBaseline
<1> QED
  BY <1>1, <1>3, InstallKeeps

LEMMA InstallSides == ASSUME RunnerInv, RunnerInv', SidesInv, InstallTrust PROVE SidesInv'
<1> DEFINE s == Install(disk, InstallRecord)
           n == Len(Cleared(disk))
           rec == registry[Project]
<1>1. /\ Executes("trust") /\ pc = "execute" /\ pc' = "step" /\ pending' = None
      /\ UNCHANGED <<jobsPart, registryPart, ledgerFailed>>
  BY DEF InstallTrust, Executes, Ends, Goes
<1>2. HalfSides(claims) /\ ToCome(registry[Project], claims)'
  BY <1>1, DaemonIdle, SidesMoved DEF ToCome, Planning
<1>3. /\ unreported = None /\ disk \in Disks /\ disk \in Notes(disk)
      /\ InstallRecord \in Revisions /\ ~SaysTrusted(disk.journal)
      /\ rec # None => rec \in TrustRecords /\ disk \in KeptDisks(rec)
      /\ NotOf(pending.id, rec) /\ ~Recorded(pending.id, jobEvents)
      /\ \A d : LocalTrust(d) = InstallRecord => Installed(pending.id, d, entries, claims)
  BY <1>1, ToInstall
<1>4. s \in Writes(disk)
  BY <1>3, InstallWrites
<1>5. InstallBaseline /\ rec # None => s \in Path(KeptDisks(rec))
  BY <1>1, InstallPath
<1>6. Last(s).marker # None /\ LocalTrust(Last(s)) = InstallRecord
  BY <1>3, InstallEnds
<1>7. n \in Nat /\ n > 0
  BY <1>3, ClearedWrites DEF Writes
<1>8. ASSUME NEW k \in n..(Len(s) - 1), InstallBaseline
      PROVE  LET u == Undo(s[k])
             IN  \A e \in {Last(u)} \cup {u[i] : i \in DOMAIN u} :
                    e \in Notes(disk) /\ (rec # None => e \in KeptDisks(rec))
  <2>1. k \in DOMAIN s
    BY <1>4, <1>7 DEF Writes
  <2>2. s[k] \in Disks /\ Writes(s[k]) = Writes(disk)
    BY <1>4, <2>1, WritesEach, NotesSame
  <2>3. Undo(s[k]) \in Writes(disk)
    BY <2>2, UndoWrites
  <2>4. rec # None => Undo(s[k]) \in Path(KeptDisks(rec))
    BY <1>3, <1>5, <1>8, <2>1, PathEach, UndoKeeps
  <2>5. \A e \in {Last(Undo(s[k]))} \cup {Undo(s[k])[i] : i \in DOMAIN Undo(s[k])} : e \in Notes(disk)
    BY <2>3, WritesEach
  <2>6. rec # None =>
          \A e \in {Last(Undo(s[k]))} \cup {Undo(s[k])[i] : i \in DOMAIN Undo(s[k])} :
              e \in KeptDisks(rec)
    BY <2>4, PathEach
  <2> QED
    BY <2>5, <2>6
<1>9. Last(s) \in Notes(disk) /\ (InstallBaseline /\ rec # None => Last(s) \in KeptDisks(rec))
  BY <1>4, <1>5, WritesEach, PathEach
<1>10. \/ InstallBaseline /\ Ends(Last(s), terraform, "trusted", TRUE, FALSE)
       \/ \E e \in Notes(disk) : /\ rec # None => e \in KeptDisks(rec)
                                 /\ Ends(e, terraform, "apply_failed", FALSE, FALSE)
  <2> HIDE DEF s, n
  <2>1. \/ InstallBaseline /\ Ends(Last(s), terraform, "trusted", TRUE, FALSE)
        \/ Ends(disk, terraform, "apply_failed", FALSE, FALSE)
        \/ InstallBaseline /\ \E k \in n..(Len(s) - 1) :
              Ends(Last(Undo(s[k])), terraform, "apply_failed", FALSE, FALSE)
        \/ InstallBaseline /\ \E k \in n..(Len(s) - 1) : \E i \in DOMAIN Undo(s[k]) :
              Ends(Undo(s[k])[i], terraform, "apply_failed", FALSE, FALSE)
    BY Zenon DEF InstallTrust, s, n
  <2> HIDE DEF rec
  <2> QED
    BY <1>3, <1>8, <2>1, Zenon
<1>11. /\ registry' = registry /\ entries' = entries /\ claims' = claims /\ jobEvents' = jobEvents
  BY <1>1 DEF registryPart, jobsPart
<1>12. CASE InstallBaseline /\ Ends(Last(s), terraform, "trusted", TRUE, FALSE)
  <2>1. /\ disk' = Last(s)
        /\ unreported' = [id |-> pending.id, result |-> "trusted", install |-> TRUE,
                          journaled |-> FALSE, stage |-> "finish"]
    BY <1>12 DEF Ends, Report
  <2>2. disk'.journal = disk.journal /\ disk'.marker # None /\ LocalTrust(disk') = InstallRecord
    BY <1>6, <1>9, <2>1 DEF Notes
  <2>3. (registry[Project] # None => Kept(registry[Project], disk))'
    BY <1>9, <1>11, <1>12, <2>1 DEF KeptDisks
  <2>4. ~SaysTrusted(disk'.journal) /\ ~KeepsInstall(disk')
    BY <1>3, <2>2 DEF SaysTrusted, KeepsInstall
  <2>5. Opened'
    BY <2>1, <2>2, <2>4 DEF Opened
  <2>6. unreported'.id = pending.id
    BY <2>1
  <2>7. Installed(unreported.id, disk, entries, claims)'
    BY <1>3, <1>11, <2>2, <2>6 DEF Installed
  <2>8. NotOf(unreported.id, registry[Project])' /\ ~Recorded(unreported.id, jobEvents)'
    BY <1>3, <1>11, <2>6 DEF NotOf, Recorded
  <2> QED
    BY <1>2, <2>3, <2>4, <2>5, <2>7, <2>8, SidesRewritten
<1>13. CASE \E e \in Notes(disk) : /\ rec # None => e \in KeptDisks(rec)
                                   /\ Ends(e, terraform, "apply_failed", FALSE, FALSE)
  <2>1. PICK e \in Notes(disk) : /\ rec # None => e \in KeptDisks(rec)
                                 /\ Ends(e, terraform, "apply_failed", FALSE, FALSE)
    BY <1>13
  <2>2. /\ disk' = e
        /\ unreported' = [id |-> pending.id, result |-> "apply_failed", install |-> FALSE,
                          journaled |-> FALSE, stage |-> "finish"]
    BY <2>1 DEF Ends, Report
  <2>3. (registry[Project] # None => Kept(registry[Project], disk))'
    BY <1>11, <2>1, <2>2 DEF KeptDisks
  <2>4. ~SaysTrusted(disk'.journal) /\ ~KeepsInstall(disk')
    BY <1>3, <2>2 DEF SaysTrusted, KeepsInstall, Notes
  <2>5. Opened'
    BY <2>2, <2>4 DEF Opened
  <2> QED
    BY <1>2, <2>2, <2>3, <2>4, <2>5, SidesRewritten
<1> QED
  BY <1>10, <1>12, <1>13

LEMMA InstallDiesSides == ASSUME RunnerInv, RunnerInv', SidesInv, InstallDies PROVE SidesInv'
<1> DEFINE s == Install(disk, InstallRecord)
           rec == registry[Project]
<1>1. /\ Executes("trust") /\ InstallBaseline /\ UNCHANGED <<jobsPart, registryPart, ledgerFailed>>
      /\ pc' = "down" /\ pending' = None /\ unreported' = None /\ \E k \in DOMAIN s : disk' = s[k]
  BY DEF InstallDies, Dies, Down
<1>2. HalfSides(claims) /\ ToCome(registry[Project], claims)' /\ registry' = registry
  BY <1>1, DaemonIdle, SidesMoved DEF ToCome, Planning, registryPart
<1>3. disk \in Disks /\ InstallRecord \in Revisions /\ ~SaysTrusted(disk.journal)
  BY <1>1, ToInstall
<1>4. s \in Writes(disk) /\ (rec # None => s \in Path(KeptDisks(rec)))
  BY <1>1, <1>3, InstallWrites, InstallPath
<1> HIDE DEF s
<1>5. disk' \in Notes(disk) /\ (rec # None => disk' \in KeptDisks(rec))
  BY <1>1, <1>4, WritesEach, PathEach
<1>6. (registry[Project] # None => Kept(registry[Project], disk))'
  BY <1>2, <1>5 DEF KeptDisks
<1>7. ~SaysTrusted(disk'.journal) /\ Opened'
  BY <1>1, <1>3, <1>5 DEF Notes, Opened
<1> QED
  BY <1>1, <1>2, <1>6, <1>7, SidesRewritten

\* The answer to the report of an installed trust: it stands, or is taken back.
LEMMA SidesAnswered ==
    ASSUME RunnerInv, RunnerInv', SidesInv, UNCHANGED <<jobsPart, registryPart, ledgerFailed>>,
           Answered, unreported.install, unreported' = None, pending' = None,
           pc' \in {"step", "down"}, KeepsInstall(disk') => pc' = "down",
           disk'.journal \in {disk.journal, None},
           unreported.stage = "delivered" =>
               /\ disk'.tree = disk.tree /\ disk'.json = disk.json
               /\ \/ disk'.marker = None
                  \/ disk'.marker = disk.marker /\ disk'.journal = disk.journal,
           unreported.stage = "refused" =>
               \A rec \in TrustRecords : Kept(rec, disk) => Kept(rec, disk')
    PROVE  SidesInv'
<1> DEFINE rec == registry[Project]
           id == unreported.id
<1>1. /\ rec \in TrustRecords \cup {None} /\ registry' = registry /\ entries' = entries
      /\ claims' = claims /\ jobEvents' = jobEvents /\ nextId' = nextId
      /\ ledgerFailed' = ledgerFailed
  BY RunnerAssumption DEF registryPart, jobsPart, RunnerInv, TrustInv, RegistryKept
<1>2. /\ unreported # None /\ unreported.journaled /\ unreported.stage \in {"delivered", "refused"}
      /\ unreported.install
  BY DEF Answered, Delivers
<1>3. /\ disk.journal = Entry(id, "reporting", "trusted") /\ disk.marker # None
  BY <1>2 DEF SidesInv, Sides, Opened
<1>4. /\ disk.journal \in JournalEntries /\ disk.journal # None
      /\ disk.journal.job = id /\ disk.journal.phase = "reporting" /\ disk.journal.what = "trusted"
  <2>1. /\ disk.journal.job = id /\ disk.journal.phase = "reporting" /\ disk.journal.what = "trusted"
    BY <1>3 DEF Entry
  <2>2. id \in Nat
    BY <1>2 DEF RunnerInv, RunnerKept, RunnerTyped, Reports
  <2>3. disk.journal \in JournalEntries
    BY <1>3, <2>2 DEF Entry, JournalEntries
  <2> QED
    BY <2>1, <2>3, RunnerAssumption
<1>5. KeepsInstall(disk)
  BY <1>3, <1>4 DEF KeepsInstall
<1>6. /\ Installed(id, disk, entries, claims) /\ (Recorded(id, jobEvents) => OnlyOf(id, rec))
      /\ Judged(unreported.stage, id, rec, entries, claims) /\ RecordKnown(rec, entries, nextId, ~ledgerFailed)
      /\ Holds(rec)
  BY <1>2, <1>4, <1>5 DEF SidesInv, Sides, Pledged
<1>7. Over(id, entries, claims)
  BY <1>2, <1>6 DEF Judged
<1>8. Installed(id, disk', entries, claims)
  BY <1>7 DEF Over, Installed
<1>9. CASE unreported.stage = "delivered"
  <2>1. OnlyOf(id, rec)
    BY <1>6, <1>9 DEF Judged
  <2>2. rec # None => LocalTrust(disk) = RevisionOf(rec) /\ rec.job = id
    BY <1>4, <1>5, <1>6, <2>1 DEF Holds, OnlyOf
  <2>3. LocalTrust(disk') = LocalTrust(disk)
    BY <1>9 DEF LocalTrust
  <2>4. rec # None /\ disk'.marker = None => Kept(rec, disk')
    <3>1. rec # None => RevisionOf(rec) # None /\ RevisionOf(rec).digest = rec.digest
      BY <1>1, RecordFields
    <3>2. rec # None => disk.json = RevisionOf(rec) /\ disk.tree = rec.digest
      BY <2>2, <3>1 DEF LocalTrust
    <3>3. disk'.marker = None => OldTree(disk') = disk'.tree /\ OldJson(disk') = disk'.json
      BY RunnerAssumption DEF OldTree, OldJson
    <3> QED
      BY <1>9, <3>2, <3>3 DEF Kept
  <2>5. disk'.marker # None => KeepsInstall(disk') /\ disk'.journal.job = id
    BY <1>4, <1>5, <1>9 DEF KeepsInstall
  <2>6. Holds(registry[Project])'
    BY <1>1, <2>2, <2>3, <2>4, <2>5 DEF Holds, KeepsInstall
  <2>7. Pledged(registry[Project], entries, claims, jobEvents)'
    BY <1>1, <1>4, <1>6, <1>7, <1>8 DEF Pledged, KeepsInstall, SaysTrusted, Installed
  <2>8. ToCome(registry[Project], claims)' /\ Opened'
    BY DEF ToCome, Opened, Planning
  <2> QED
    BY <1>1, <1>6, <2>6, <2>7, <2>8 DEF SidesInv, Sides, RecordKnown
<1>10. CASE unreported.stage = "refused"
  <2>1. NotOf(id, rec)
    BY <1>6, <1>10 DEF Judged
  <2>2. rec # None => Kept(rec, disk')
    BY <1>1, <1>4, <1>6, <1>10, <2>1 DEF Holds, NotOf
  <2>3. KeepsInstall(disk') => disk'.journal.job = id
    BY <1>4 DEF KeepsInstall
  <2>4. Holds(registry[Project])'
    BY <1>1, <2>1, <2>2, <2>3 DEF Holds, NotOf
  <2>5. Pledged(registry[Project], entries, claims, jobEvents)'
    BY <1>1, <1>4, <1>6, <1>7, <1>8 DEF Pledged, KeepsInstall, SaysTrusted, Installed
  <2>6. ToCome(registry[Project], claims)' /\ Opened'
    BY DEF ToCome, Opened, Planning
  <2> QED
    BY <1>1, <1>6, <2>4, <2>5, <2>6 DEF SidesInv, Sides, RecordKnown
<1> QED
  BY <1>2, <1>9, <1>10

\* What follows an answer when nothing was installed.
LEMMA SidesClosed ==
    ASSUME RunnerInv, RunnerInv', SidesInv, UNCHANGED <<jobsPart, registryPart, ledgerFailed>>,
           Answered, ~unreported.install, unreported' = None, pending' = None,
           pc' \in {"step", "down"}, disk' \in {disk, Closed(disk, unreported.id)}
    PROVE  SidesInv'
<1>1. HalfSides(claims)
  BY DaemonIdle, SidesMoved
<1>2. /\ unreported # None /\ unreported.journaled /\ disk \in Disks
  BY DEF Answered, Delivers, RunnerInv, RunnerKept, RunnerTyped
<1>3. /\ disk.journal = Entry(unreported.id, "reporting", unreported.result)
      /\ ~(unreported.result = "trusted" /\ disk.marker # None)
  BY <1>2 DEF SidesInv, Sides, Opened
<1>4. ~KeepsInstall(disk)
  BY <1>3 DEF KeepsInstall, Entry
<1>5. SameTrees(disk, disk') /\ disk'.journal \in {disk.journal, None}
  BY <1>2, ClosedTrees, TreesStay
<1>6. ~KeepsInstall(disk')
  BY <1>4, <1>5 DEF KeepsInstall, SameTrees
<1>7. ToCome(registry[Project], claims)' /\ Opened'
  BY <1>6 DEF ToCome, Opened, Planning
<1>8. disk'.journal = disk.journal \/ ~SaysTrusted(disk'.journal)
  BY <1>5 DEF SaysTrusted
<1> QED
  BY <1>1, <1>4, <1>5, <1>7, <1>8, SidesQuiet

\* The disks an answer leaves behind, whole or cut short.
LEMMA AnswerTrees ==
    ASSUME disk \in Disks, Answered, unreported.install
    PROVE  LET s == AfterAnswer
           IN  /\ s \in Writes(disk) /\ Last(s).marker = None
               /\ \A e \in {Last(s)} \cup {s[k] : k \in DOMAIN s} :
                     /\ e \in Disks /\ e.journal = disk.journal
                     /\ unreported.stage = "delivered" =>
                           e.tree = disk.tree /\ e.json = disk.json /\ e.marker \in {disk.marker, None}
                     /\ unreported.stage = "refused" =>
                           \A rec \in TrustRecords : Kept(rec, disk) => Kept(rec, e)
<1> DEFINE s == AfterAnswer
<1>1. unreported.stage \in {"delivered", "refused"}
  BY DEF Answered, Delivers
<1>2. CASE unreported.stage = "delivered"
  <2>1. s = Commit(disk)
    BY <1>2, Zenon DEF AfterAnswer
  <2> HIDE DEF s
  <2>2. s \in Writes(disk)
    BY <2>1, CommitWrites
  <2>3. /\ s \in Path({e \in Disks : e.tree = disk.tree /\ e.json = disk.json})
        /\ \A k \in DOMAIN s : s[k].marker \in {disk.marker, None}
        /\ Last(s).marker = None
    BY <2>1, CommitKeeps
  <2>4. \A e \in {Last(s)} \cup {s[k] : k \in DOMAIN s} :
           /\ e \in Disks /\ e.tree = disk.tree /\ e.json = disk.json
           /\ e.marker \in {disk.marker, None}
    BY <2>3, PathEach
  <2>5. \A e \in {Last(s)} \cup {s[k] : k \in DOMAIN s} : e.journal = disk.journal
    BY <2>2, WritesEach DEF Notes
  <2> QED
    BY <1>2, <2>2, <2>3, <2>4, <2>5 DEF s
<1>3. CASE unreported.stage = "refused"
  <2>1. s = Undo(disk)
    BY <1>3, Zenon DEF AfterAnswer
  <2> HIDE DEF s
  <2>2. s \in Writes(disk) /\ Last(s).marker = None
    BY <2>1, UndoWrites
  <2>3. \A e \in {Last(s)} \cup {s[k] : k \in DOMAIN s} : e \in Disks /\ e.journal = disk.journal
    BY <2>2, WritesEach DEF Notes
  <2>4. ASSUME NEW rec \in TrustRecords, Kept(rec, disk),
               NEW e \in {Last(s)} \cup {s[k] : k \in DOMAIN s}
        PROVE  Kept(rec, e)
    <3>1. s \in Path(KeptDisks(rec))
      BY <2>1, <2>4, UndoKeeps DEF KeptDisks
    <3>2. e \in KeptDisks(rec)
      BY <2>4, <3>1, PathEach
    <3> QED
      BY <3>2 DEF KeptDisks
  <2> QED
    BY <1>3, <2>2, <2>3, <2>4 DEF s
<1> QED
  BY <1>1, <1>2, <1>3

LEMMA SettleSides == ASSUME RunnerInv, RunnerInv', SidesInv, Settle PROVE SidesInv'
<1> DEFINE s == AfterAnswer
           id == unreported.id
<1>1. /\ Answered /\ unreported' = None /\ pc = "step" /\ pc' = "step"
      /\ UNCHANGED <<jobsPart, registryPart, ledgerFailed, pending>>
      /\ \/ disk' = Closed(Last(s), id) \/ disk' = Last(s)
         \/ /\ unreported.stage = "refused"
            /\ \E k \in DOMAIN s : disk' = Closed(s[k], id)
  BY DEF Settle, Answered, Delivers
<1>2. /\ unreported # None /\ unreported.journaled /\ disk \in Disks /\ pending' = None
      /\ unreported.install \in BOOLEAN
  BY <1>1 DEF Answered, Delivers, RunnerInv, RunnerKept, RunnerTyped, Reports
<1>3. CASE ~unreported.install
  <2>1. s = <<disk>>
    BY <1>3, Zenon DEF AfterAnswer
  <2>2. Last(s) = disk /\ \A k \in DOMAIN s : s[k] = disk
    BY <2>1 DEF Last
  <2> HIDE DEF s
  <2>3. disk' \in {disk, Closed(disk, id)}
    BY <1>1, <2>2
  <2> QED
    BY <1>1, <1>2, <1>3, <2>3, SidesClosed
<1>4. CASE unreported.install
  <2>1. /\ Last(s).marker = None
        /\ \A e \in {Last(s)} \cup {s[k] : k \in DOMAIN s} :
              /\ e \in Disks /\ e.journal = disk.journal
              /\ unreported.stage = "delivered" =>
                    e.tree = disk.tree /\ e.json = disk.json /\ e.marker \in {disk.marker, None}
              /\ unreported.stage = "refused" =>
                    \A rec \in TrustRecords : Kept(rec, disk) => Kept(rec, e)
    BY <1>1, <1>2, <1>4, AnswerTrees
  <2>2. disk.journal = Entry(id, "reporting", unreported.result)
    BY <1>2 DEF SidesInv, Sides, Opened
  <2> HIDE DEF s
  <2>3. PICK e \in {Last(s)} \cup {s[k] : k \in DOMAIN s} :
           \/ disk' = e /\ e = Last(s)
           \/ disk' = Closed(e, id) /\ (unreported.stage # "refused" => e = Last(s))
    BY <1>1
  <2>4. /\ SameTrees(e, disk') /\ disk'.journal \in {disk.journal, None}
        /\ (disk' = e /\ e = Last(s)) \/ disk'.journal = None
    <3>1. e.journal = disk.journal /\ e \in Disks
      BY <2>1
    <3>2. disk.journal # None => disk.journal.job = id
      BY <2>2 DEF Entry
    <3>3. SameTrees(e, e) /\ SameTrees(e, Closed(e, id)) /\ Closed(e, id).journal = None
      BY <3>1, <3>2, ClosedTrees DEF SameTrees, Closed
    <3> QED
      BY <2>3, <3>1, <3>3
  <2>5. ~KeepsInstall(disk')
    BY <2>1, <2>3, <2>4 DEF KeepsInstall
  <2>6. unreported.stage = "delivered" =>
           disk'.tree = disk.tree /\ disk'.json = disk.json /\ disk'.marker = None
    BY <2>1, <2>3, <2>4 DEF SameTrees
  <2>7. unreported.stage = "refused" =>
           \A rec \in TrustRecords : Kept(rec, disk) => Kept(rec, disk')
    BY <2>1, <2>4, KeptByTrees DEF SameTrees
  <2> QED
    BY <1>1, <1>2, <1>4, <2>4, <2>5, <2>6, <2>7, SidesAnswered
<1> QED
  BY <1>2, <1>3, <1>4

LEMMA SettleDiesSides == ASSUME RunnerInv, RunnerInv', SidesInv, SettleDies PROVE SidesInv'
<1> DEFINE s == AfterAnswer
<1>1. /\ Answered /\ unreported' = None /\ pc' = "down" /\ pending' = None
      /\ UNCHANGED <<jobsPart, registryPart, ledgerFailed>>
      /\ \E k \in DOMAIN s : disk' = s[k]
  BY DEF SettleDies, Dies, Down
<1>2. unreported # None /\ disk \in Disks /\ unreported.install \in BOOLEAN
  BY <1>1 DEF Answered, Delivers, RunnerInv, RunnerKept, RunnerTyped, Reports
<1>3. CASE ~unreported.install
  <2>1. s = <<disk>>
    BY <1>3, Zenon DEF AfterAnswer
  <2>2. disk' = disk
    BY <1>1, <2>1
  <2> QED
    BY <1>1, <1>3, <2>2, SidesClosed
<1>4. CASE unreported.install
  <2>1. \A e \in {Last(s)} \cup {s[k] : k \in DOMAIN s} :
              /\ e \in Disks /\ e.journal = disk.journal
              /\ unreported.stage = "delivered" =>
                    e.tree = disk.tree /\ e.json = disk.json /\ e.marker \in {disk.marker, None}
              /\ unreported.stage = "refused" =>
                    \A rec \in TrustRecords : Kept(rec, disk) => Kept(rec, e)
    BY <1>1, <1>2, <1>4, AnswerTrees
  <2> HIDE DEF s
  <2>2. /\ disk'.journal = disk.journal
        /\ unreported.stage = "delivered" =>
              disk'.tree = disk.tree /\ disk'.json = disk.json /\ disk'.marker \in {disk.marker, None}
        /\ unreported.stage = "refused" =>
              \A rec \in TrustRecords : Kept(rec, disk) => Kept(rec, disk')
    BY <1>1, <2>1
  <2> QED
    BY <1>1, <1>4, <2>2, SidesAnswered
<1> QED
  BY <1>2, <1>3, <1>4

----------------------------------------------------------------------------
(* A start, and the journal entry of a report.                             *)

\* What a start writes of the journal, and that it leaves the trees alone.
LEMMA NotedSides ==
    ASSUME disk \in Disks, NEW r \in Notes(disk)
    PROVE  /\ \A k \in DOMAIN Noted(r) : SameTrees(r, Noted(r)[k])
           /\ \A k \in DOMAIN Noted(r) :
                 SaysTrusted(Noted(r)[k].journal) => Noted(r)[k].journal = disk.journal
           /\ Len(Noted(r)) \in DOMAIN Noted(r)
           /\ disk.journal # None =>
                 Last(Noted(r)).journal = Entry(disk.journal.job, "reporting", Recovered(disk))
           /\ disk.journal # None /\ disk.journal.phase = "reporting" => Noted(r) = <<r>>
           /\ disk.journal # None /\ Recovered(disk) = "trusted" => SaysTrusted(disk.journal)
<1> DEFINE doubted == IF Recovered(r) = "outcome_unknown" /\ r.applied # None
                      THEN Doubted(r) ELSE r
           last == Reporting(doubted, r.journal.job, Recovered(r))
<1>1. /\ r \in Disks /\ r.journal = disk.journal /\ r.applied = disk.applied
      /\ disk.journal \in JournalEntries \cup {None}
  BY DEF Notes, Disks
<1>2. Recovered(r) = Recovered(disk)
  BY <1>1 DEF Recovered
<1>3. doubted \in Disks /\ SameTrees(r, doubted) /\ doubted.journal = r.journal
  BY <1>1 DEF Doubted, SameTrees, Disks
<1> HIDE DEF doubted
<1>4. /\ SameTrees(r, last)
      /\ last.journal = Entry(disk.journal.job, "reporting", Recovered(disk))
  BY <1>1, <1>2, <1>3 DEF Reporting, SameTrees, Disks
<1> HIDE DEF last
<1>5. CASE disk.journal = None
  <2>1. Noted(r) = <<r>>
    BY <1>1, <1>5 DEF Noted
  <2>2. Noted(r)[1] = r /\ DOMAIN Noted(r) = {1} /\ Len(Noted(r)) = 1
    BY <2>1
  <2> QED
    BY <1>1, <1>5, <2>2 DEF SameTrees
<1>6. CASE disk.journal # None /\ disk.journal.phase = "reporting"
  <2>1. Noted(r) = <<r>>
    BY <1>1, <1>6 DEF Noted
  <2>2. Noted(r)[1] = r /\ DOMAIN Noted(r) = {1} /\ Len(Noted(r)) = 1 /\ Last(Noted(r)) = r
    BY <2>1 DEF Last
  <2>3. Recovered(disk) = disk.journal.what
    BY <1>6 DEF Recovered
  <2>4. disk.journal = Entry(disk.journal.job, "reporting", Recovered(disk))
    BY <1>1, <1>6, <2>3 DEF Entry, JournalEntries
  <2> QED
    BY <1>1, <1>6, <2>1, <2>2, <2>3, <2>4 DEF SameTrees, SaysTrusted
<1>7. CASE disk.journal # None /\ disk.journal.phase # "reporting"
  <2>1. Noted(r) = <<doubted, last>>
    BY <1>1, <1>7, Zenon DEF Noted, doubted, last
  <2>2. /\ Noted(r)[1] = doubted /\ Noted(r)[2] = last /\ DOMAIN Noted(r) = {1, 2}
        /\ Len(Noted(r)) = 2 /\ Last(Noted(r)) = last
    BY <2>1 DEF Last
  <2>3. Recovered(disk) \in {"apply_failed", "outcome_unknown"}
    BY <1>7 DEF Recovered
  <2>4. ~SaysTrusted(last.journal)
    BY <1>4, <2>3 DEF SaysTrusted, Entry
  <2> QED
    BY <1>1, <1>3, <1>4, <1>7, <2>2, <2>3, <2>4
<1> QED
  BY <1>5, <1>6, <1>7

\* A start that takes back what was left open, with nothing to be delivered.
LEMMA SidesStarted ==
    ASSUME RunnerInv, RunnerInv', SidesInv, UNCHANGED <<jobsPart, registryPart, ledgerFailed>>,
           pc = "down", ~KeepsInstall(disk), NEW r,
           \A rec \in TrustRecords : Kept(rec, disk) => Kept(rec, r),
           disk.marker = None => r.marker = None, SameTrees(r, disk'),
           SaysTrusted(disk'.journal) => disk'.journal = disk.journal,
           pending' = None, pc' \in {"step", "down"},
           \/ unreported' = None
           \/ /\ unreported'.journaled /\ ~unreported'.install /\ unreported'.stage = "finish"
              /\ disk'.journal = Entry(unreported'.id, "reporting", unreported'.result)
              /\ unreported'.result = "trusted" => SaysTrusted(disk.journal)
    PROVE  SidesInv'
<1> DEFINE rec == registry[Project]
<1>1. /\ rec \in TrustRecords \cup {None} /\ registry' = registry /\ entries' = entries
      /\ claims' = claims /\ jobEvents' = jobEvents /\ nextId' = nextId
      /\ ledgerFailed' = ledgerFailed
  BY RunnerAssumption DEF registryPart, jobsPart, RunnerInv, TrustInv, RegistryKept
<1>2. SaysTrusted(disk.journal) => disk.marker = None
  BY DEF SaysTrusted, KeepsInstall
<1>3. SaysTrusted(disk'.journal) => disk'.marker = None
  BY <1>2 DEF SameTrees
<1>4. ~KeepsInstall(disk')
  BY <1>3 DEF KeepsInstall, SaysTrusted
<1>5. RecordKnown(rec, entries, nextId, ~ledgerFailed) /\ Holds(rec)
      /\ (SaysTrusted(disk.journal) /\ disk.marker = None => Over(disk.journal.job, entries, claims))
  BY DEF SidesInv, Sides, Pledged
<1>6. rec # None => Kept(rec, disk')
  <2>1. rec # None => Kept(rec, r)
    BY <1>1, <1>5 DEF Holds
  <2> QED
    BY <2>1, KeptByTrees DEF SameTrees
<1>7. Holds(registry[Project])'
  BY <1>1, <1>4, <1>6 DEF Holds
<1>8. Pledged(registry[Project], entries, claims, jobEvents)'
  <2>1. ~(unreported' # None /\ unreported'.result = "trusted" /\ ~unreported'.journaled)
    OBVIOUS
  <2>2. SaysTrusted(disk'.journal) => Over(disk'.journal.job, entries', claims')
    BY <1>1, <1>2, <1>5
  <2> QED
    BY <1>4, <2>1, <2>2 DEF Pledged
<1>9. ToCome(registry[Project], claims)'
  BY DEF ToCome, Planning
<1>10. Opened'
  <2>1. unreported' # None /\ unreported'.result = "trusted" => disk'.marker = None
    BY <1>2 DEF SameTrees
  <2> QED
    BY <1>4, <2>1 DEF Opened
<1> QED
  BY <1>1, <1>5, <1>7, <1>8, <1>9, <1>10 DEF SidesInv, Sides, RecordKnown

LEMMA RestoredSides ==
    ASSUME disk \in Disks, ~KeepsInstall(disk)
    PROVE  /\ Restored(disk) \in Writes(disk)
           /\ \A e \in {Last(Restored(disk))} \cup {Restored(disk)[k] : k \in DOMAIN Restored(disk)} :
                 /\ e \in Notes(disk)
                 /\ \A rec \in TrustRecords : Kept(rec, disk) => Kept(rec, e)
                 /\ disk.marker = None => e.marker = None
<1> DEFINE s == Restored(disk)
<1>1. s \in Writes(disk)
  BY RestoredWrites
<1>2. \A e \in {Last(s)} \cup {s[k] : k \in DOMAIN s} : e \in Notes(disk)
  BY <1>1, WritesEach
<1>3. ASSUME NEW rec \in TrustRecords, Kept(rec, disk),
             NEW e \in {Last(s)} \cup {s[k] : k \in DOMAIN s}
      PROVE  Kept(rec, e)
  <2>1. s \in Path(KeptDisks(rec))
    BY <1>3, RestoredKeeps DEF KeptDisks
  <2> HIDE DEF s
  <2>2. e \in KeptDisks(rec)
    BY <1>3, <2>1, PathEach
  <2> QED
    BY <2>2 DEF KeptDisks
<1>4. ASSUME disk.marker = None, NEW e \in {Last(s)} \cup {s[k] : k \in DOMAIN s}
      PROVE  e.marker = None
  <2> DEFINE M == {d \in Disks : d.marker = None}
  <2>1. s = <<disk, Unmarked(disk)>>
    BY <1>4 DEF Restored
  <2>2. disk \in M /\ Unmarked(disk) \in M
    <3>1. s[2] = Unmarked(disk) /\ 2 \in DOMAIN s
      BY <2>1
    <3>2. Unmarked(disk) \in Disks
      BY <1>2, <3>1 DEF Notes
    <3> QED
      BY <1>4, <3>2, UnmarkedStays
  <2> HIDE DEF M, s
  <2>3. s \in Path(M)
    BY <2>1, <2>2, PathOfTwo
  <2>4. e \in M
    BY <1>4, <2>3, PathEach
  <2> QED
    BY <2>4 DEF M
<1> QED
  BY <1>1, <1>2, <1>3, <1>4

LEMMA StartupSides == ASSUME RunnerInv, RunnerInv', SidesInv, Startup PROVE SidesInv'
<1> DEFINE s == Restored(disk)
           report == [id |-> disk.journal.job, result |-> Recovered(disk),
                      install |-> KeepsInstall(disk), journaled |-> TRUE, stage |-> "finish"]
<1>1. /\ pc = "down" /\ pc' = "step"
      /\ UNCHANGED <<jobsPart, registryPart, ledgerFailed, task, pending>>
      /\ IF disk.journal = None THEN unreported' = unreported ELSE unreported' = report
      /\ \/ disk' = Last(Noted(Last(s)))
         \/ \E k \in DOMAIN s : disk' = Last(Noted(s[k]))
  BY DEF Startup, Goes, Report
<1>2. disk \in Disks /\ pending' = None /\ unreported = None
  BY <1>1 DEF RunnerInv, RunnerKept, RunnerTyped
<1>3. CASE KeepsInstall(disk)
  <2>1. s = <<disk>>
    BY <1>3 DEF KeepsInstall, Restored
  <2>2. Last(s) = disk /\ \A k \in DOMAIN s : s[k] = disk
    BY <2>1 DEF Last
  <2> HIDE DEF s
  <2>3. /\ disk.journal # None /\ disk.journal.phase = "reporting" /\ disk.journal.what = "trusted"
        /\ disk.marker # None
    BY <1>3 DEF KeepsInstall
  <2>4. /\ Noted(disk) = <<disk>> /\ Recovered(disk) = "trusted"
        /\ Last(Noted(disk)).journal = Entry(disk.journal.job, "reporting", Recovered(disk))
    <3>1. disk \in Notes(disk)
      BY <1>2 DEF Notes
    <3> QED
      BY <1>2, <2>3, <3>1, NotedSides DEF Recovered
  <2>5. Last(Noted(disk)) = disk
    BY <2>4 DEF Last
  <2>6. disk' = disk
    BY <1>1, <2>2, <2>5
  <2>7. /\ unreported'.id = disk.journal.job /\ unreported'.result = "trusted"
        /\ unreported'.journaled /\ unreported'.install /\ unreported'.stage = "finish"
        /\ unreported' # None => unreported' = report
    BY <1>1, <1>3, <2>3, <2>4
  <2>8. disk.journal = Entry(disk.journal.job, "reporting", "trusted")
    BY <2>4, <2>5
  <2>9. unreported' # None
    <3>1. report \in Reports
      <4>1. KeepsInstall(disk) \in BOOLEAN /\ disk.journal.job \in Nat
        BY <1>2, <2>3 DEF KeepsInstall, Disks, JournalEntries
      <4> QED
        BY <2>4, <4>1 DEF Reports, Said
    <3> QED
      BY <1>1, <2>3, <3>1, RunnerAssumption
  <2>10. Opened'
    BY <2>3, <2>6, <2>7, <2>8, <2>9 DEF Opened
  <2>11. HalfSides(claims) /\ ToCome(registry[Project], claims)'
    BY <1>1, <1>2, DaemonIdle, SidesMoved DEF ToCome, Planning
  <2>12. Judged(unreported'.stage, unreported'.id, registry'[Project], entries', claims')
    BY <2>7 DEF Judged
  <2> QED
    BY <2>6, <2>7, <2>10, <2>11, <2>12, TreesStay, SidesQuiet
<1>4. CASE ~KeepsInstall(disk)
  <2>1. \A e \in {Last(s)} \cup {s[k] : k \in DOMAIN s} :
           /\ e \in Notes(disk)
           /\ \A rec \in TrustRecords : Kept(rec, disk) => Kept(rec, e)
           /\ disk.marker = None => e.marker = None
    BY <1>2, <1>4, RestoredSides
  <2> HIDE DEF s
  <2>2. PICK r \in {Last(s)} \cup {s[k] : k \in DOMAIN s} : disk' = Last(Noted(r))
    BY <1>1
  <2>3. /\ SameTrees(r, disk') /\ (SaysTrusted(disk'.journal) => disk'.journal = disk.journal)
        /\ disk.journal # None =>
              /\ disk'.journal = Entry(disk.journal.job, "reporting", Recovered(disk))
              /\ Recovered(disk) = "trusted" => SaysTrusted(disk.journal)
    BY <1>2, <2>1, <2>2, NotedSides DEF Last
  <2>4. \/ unreported' = None
        \/ /\ unreported'.journaled /\ ~unreported'.install /\ unreported'.stage = "finish"
           /\ disk'.journal = Entry(unreported'.id, "reporting", unreported'.result)
           /\ unreported'.result = "trusted" => SaysTrusted(disk.journal)
    BY <1>1, <1>2, <1>4, <2>3
  <2> QED
    BY <1>1, <1>2, <1>4, <2>1, <2>3, <2>4, SidesStarted
<1> QED
  BY <1>3, <1>4

LEMMA StartupDiesSides == ASSUME RunnerInv, RunnerInv', SidesInv, StartupDies PROVE SidesInv'
<1> DEFINE s == Restored(disk)
           r == Last(s)
<1>1. /\ pc = "down" /\ pc' = "down" /\ pending' = None /\ unreported' = None
      /\ UNCHANGED <<jobsPart, registryPart, ledgerFailed>>
      /\ \E k \in DOMAIN (s \o Noted(r)) : disk' = (s \o Noted(r))[k]
  BY DEF StartupDies, Dies, Down
<1>2. disk \in Disks /\ unreported = None
  BY <1>1 DEF RunnerInv, RunnerKept, RunnerTyped
<1>3. s \in Writes(disk) /\ s \in Seq(Notes(disk))
  BY <1>2, RestoredWrites DEF Writes
<1>4. r \in Notes(disk)
  BY <1>3, WritesEach
<1> HIDE DEF s, r
<1>5. Noted(r) \in Seq(Disks)
  BY <1>1, <1>4, NothingMoved, NotedJournal DEF StartupDies, Dies
<1>6. \/ \E k \in DOMAIN s : disk' = s[k]
      \/ \E k \in DOMAIN Noted(r) : disk' = Noted(r)[k]
  <2>1. PICK k \in DOMAIN (s \o Noted(r)) : disk' = (s \o Noted(r))[k]
    BY <1>1
  <2>2. s \in Seq(Notes(disk)) /\ Noted(r) \in Seq(Disks) /\ k \in 1..(Len(s) + Len(Noted(r)))
    BY <1>3, <1>5, <2>1
  <2>3. CASE k <= Len(s)
    BY <2>1, <2>2, <2>3
  <2>4. CASE k > Len(s)
    <3>1. k - Len(s) \in DOMAIN Noted(r)
      BY <2>2, <2>4
    <3>2. (s \o Noted(r))[k] = Noted(r)[k - Len(s)]
      BY <2>2, <2>4
    <3> QED
      BY <2>1, <3>1, <3>2
  <2> QED
    BY <2>2, <2>3, <2>4
<1>7. CASE KeepsInstall(disk)
  <2>1. s = <<disk>> /\ r = disk
    BY <1>7 DEF KeepsInstall, Restored, Last, s, r
  <2>2. Noted(disk) = <<disk>>
    BY <1>2, <1>4, <1>7, <2>1, NotedSides DEF KeepsInstall
  <2>3. disk' = disk
    BY <1>6, <2>1, <2>2
  <2>4. HalfSides(claims)
    BY <1>1, DaemonIdle, SidesMoved
  <2>5. ToCome(registry[Project], claims)' /\ Opened'
    BY <1>1 DEF ToCome, Opened, Planning
  <2> QED
    BY <1>1, <2>3, <2>4, <2>5, TreesStay, SidesQuiet
<1>8. CASE ~KeepsInstall(disk)
  <2>1. \A e \in {r} \cup {s[k] : k \in DOMAIN s} :
           /\ e \in Notes(disk)
           /\ \A rec \in TrustRecords : Kept(rec, disk) => Kept(rec, e)
           /\ disk.marker = None => e.marker = None
    BY <1>2, <1>8, RestoredSides DEF s, r
  <2>2. \E e \in {r} \cup {s[k] : k \in DOMAIN s} :
           /\ SameTrees(e, disk')
           /\ SaysTrusted(disk'.journal) => disk'.journal = disk.journal
    <3>1. CASE \E k \in DOMAIN s : disk' = s[k]
      <4>1. disk'.journal = disk.journal
        BY <2>1, <3>1 DEF Notes
      <4> QED
        BY <3>1, <4>1 DEF SameTrees
    <3>2. CASE \E k \in DOMAIN Noted(r) : disk' = Noted(r)[k]
      BY <1>2, <1>4, <3>2, NotedSides
    <3> QED
      BY <1>6, <3>1, <3>2
  <2> QED
    BY <1>1, <1>8, <2>1, <2>2, SidesStarted
<1> QED
  BY <1>7, <1>8

LEMMA JournalReportSides == ASSUME RunnerInv, RunnerInv', SidesInv, JournalReport PROVE SidesInv'
<1> DEFINE id == unreported.id
           result == unreported.result
           note == Entry(id, "reporting", result)
<1>1. /\ pc = "step" /\ unreported # None /\ ~unreported.journaled
      /\ unreported' = [unreported EXCEPT !.journaled = TRUE]
      /\ disk' = [disk EXCEPT !.journal = note]
      /\ UNCHANGED <<trustVars, pc, task, pending>>
  BY DEF JournalReport, Reporting
<1>2. disk \in Disks /\ unreported \in Reports /\ pending = None
  BY <1>1 DEF RunnerInv, RunnerKept, RunnerTyped
<1>3. /\ unreported'.id = id /\ unreported'.result = result /\ unreported'.journaled
      /\ unreported'.install = unreported.install /\ unreported'.stage = unreported.stage
  BY <1>1, <1>2 DEF Reports
<1>4. note \in JournalEntries /\ note # None /\ note.job = id /\ note.phase = "reporting"
      /\ note.what = result
  <2>1. note \in JournalEntries /\ note.job = id /\ note.phase = "reporting" /\ note.what = result
    BY <1>2 DEF Reports, Said, Entry, JournalEntries
  <2> QED
    BY <2>1, RunnerAssumption
<1>5. SameTrees(disk, disk') /\ disk'.journal = note
  BY <1>1, <1>2, <1>4, NotedTrees
<1>6. /\ registry' = registry /\ entries' = entries /\ claims' = claims /\ jobEvents' = jobEvents
      /\ nextId' = nextId /\ ledgerFailed' = ledgerFailed
  BY <1>1 DEF trustVars, registryPart, jobsPart
<1>7. ~KeepsInstall(disk) /\ unreported.stage = "finish"
      /\ (result = "trusted" => unreported.install /\ disk.marker # None)
      /\ (unreported.install <=> result = "trusted" /\ disk.marker # None)
  BY <1>1 DEF SidesInv, Sides, Opened
<1>8. result = "trusted" => /\ Installed(id, disk, entries, claims)
                            /\ NotOf(id, registry[Project]) /\ ~Recorded(id, jobEvents)
  BY <1>1 DEF SidesInv, Sides, Pledged
<1>9. /\ LocalTrust(disk') = LocalTrust(disk) /\ disk'.marker = disk.marker
      /\ \A rec : Kept(rec, disk') <=> Kept(rec, disk)
  BY <1>5, KeptByTrees DEF SameTrees
<1>10. KeepsInstall(disk') => result = "trusted"
  BY <1>4, <1>5 DEF KeepsInstall
<1> HIDE DEF note
<1>11. RecordKnown(registry[Project], entries, nextId, ~ledgerFailed)'
  BY <1>6 DEF SidesInv, Sides, RecordKnown
<1>12. ToCome(registry[Project], claims)'
  BY <1>1, <1>2 DEF ToCome, Planning
<1>13. Opened'
  <2>1. unreported' # None
    BY <1>1, <1>2, RunnerAssumption DEF Reports
  <2> QED
    BY <1>3, <1>5, <1>7, <1>9, <2>1 DEF Opened, note
<1>14. Holds(registry[Project])'
  BY <1>4, <1>5, <1>6, <1>7, <1>8, <1>9, <1>10 DEF SidesInv, Sides, Holds, NotOf
<1>15. Pledged(registry[Project], entries, claims, jobEvents)'
  <2>1. SaysTrusted(disk'.journal) => disk'.marker # None
    BY <1>4, <1>5, <1>7, <1>9 DEF SaysTrusted
  <2>2. Judged(unreported'.stage, unreported'.id, registry'[Project], entries', claims')
    BY <1>3, <1>7 DEF Judged
  <2> QED
    BY <1>3, <1>4, <1>5, <1>6, <1>8, <1>9, <1>10, <2>1, <2>2 DEF Pledged, Installed
<1> QED
  BY <1>11, <1>12, <1>13, <1>14, <1>15 DEF SidesInv, Sides

----------------------------------------------------------------------------
(* The report is sent, and the daemon asked what became of it.             *)

\* A reported trust that can be taken back is the one of the report in hand.
LEMMA ReportedInstall ==
    ASSUME RunnerInv, SidesInv, unreported # None, unreported.journaled
    PROVE  /\ disk.journal = Entry(unreported.id, "reporting", unreported.result)
           /\ disk.journal # None /\ disk.journal.job = unreported.id
           /\ KeepsInstall(disk) <=> unreported.result = "trusted" /\ disk.marker # None
           /\ SaysTrusted(disk.journal) <=> unreported.result = "trusted"
           /\ pending = None /\ unreported \in Reports
<1>1. disk.journal = Entry(unreported.id, "reporting", unreported.result)
  BY DEF SidesInv, Sides, Opened
<1>2. unreported \in Reports /\ pending = None
  BY DEF RunnerInv, RunnerKept, RunnerTyped
<1>3. /\ disk.journal \in JournalEntries /\ disk.journal.job = unreported.id
      /\ disk.journal.phase = "reporting" /\ disk.journal.what = unreported.result
  BY <1>1, <1>2 DEF Entry, JournalEntries, Reports, Said
<1>4. disk.journal # None
  BY <1>3, RunnerAssumption
<1> QED
  BY <1>1, <1>2, <1>3, <1>4 DEF KeepsInstall, SaysTrusted

\* The report moves on, or stays as it is, and the runner does nothing else.
LEMMA MovesOn ==
    ASSUME RunnerInv, RunnerInv', SidesInv, pc = "step", unreported # None, unreported.journaled,
           DeliverKeeps,
           \/ unreported' = unreported
           \/ \E s \in {"finish", "status", "unknown", "delivered", "refused"} : Stage(s)
    PROVE  /\ unreported' # None /\ unreported'.id = unreported.id
           /\ unreported'.result = unreported.result /\ unreported'.install = unreported.install
           /\ unreported'.journaled /\ disk' = disk /\ pending' = None /\ pc' = "step"
           /\ ToCome(registry[Project], claims)' /\ (Opened => Opened')
<1>1. unreported \in Reports /\ pending = None /\ disk' = disk /\ pending' = None /\ pc' = "step"
  BY ReportedInstall DEF DeliverKeeps
<1>2. /\ unreported' \in Reports /\ unreported'.id = unreported.id
      /\ unreported'.result = unreported.result /\ unreported'.install = unreported.install
      /\ unreported'.journaled = unreported.journaled
  BY <1>1 DEF Stage, Reports
<1>3. unreported' # None
  BY <1>2, RunnerAssumption
<1>4. ToCome(registry[Project], claims)'
  BY <1>1 DEF ToCome, Planning
<1>5. Opened => Opened'
  BY <1>1, <1>2, <1>3 DEF Opened
<1> QED
  BY <1>1, <1>2, <1>3, <1>4, <1>5

LEMMA SidesStaged ==
    ASSUME RunnerInv, RunnerInv', SidesInv, HalfSides(claims),
           pc = "step", unreported # None, unreported.journaled, DeliverKeeps,
           \/ unreported' = unreported
           \/ \E s \in {"finish", "status", "unknown", "delivered", "refused"} : Stage(s),
           KeepsInstall(disk) =>
               Judged(unreported'.stage, unreported.id, registry'[Project], entries', claims')
    PROVE  SidesInv'
<1>1. /\ unreported' # None /\ unreported'.id = unreported.id /\ unreported'.journaled
      /\ disk' = disk /\ ToCome(registry[Project], claims)' /\ (Opened => Opened')
  BY MovesOn
<1>2. Opened'
  BY <1>1 DEF HalfSides
<1> QED
  BY <1>1, <1>2, TreesStay, SidesQuiet

\* A report of anything but an installed trust.
LEMMA OtherFinish ==
    ASSUME RunnerInv, SidesInv, NEW t \in Time, unreported # None,
           NEW result \in {"applied", "apply_failed", "outcome_unknown"},
           \/ /\ FinishOther(t, unreported.id, result) /\ UNCHANGED registryPart
              /\ (UNCHANGED ledgerFailed \/ ledgerFailed' = TRUE)
           \/ UNCHANGED <<jobsPart, registryPart, ledgerFailed>>
    PROVE  HalfSides(claims)
<1>1. CASE UNCHANGED <<jobsPart, registryPart, ledgerFailed>>
  BY <1>1, DaemonIdle, SidesMoved
<1>2. CASE /\ FinishOther(t, unreported.id, result) /\ UNCHANGED registryPart
           /\ (UNCHANGED ledgerFailed \/ ledgerFailed' = TRUE)
  <2>1. unreported.id \in Nat /\ unreported.id < nextId /\ JobsKept /\ Project \in Projects
    BY RunnerAssumption DEF RunnerInv, RunnerKept, ToReport, Started, TrustInv
  <2>2. JobFinish(JobsAt(gate, t), Me, Project, unreported.id, result)
    BY <1>2 DEF FinishOther
  <2>3. /\ JobsWent({})
        /\ \A l \in jobEvents' : \/ l \in jobEvents \/ l.kind \notin Reported
                                 \/ l.kind = result /\ l.id = unreported.id
    BY <2>1, <2>2, CallFinish
  <2>4. \A l \in jobEvents' : l \in jobEvents \/ l.kind # "trusted"
    BY <2>3 DEF Reported
  <2> QED
    BY <1>2, <2>3, <2>4, DaemonQuiet, SidesMoved
<1> QED
  BY <1>1, <1>2

LEMMA SendUnknownSides ==
    ASSUME RunnerInv, RunnerInv', SidesInv, NEW t \in Time, SendUnknown(t)
    PROVE  SidesInv'
<1>1. /\ pc = "step" /\ unreported # None /\ unreported.journaled /\ DeliverKeeps
      /\ unreported.stage = "unknown"
  BY DEF SendUnknown, Delivers
<1>2. Call(FALSE, FinishOther(t, unreported.id, "outcome_unknown"),
           Stage("delivered"), Stage("finish"))
  BY Zenon DEF SendUnknown
<1>3. /\ Stage("delivered") \/ Stage("finish")
      /\ \/ /\ FinishOther(t, unreported.id, "outcome_unknown") /\ UNCHANGED registryPart
            /\ (UNCHANGED ledgerFailed \/ ledgerFailed' = TRUE)
         \/ UNCHANGED <<jobsPart, registryPart, ledgerFailed>>
  BY <1>2, Zenon DEF Call, trustVars
<1>4. HalfSides(claims)
  BY <1>1, <1>3, OtherFinish
<1>5. ~KeepsInstall(disk)
  BY <1>1 DEF SidesInv, Sides, Pledged, Judged
<1> QED
  BY <1>1, <1>3, <1>4, <1>5, SidesStaged

\* A job of which the runner's result is known, ended with its line.
LEMMA EndedIsRecorded ==
    ASSUME NEW j, NEW n, NEW cs, Good(j, n, cs),
           NEW e \in j.entries, e.state = "done", e.result = "trusted"
    PROVE  Recorded(e.id, j.events)
<1>1. PICK l \in j.events : OutcomesIn(j.events, e.id) = {l} /\ l.kind = LineOf(e.result)
  BY DEF Good, Told
<1> QED
  BY <1>1 DEF Recorded, OutcomesIn, LineOf

LEMMA AskStatusSides ==
    ASSUME RunnerInv, RunnerInv', SidesInv, NEW t \in Time, AskStatus(t)
    PROVE  SidesInv'
<1> DEFINE id == unreported.id
           known == {e \in entries' : e.id = id}
           stage == StatusSays(known)
<1>1. /\ pc = "step" /\ unreported # None /\ unreported.journaled /\ DeliverKeeps
      /\ unreported.stage = "status"
  BY DEF AskStatus, Delivers
<1>2. Call(FALSE, JobTick(JobsAt(gate, t)), Stage(stage), Stage("finish"))
  BY Zenon DEF AskStatus
<1>3. stage \in {"delivered", "unknown", "refused"}
  BY DEF StatusSays
<1>4. /\ Stage(stage) \/ Stage("finish")
      /\ \/ /\ JobTick(JobsAt(gate, t)) /\ UNCHANGED registryPart
            /\ (UNCHANGED ledgerFailed \/ ledgerFailed' = TRUE)
         \/ UNCHANGED <<jobsPart, registryPart, ledgerFailed>>
  <2> HIDE DEF stage
  <2> QED
    BY <1>2, Zenon DEF Call, trustVars
<1>5. HalfSides(claims) /\ claims' = claims
  BY <1>4, CallSides
<1>6. unreported'.stage \in {stage, "finish"}
  <2>1. unreported \in Reports
    BY <1>1, ReportedInstall
  <2> HIDE DEF stage
  <2> QED
    BY <1>4, <2>1 DEF Stage, Reports
<1>7. ASSUME KeepsInstall(disk)
      PROVE  Judged(unreported'.stage, id, registry'[Project], entries', claims')
  <2>1. unreported.result = "trusted" /\ disk.journal.job = id
    BY <1>1, <1>7, ReportedInstall
  <2>2. /\ Over(id, entries', claims') /\ NotOf(id, registry'[Project])
        /\ Recorded(id, jobEvents') => OnlyOf(id, registry'[Project])
    BY <1>1, <1>5, <1>7, <2>1 DEF HalfSides, Pledged, Judged
  <2>3. stage = "delivered" => OnlyOf(id, registry'[Project])
    <3> SUFFICES ASSUME stage = "delivered" PROVE OnlyOf(id, registry'[Project])
      OBVIOUS
    <3>1. PICK e \in entries' : e.id = id /\ e.result = "trusted"
      BY <2>1 DEF StatusSays
    <3>2. e.state = "done"
      <4>1. HandedOut(Held, nextId, claims)' /\ Held'.entries = entries'
        BY DEF RunnerInv, TrustInv, JobsKept, JobsInv, Good, Held
      <4>2. e.state \in Active \cup {"done"}
        BY GoodParts DEF RunnerInv, TrustInv, JobsKept, JobsInv, Held
      <4> QED
        BY <2>2, <3>1, <4>1, <4>2 DEF HandedOut, Over, Taken, Active
    <3>3. Recorded(id, jobEvents')
      <4>1. /\ Good(Held', nextId', claims') /\ Held'.entries = entries'
            /\ Held'.events = jobEvents'
        BY DEF RunnerInv, TrustInv, JobsKept, JobsInv, Held
      <4> QED
        BY <3>1, <3>2, <4>1, EndedIsRecorded
    <3> QED
      BY <2>2, <3>3
  <2>4. stage # "unknown"
    BY <2>1 DEF StatusSays
  <2> HIDE DEF stage
  <2> QED
    BY <1>3, <1>6, <2>2, <2>3, <2>4 DEF Judged
<1>8. \E s \in {"finish", "status", "unknown", "delivered", "refused"} : Stage(s)
  BY <1>3, <1>4
<1> QED
  BY <1>1, <1>5, <1>7, <1>8, SidesStaged

\* A claimed job that is being reported: the only one open, and the one whose
\* trust is installed.
LEMMA ReportedClaim ==
    ASSUME RunnerInv, SidesInv, KeepsInstall(disk), unreported # None, unreported.journaled,
           NEW e \in ClaimedTrust(unreported.id), e.project = Project
    PROVE  /\ e \in entries /\ e.state = "claimed" /\ e.id = unreported.id /\ e.kind = "trust"
           /\ \A x \in entries : x.id = e.id => x = e
           /\ RecordOf(e) \in TrustRecords /\ RecordOf(e).job = e.id /\ e.id < nextId
           /\ LocalTrust(disk) = RevisionOf(RecordOf(e))
           /\ Installed(e.id, disk, entries, claims)
<1>1. /\ e \in entries /\ e.state = "claimed" /\ e.id = unreported.id /\ e.kind = "trust"
  BY DEF ClaimedTrust
<1>2. RecordOf(e) \in TrustRecords /\ RecordOf(e).job = e.id
  BY <1>1, RunnerAssumption, ClaimedRecord DEF RunnerInv
<1>3. OneEach(Held, nextId) /\ Held.entries = entries
  BY DEF RunnerInv, TrustInv, JobsKept, JobsInv, Good, Held
<1>4. Installed(e.id, disk, entries, claims)
  BY <1>1, ReportedInstall DEF SidesInv, Sides, Pledged
<1>5. LocalTrust(disk) = RevisionOf(RecordOf(e))
  BY <1>1, <1>4 DEF Installed, ScopeRevision, RevisionOf, RecordOf
<1> QED
  BY <1>1, <1>2, <1>3, <1>4, <1>5 DEF OneEach

\* The daemon has recorded it, for good or for a while.
LEMMA SidesRecorded ==
    ASSUME RunnerInv, RunnerInv', SidesInv, pc = "step", unreported # None,
           unreported.journaled, KeepsInstall(disk), DeliverKeeps,
           NEW e \in ClaimedTrust(unreported.id), e.project = Project,
           JobsWent({}), registry'[Project] = RecordOf(e),
           ledgerFailed' \/ \A f \in entries' :
               f.id = e.id => f.state = "done" /\ f.kind = "trust" /\ f.result = "trusted",
           \/ UNCHANGED unreported /\ unreported.stage = "finish"
           \/ Stage("delivered") /\ \A f \in entries' : f.id = e.id => f.state = "done"
    PROVE  SidesInv'
<1> DEFINE rec == RecordOf(e)
<1>1. /\ e \in entries /\ e.state = "claimed" /\ e.id = unreported.id /\ e.kind = "trust"
      /\ \A x \in entries : x.id = e.id => x = e
      /\ rec \in TrustRecords /\ rec.job = e.id /\ e.id < nextId
      /\ LocalTrust(disk) = RevisionOf(rec)
      /\ Installed(e.id, disk, entries, claims)
  BY ReportedClaim
<1>2. /\ unreported' # None /\ unreported'.id = e.id /\ unreported'.journaled
      /\ unreported'.result = unreported.result /\ disk' = disk
      /\ ToCome(registry[Project], claims)' /\ (Opened => Opened')
  BY <1>1, MovesOn
<1>3. Opened' /\ disk.journal.job = e.id /\ disk.marker # None
  BY <1>1, <1>2, ReportedInstall DEF SidesInv, Sides, KeepsInstall
<1>4. TrustInv /\ {} \in SUBSET Moves /\ nextId \in Nat /\ nextId' \in Nat /\ nextId <= nextId'
  BY 0 \in Nat, GoodParts DEF RunnerInv, TrustInv, JobsWent, JobsKept, JobsInv
<1>5. Installed(e.id, disk, entries', claims') /\ Taken(e.id, claims')
  BY <1>1, <1>4, InstalledOn DEF Installed
<1>6. RecordKnown(rec, entries', nextId', ~ledgerFailed')
  <2>1. rec.job < nextId'
    <3>1. rec.job \in Nat
      BY <1>1 DEF TrustRecords
    <3> QED
      BY <1>1, <1>4, <3>1
  <2>2. ASSUME NEW f \in entries', f.id = rec.job
        PROVE  f.state \in {"claimed", "done"}
    <3>1. PICK x \in entries : Passed(x, f, {})
      <4>1. f.id # nextId
        BY <1>1, <1>4, <2>2 DEF TrustRecords
      <4> QED
        BY <4>1 DEF JobsWent, Evolved
    <3>2. x = e
      BY <1>1, <2>2, <3>1 DEF Passed
    <3> QED
      BY <1>1, <3>1, <3>2 DEF Passed
  <2> HIDE DEF rec
  <2> QED
    BY <1>1, <2>1, <2>2 DEF RecordKnown
<1>7. OnlyOf(e.id, rec)
  BY <1>1 DEF OnlyOf
<1>8. Judged(unreported'.stage, e.id, rec, entries', claims')
  <2>1. CASE UNCHANGED unreported /\ unreported.stage = "finish"
    BY <2>1 DEF Judged
  <2>2. CASE Stage("delivered") /\ \A f \in entries' : f.id = e.id => f.state = "done"
    <3>1. unreported'.stage = "delivered"
      BY <2>2, ReportedInstall DEF Stage, Reports
    <3> QED
      BY <1>5, <1>7, <2>2, <3>1 DEF Judged, Over
  <2> QED
    BY <2>1, <2>2
<1> HIDE DEF rec
<1>9. registry'[Project] = rec
  BY DEF rec
<1>10. Pledged(registry[Project], entries, claims, jobEvents)'
  BY <1>2, <1>3, <1>5, <1>7, <1>8, <1>9 DEF Pledged
<1>11. Holds(registry[Project])'
  BY <1>1, <1>2, <1>3, <1>9 DEF Holds
<1>12. RecordKnown(registry[Project], entries, nextId, ~ledgerFailed)'
  BY <1>6, <1>9 DEF RecordKnown
<1> QED
  BY <1>2, <1>3, <1>10, <1>11, <1>12 DEF SidesInv, Sides

\* A refused or repeated report: the daemon knows what became of the job.
LEMMA FinishTrustedSides ==
    ASSUME RunnerInv, RunnerInv', SidesInv, NEW t \in Time, Delivers("finish"), DeliverKeeps,
           unreported.result = "trusted",
           FinishTrusted(t, Project, unreported.id,
                         Stage("delivered"), Stage("status"), UNCHANGED unreported)
    PROVE  SidesInv'
<1> DEFINE p == Project
           id == unreported.id
           rec == registry[Project]
           j == JobsAt(gate, t)
           claimed == {e \in ClaimedTrust(id) : e.project = p}
           still == UNCHANGED ledgerFailed \/ ledgerFailed' = TRUE
           with(e) == [registry EXCEPT ![p] = RecordOf(e)]
           said(s) == UNCHANGED unreported \/ Stage(s)
<1>p. /\ p \in Projects /\ JobsKept /\ TrustInv /\ t \in Time
      /\ registry \in [Projects -> TrustRecords \cup {None}]
      /\ rec \in TrustRecords \cup {None}
      /\ UNCHANGED registryPart => trusted' \in [Projects -> Revisions \cup {None}]
  BY RunnerAssumption DEF RunnerInv, TrustInv, RegistryKept, registryPart, JobsKept, JobsInv
<1>0. /\ pc = "step" /\ unreported # None /\ unreported.journaled /\ unreported.stage = "finish"
      /\ unreported \in Reports /\ disk.journal # None /\ disk.journal.job = id
      /\ KeepsInstall(disk) <=> disk.marker # None
      /\ SaysTrusted(disk.journal)
  BY ReportedInstall DEF Delivers
<1>s. /\ \A s \in {"finish", "status", "unknown", "delivered", "refused"} :
            said(s) => \E r \in {"finish", "status", "unknown", "delivered", "refused"} :
                          UNCHANGED unreported \/ Stage(r)
      /\ \A s : Stage(s) => unreported'.stage = s
      /\ UNCHANGED unreported => unreported'.stage = "finish"
  BY <1>0 DEF Stage, Reports
<1>h. /\ RecordKnown(rec, entries, nextId, ~ledgerFailed)
      /\ KeepsInstall(disk) => Installed(id, disk, entries, claims)
      /\ disk.marker = None => Over(id, entries, claims)
  BY <1>0 DEF SidesInv, Sides, Pledged
<1>1. ASSUME KeepsInstall(disk), Serves(TRUE), AlreadyTrusted(p, id)
      PROVE  OnlyOf(id, rec) /\ Over(id, entries, claims)
  BY <1>1, <1>h DEF AlreadyTrusted, OnlyOf, Over, Installed, RecordKnown, Serves
<1>2. ASSUME KeepsInstall(disk), Serves(TRUE), ~AlreadyTrusted(p, id), claimed = {}
      PROVE  NotOf(id, rec) /\ Over(id, entries, claims)
  <2>1. Over(id, entries, claims)
    BY <1>2, <1>h DEF Over, Installed, ClaimedTrust
  <2>2. NotOf(id, rec)
    BY <1>2, <1>h DEF AlreadyTrusted, NotOf, RecordKnown, Serves
  <2> QED
    BY <2>1, <2>2
\* The registry stays as it is, or loses its record.
<1>3. ASSUME NEW s \in {"finish", "status", "delivered"}, said(s), DaemonWent({}),
             KeepsInstall(disk) /\ s = "delivered" => OnlyOf(id, rec) /\ Over(id, entries, claims),
             KeepsInstall(disk) /\ s = "status" => NotOf(id, rec) /\ Over(id, entries', claims')
      PROVE  SidesInv'
  <2>1. HalfSides(claims) /\ {} \in SUBSET Moves /\ JobsWent({})
    BY <1>3, SidesMoved DEF DaemonWent
  <2>2. registry'[Project] \in {rec, None}
    BY <1>3 DEF DaemonWent
  <2>3. Over(id, entries, claims) => Over(id, entries', claims')
    BY <1>p, <2>1, OverOn
  <2>4. unreported'.stage \in {"finish", s}
    BY <1>3, <1>s
  <2> HIDE DEF rec, id
  <2>5. KeepsInstall(disk) => Judged(unreported'.stage, id, registry'[Project], entries', claims')
    BY <1>3, <2>2, <2>3, <2>4 DEF Judged, OnlyOf, NotOf
  <2> QED
    BY <1>0, <1>3, <2>1, <2>5, SidesStaged DEF id
<1>4. ASSUME UNCHANGED unreported,
             UNCHANGED trustVars \/ UNCHANGED <<jobsPart, registryPart, ledgerFailed>>
      PROVE  SidesInv'
  <2>1. UNCHANGED <<jobsPart, registryPart, ledgerFailed>>
    BY <1>4 DEF trustVars
  <2> QED
    BY <1>3, <1>4, <2>1, DaemonIdle
<1>5. ASSUME NEW s \in {"status", "delivered"}, said(s), Leaves(j),
             UNCHANGED <<nextId, claims, registryPart>>, still,
             KeepsInstall(disk) /\ s = "delivered" => OnlyOf(id, rec) /\ Over(id, entries, claims),
             KeepsInstall(disk) /\ s = "status" => NotOf(id, rec) /\ Over(id, entries, claims)
      PROVE  SidesInv'
  <2>1. JobsWent({}) /\ Muted(jobEvents, jobEvents')
    BY <1>p, <1>5, JobsLeft
  <2>2. DaemonWent({})
    BY <1>5, <2>1, DaemonQuiet DEF Muted, Reported
  <2>3. Over(id, entries, claims) => Over(id, entries', claims')
    BY <1>p, <2>1, OverOn
  <2> HIDE DEF rec, id, said
  <2> QED
    BY <1>3, <1>5, <2>2, <2>3
\* A job that is claimed is on its install: it is not over.
<1>6. ASSUME NEW e \in claimed
      PROVE  /\ KeepsInstall(disk) /\ e \in entries /\ e.state = "claimed" /\ e.id = id
             /\ e \in ClaimedTrust(id) /\ e.kind = "trust"
             /\ \A x \in entries : x.id = e.id => x = e
  <2>1. e \in entries /\ e.state = "claimed" /\ e.id = id /\ e \in ClaimedTrust(id)
    BY DEF ClaimedTrust
  <2>2. KeepsInstall(disk)
    BY <1>0, <1>h, <2>1 DEF Over
  <2> QED
    BY <1>0, <2>1, <2>2, ReportedClaim
<1>7. ASSUME NEW e \in claimed, NEW result \in {"trusted", "refused"},
             Leaves(Ended(j, e, result, result)), UNCHANGED <<nextId, claims>>,
             trusted' \in [Projects -> Revisions \cup {None}]
      PROVE  /\ JobsWent({}) /\ (result = "refused" => Muted(jobEvents, jobEvents'))
             /\ \A f \in entries' : f.id = id =>
                   f.state = "done" /\ f.kind = "trust" /\ f.result = result
  <2>1. /\ JobsWent({}) /\ (result = "refused" => Muted(jobEvents, jobEvents'))
        /\ entries' = (entries \ {e}) \cup {Settled(e, result, JobsAt(gate, t).now)}
    BY <1>p, <1>6, <1>7, ClaimedEnds
  <2>2. e \in Entries /\ result \in Results
    BY <1>p, <1>6, CallGood, GoodParts DEF JobsKept, JobsInv, Held, Results
  <2>3. LET f == Settled(e, result, JobsAt(gate, t).now)
        IN  f.state = "done" /\ f.kind = e.kind /\ f.result = result
    BY <2>2 DEF Settled, Entries
  <2> QED
    BY <1>6, <2>1, <2>3
<1>8. ASSUME NEW e \in claimed, Serves(TRUE), said("status"),
             Leaves(Ended(j, e, "refused", "refused")),
             UNCHANGED <<nextId, claims, registryPart>>, still
      PROVE  SidesInv'
  <2>1. /\ JobsWent({}) /\ Muted(jobEvents, jobEvents')
        /\ \A f \in entries' : f.id = id => f.state = "done"
    BY <1>p, <1>7, <1>8
  <2>2. DaemonWent({})
    BY <1>8, <2>1, DaemonQuiet DEF Muted, Reported
  <2>3. NotOf(id, rec)
    BY <1>6, <1>8, <1>h DEF NotOf, RecordKnown, Serves
  <2>4. Over(id, entries', claims')
    <3>1. Taken(id, claims)
      BY <1>6, <1>h DEF Installed
    <3>2. Taken(id, claims')
      BY <2>1, <3>1, TakenOn
    <3> QED
      BY <2>1, <3>2 DEF Over
  <2> HIDE DEF rec, id, said
  <2> QED
    BY <1>3, <1>8, <2>2, <2>3, <2>4
<1>9. ASSUME NEW e \in claimed, said("delivered"),
             Leaves(Ended(j, e, "trusted", "trusted")), Registers(with(e)),
             UNCHANGED <<nextId, claims>>
      PROVE  SidesInv'
  <2>1. RecordOf(e) \in TrustRecords
    BY <1>p, ClaimedRecord
  <2>2. with(e) \in [Projects -> TrustRecords \cup {None}]
    BY <1>p, <2>1
  <2>3. registry' = with(e) /\ trusted' \in [Projects -> Revisions \cup {None}]
    BY <1>9, <2>2, RegistersTyped
  <2>4. /\ JobsWent({})
        /\ \A f \in entries' : f.id = id =>
              f.state = "done" /\ f.kind = "trust" /\ f.result = "trusted"
    BY <1>7, <1>9, <2>3
  <2>5. registry'[Project] = RecordOf(e)
    BY <1>p, <2>3
  <2>6. e.project = Project
    OBVIOUS
  <2> QED
    BY <1>0, <1>6, <1>9, <2>4, <2>5, <2>6, SidesRecorded
<1>10. ASSUME NEW e \in claimed, UNCHANGED unreported, Reopened(j), UndoTrust(e),
              ledgerFailed' = TRUE, UNCHANGED <<nextId, claims, up>>
       PROVE  SidesInv'
  <2>1. /\ RecordOf(e) \in TrustRecords /\ e.project = p
    BY <1>p, ClaimedRecord
  <2>2. PICK records \in {with(e), registry, [registry EXCEPT ![p] = None]} :
           registry' = records /\ trusted' \in [Projects -> Revisions \cup {None}]
    <3>1. /\ with(e) \in [Projects -> TrustRecords \cup {None}]
          /\ [registry EXCEPT ![p] = None] \in [Projects -> TrustRecords \cup {None}]
      BY <1>p, <2>1
    <3>2. \/ UNCHANGED <<registry, trusted>> \/ Registers(with(e))
          \/ Registers([registry EXCEPT ![p] = None])
      BY <1>10, <2>1, Zenon DEF UndoTrust
    <3>3. UNCHANGED <<registry, trusted>> => Registers(registry)
      BY DEF Registers, TrustedNow, RunnerInv, TrustInv, RegistryKept
    <3>4. \E records \in {with(e), registry, [registry EXCEPT ![p] = None]} :
             records \in [Projects -> TrustRecords \cup {None}] /\ Registers(records)
      BY <1>p, <3>1, <3>2, <3>3
    <3> HIDE DEF with
    <3> QED
      BY <3>4, RegistersTyped
  <2>3. JobsWent({}) /\ Muted(jobEvents, jobEvents')
    BY <1>p, <1>10, <2>2, JobsLeft DEF Reopened
  <2>4. CASE registry' = with(e)
    <3>1. registry'[Project] = RecordOf(e)
      BY <1>p, <2>4
    <3> QED
      BY <1>0, <1>6, <1>10, <2>1, <2>3, <3>1, SidesRecorded
  <2>5. CASE registry' \in {registry, [registry EXCEPT ![p] = None]}
    <3>1. registry'[Project] \in {registry[Project], None}
      BY <1>p, <2>5
    <3>2. DaemonWent({})
      BY <1>10, <2>3, <3>1 DEF DaemonWent, Muted, Reported
    <3> QED
      BY <1>3, <1>10, <3>2
  <2> QED
    BY <2>2, <2>4, <2>5
<1>11. ASSUME NEW e \in claimed, UNCHANGED unreported, Forgotten, Registers(with(e))
       PROVE  SidesInv'
  <2>1. RecordOf(e) \in TrustRecords /\ e.project = p
    BY <1>p, ClaimedRecord
  <2>2. with(e) \in [Projects -> TrustRecords \cup {None}]
    BY <1>p, <2>1
  <2>3. registry' = with(e) /\ trusted' \in [Projects -> Revisions \cup {None}]
    BY <1>11, <2>2, RegistersTyped
  <2>4. JobsWent({}) /\ entries' = {}
    BY <1>p, <1>11, <2>3, ForgottenWent DEF Forgotten
  <2>5. registry'[Project] = RecordOf(e)
    BY <1>p, <2>3
  <2> QED
    BY <1>0, <1>6, <1>11, <2>1, <2>4, <2>5, SidesRecorded
<1> DEFINE fin == FinishTrusted(t, p, id, Stage("delivered"), Stage("status"), UNCHANGED unreported)
<1>12. \/ UNCHANGED unreported /\ UNCHANGED trustVars
       \/ /\ Serves(TRUE) /\ AlreadyTrusted(p, id) /\ Leaves(j)
          /\ UNCHANGED <<nextId, claims, registryPart>> /\ still /\ said("delivered")
       \/ /\ Serves(TRUE) /\ ~AlreadyTrusted(p, id) /\ claimed = {} /\ Leaves(j)
          /\ UNCHANGED <<nextId, claims, registryPart>> /\ still /\ said("status")
       \/ UNCHANGED unreported /\ UNCHANGED <<jobsPart, registryPart, ledgerFailed>>
       \/ \E e \in claimed :
             \/ /\ Serves(TRUE) /\ Leaves(Ended(j, e, "refused", "refused"))
                /\ UNCHANGED <<nextId, claims, registryPart>> /\ still /\ said("status")
             \/ /\ Leaves(Ended(j, e, "trusted", "trusted")) /\ Registers(with(e))
                /\ UNCHANGED <<nextId, claims>> /\ said("delivered")
             \/ /\ Reopened(j) /\ UndoTrust(e) /\ ledgerFailed' = TRUE /\ UNCHANGED unreported
                /\ UNCHANGED <<nextId, claims, up>>
             \/ Forgotten /\ Registers(with(e)) /\ UNCHANGED unreported
  <2> HIDE DEF p, id, fin
  <2>1. fin
    BY DEF fin, p, id
  <2> HIDE DEF j, with, claimed
  <2> QED
    BY <2>1, Zenon DEF fin, FinishTrusted, j, with, claimed
<1>13. CASE /\ Serves(TRUE) /\ AlreadyTrusted(p, id) /\ Leaves(j)
            /\ UNCHANGED <<nextId, claims, registryPart>> /\ still /\ said("delivered")
  <2> HIDE DEF j, rec, said
  <2> QED
    BY <1>1, <1>5, <1>13
<1>14. CASE /\ Serves(TRUE) /\ ~AlreadyTrusted(p, id) /\ claimed = {} /\ Leaves(j)
            /\ UNCHANGED <<nextId, claims, registryPart>> /\ still /\ said("status")
  <2> HIDE DEF j, rec, said
  <2> QED
    BY <1>2, <1>5, <1>14
<1> HIDE DEF j, rec, said, with, claimed, still
<1> QED
  BY <1>4, <1>8, <1>9, <1>10, <1>11, <1>12, <1>13, <1>14

LEMMA SendFinishSides ==
    ASSUME RunnerInv, RunnerInv', SidesInv, NEW t \in Time, SendFinish(t)
    PROVE  SidesInv'
<1>1. Delivers("finish") /\ DeliverKeeps
  BY DEF SendFinish
<1>2. CASE unreported.result = "trusted"
  <2>1. FinishTrusted(t, Project, unreported.id,
            Stage("delivered"), Stage("status"), UNCHANGED unreported)
    BY <1>2, Zenon DEF SendFinish
  <2> QED
    BY <1>1, <1>2, <2>1, FinishTrustedSides
<1>3. CASE unreported.result # "trusted"
  <2>1. Call(FALSE, FinishOther(t, unreported.id, unreported.result),
             IF EndsJob(unreported.id) THEN Stage("delivered") ELSE Stage("status"),
             UNCHANGED unreported)
    BY <1>3, Zenon DEF SendFinish
  <2>2. /\ (IF EndsJob(unreported.id) THEN Stage("delivered") ELSE Stage("status"))
           \/ UNCHANGED unreported
        /\ \/ /\ FinishOther(t, unreported.id, unreported.result)
              /\ UNCHANGED registryPart /\ (UNCHANGED ledgerFailed \/ ledgerFailed' = TRUE)
           \/ UNCHANGED <<jobsPart, registryPart, ledgerFailed>>
    BY <2>1, Zenon DEF Call, trustVars
  <2>3. /\ pc = "step" /\ unreported # None /\ unreported.journaled
        /\ unreported.result \in {"applied", "apply_failed", "outcome_unknown"}
        /\ ~KeepsInstall(disk)
    BY <1>1, <1>3, ReportedInstall DEF Delivers, Reports, Said
  <2>4. HalfSides(claims)
    BY <2>2, <2>3, OtherFinish
  <2>5. UNCHANGED unreported \/ Stage("delivered") \/ Stage("status")
    BY <2>2, Zenon
  <2> QED
    BY <1>1, <2>3, <2>4, <2>5, SidesStaged
<1> QED
  BY <1>2, <1>3

----------------------------------------------------------------------------
(* The others, the start, and every step.                                  *)

LEMMA OthersSides ==
    ASSUME RunnerInv, RunnerInv', SidesInv, TrustOthers, UNCHANGED runnerVars
    PROVE  SidesInv'
<1> DEFINE moves == {<<"waiting", "approved">>}
<1>1. /\ JobsWent(moves) /\ moves \in SUBSET Moves
      /\ \A l \in jobEvents' : l \in jobEvents \/ l.kind # "trusted"
  BY OthersWent DEF RunnerInv, TrustWent, Muted, Reported, Moves
<1>2. registry \in [Projects -> TrustRecords \cup {None}] /\ Project \in Projects
  BY RunnerAssumption DEF RunnerInv, TrustInv, RegistryKept
<1>3. /\ registry'[Project] \in {registry[Project], None}
      /\ ledgerFailed /\ ~ledgerFailed' => entries' = {}
      /\ claims' = claims
  <2> DEFINE goal == /\ registry'[Project] \in {registry[Project], None}
                     /\ ledgerFailed /\ ~ledgerFailed' => entries' = {}
                     /\ claims' = claims
  <2>1. ASSUME UNCHANGED <<registryPart, claims>>, UNCHANGED ledgerFailed \/ ledgerFailed' = TRUE
        PROVE  goal
    BY <2>1 DEF registryPart
  <2>2. ASSUME NEW t, NEW p, NEW kind, FileJob(t, p, kind)
        PROVE  goal
    <3>1. /\ UNCHANGED registryPart /\ (UNCHANGED ledgerFailed \/ ledgerFailed' = TRUE)
          /\ JobRequest(JobsTicked(JobsAt(gate, t)), p, kind)
      BY <2>2, Zenon DEF FileJob, Serve
    <3>2. claims' = claims
      BY <3>1, Zenon DEF JobRequest, JobsQuiet
    <3> QED
      BY <2>1, <3>1, <3>2
  <2>3. ASSUME NEW t, NEW e, ApproveJob(t, e) \/ DeclineJob(t, e.id)
        PROVE  goal
    <3>1. /\ UNCHANGED registryPart /\ (UNCHANGED ledgerFailed \/ ledgerFailed' = TRUE)
          /\ \/ JobApprove(JobsAt(gate, t), e.id, e.id, e.scope)
             \/ JobDecline(JobsTicked(JobsAt(gate, t)), e.id)
      BY <2>3, Zenon DEF ApproveJob, DeclineJob, Serve
    <3>2. claims' = claims
      BY <3>1, Zenon DEF JobApprove, JobDecline, JobsQuiet
    <3> QED
      BY <2>1, <3>1, <3>2
  <2>4. ASSUME NEW t, ShowStatus(t) \/ \E p \in Projects : KillProject(t, p)
        PROVE  goal
    <3>1. /\ UNCHANGED registryPart /\ (UNCHANGED ledgerFailed \/ ledgerFailed' = TRUE)
          /\ JobTick(JobsAt(gate, t)) \/ \E p \in Projects : JobKill(JobsAt(gate, t), p)
      BY <2>4, Zenon DEF KillProject, ShowStatus, Serve
    <3>2. claims' = claims
      BY <3>1, Zenon DEF JobTick, JobKill, JobsQuiet
    <3> QED
      BY <2>1, <3>1, <3>2
  <2>5. ASSUME NEW p \in Projects, Untrust(p)
        PROVE  goal
    <3>1. /\ registry' = [registry EXCEPT ![p] = None] /\ UNCHANGED jobsPart
          /\ ledgerFailed' = ledgerFailed
      BY <2>5 DEF Untrust, Registers
    <3> QED
      BY <1>2, <3>1 DEF jobsPart
  <2>6. ASSUME NEW l, UntrustLine(l)
        PROVE  goal
    BY <2>6 DEF UntrustLine, jobsPart
  <2>7. ASSUME DaemonDown
        PROVE  goal
    BY <2>7 DEF DaemonDown, Forgotten
  <2>8. ASSUME DaemonBoot
        PROVE  goal
    <3>1. registry' = Reconciled /\ UNCHANGED jobsPart /\ ledgerFailed' = ledgerFailed
      BY <2>8 DEF DaemonBoot, Registers
    <3> QED
      BY <1>2, <3>1 DEF Reconciled, jobsPart
  <2> HIDE DEF goal
  <2>9. goal
    BY <2>2, <2>3, <2>4, <2>5, <2>6, <2>7, <2>8 DEF TrustOthers
  <2> QED
    BY <2>9 DEF goal
<1>4. HalfSides(claims)
  BY <1>1, <1>3, SidesMoved DEF DaemonWent
<1>5. /\ disk' = disk /\ unreported' = unreported /\ pc' = pc /\ pending' = pending /\ task' = task
  BY DEF runnerVars, runnerMemory
<1>6. ToCome(registry[Project], claims)' /\ Opened'
  BY <1>3, <1>4, <1>5 DEF HalfSides, ToCome, Opened, Planning
<1>7. unreported' # None /\ KeepsInstall(disk') =>
         Judged(unreported'.stage, unreported'.id, registry'[Project], entries', claims')
  BY <1>4, <1>5 DEF HalfSides, Pledged
<1> QED
  BY <1>4, <1>5, <1>6, <1>7, TreesStay, SidesQuiet

LEMMA IdleSides == ASSUME RunnerInv, RunnerInv', SidesInv, UNCHANGED vars PROVE SidesInv'
<1>1. /\ UNCHANGED <<jobsPart, registryPart, ledgerFailed>>
      /\ disk' = disk /\ unreported' = unreported /\ pc' = pc /\ pending' = pending /\ task' = task
  BY DEF vars, trustVars, runnerVars, runnerMemory
<1>2. HalfSides(claims) /\ claims' = claims
  BY <1>1, DaemonIdle, SidesMoved
<1>3. ToCome(registry[Project], claims)' /\ Opened'
  BY <1>1, <1>2 DEF HalfSides, ToCome, Opened, Planning
<1>4. unreported' # None /\ KeepsInstall(disk') =>
         Judged(unreported'.stage, unreported'.id, registry'[Project], entries', claims')
  BY <1>1, <1>2 DEF HalfSides, Pledged
<1> QED
  BY <1>1, <1>2, <1>3, <1>4, TreesStay, SidesQuiet

LEMMA SidesStart == ASSUME RunnerInit PROVE SidesInv
<1> DEFINE rec == registry[Project]
<1>1. /\ registry \in [Projects -> [digest: Digests, schema: Schemas, job: {0}] \cup {None}]
      /\ entries = {} /\ claims = {} /\ jobEvents = {} /\ nextId = 1 /\ Project \in Projects
  BY RunnerAssumption DEF RunnerInit, TrustInit
<1>2. /\ disk.journal = None /\ disk.marker = None /\ disk.tree = DigestOf(rec)
      /\ disk.json = TrustedNow[Project]
      /\ pc = "down" /\ pending = None /\ unreported = None
  BY DEF RunnerInit
<1>3. rec # None => rec.job = 0 /\ disk.tree = rec.digest /\ disk.json = RevisionOf(rec)
  BY <1>1, <1>2 DEF DigestOf, TrustedNow, RevisionOf
<1>4. RecordKnown(rec, entries, nextId, ~ledgerFailed)
  BY <1>1, <1>3 DEF RecordKnown
<1>5. Holds(rec)
  BY <1>2, <1>3, RunnerAssumption DEF Holds, KeepsInstall, Kept, OldTree, OldJson
<1> QED
  BY <1>2, <1>4, <1>5 DEF SidesInv, Sides, ToCome, Planning, Opened, Pledged, KeepsInstall,
                          SaysTrusted

LEMMA SidesSteps ==
    ASSUME RunnerInv, SidesInv, [RunnerNext]_vars
    PROVE  SidesInv'
<1>1. RunnerInv' /\ Readings \subseteq Time
  BY RunnerSteps DEF Readings
<1>2. CASE Working
  BY <1>1, <1>2, PollSides, CheckPendingSides, PlanEndsSides, ClaimSides, OrphanSides,
     SubmitSides DEF Working
<1>3. CASE PlanFails \/ ClaimUnjournaled
  BY <1>1, <1>3, PlanEndsSides, ClaimUnjournaledSides
<1>4. CASE Executing
  BY <1>1, <1>4, InstallSides, ApplySides DEF Executing
<1>5. CASE Delivering
  BY <1>1, <1>5, JournalReportSides, SettleSides, SendFinishSides, AskStatusSides,
     SendUnknownSides DEF Delivering
<1>6. CASE Startup
  BY <1>1, <1>6, StartupSides
<1>7. CASE Dying
  BY <1>1, <1>7, CrashSides, InstallDiesSides, SettleDiesSides, StartupDiesSides, ApplySides
     DEF Dying
<1>8. CASE TrustOthers /\ UNCHANGED runnerVars
  BY <1>1, <1>8, OthersSides
<1>9. CASE UNCHANGED vars
  BY <1>1, <1>9, IdleSides
<1> QED
  BY <1>2, <1>3, <1>4, <1>5, <1>6, <1>7, <1>8, <1>9 DEF RunnerNext

LEMMA SidesAlways == RunnerSpec => []SidesInv
<1>1. RunnerInit => SidesInv
  BY SidesStart
<1>2. RunnerInv /\ SidesInv /\ [RunnerNext]_vars => SidesInv'
  BY SidesSteps
<1> QED
  BY <1>1, <1>2, RunnerAlways, PTL DEF RunnerSpec

\* When the runner has nothing open, what the registry trusts is what its tree
\* and trusted.json hold, whichever of runner and daemon crashed and whichever
\* message was lost between an install, its report, the answer and the undo or
\* commit; the record has its line in the ledger (install_trust, send_finish,
\* startup of src/runner/run.rs; finish_trusted of src/server.rs).
THEOREM OneRecord == RunnerSpec => []TrustIsOneRecord
<1>1. RunnerInv => RunnerTypeOK
  <2> SUFFICES ASSUME RunnerInv PROVE RunnerTypeOK
    OBVIOUS
  <2>1. TrustTypeOK
    <3>1. JobsTypeOK
      BY GoodParts DEF RunnerInv, TrustInv, JobsKept, JobsInv, Held, JobsTypeOK, ClaimSet
    <3> QED
      BY <3>1 DEF RunnerInv, TrustInv, RegistryKept, TrustTypeOK
  <2>2. RunnerTyped
    BY DEF RunnerInv, RunnerKept
  <2> QED
    BY <2>1, <2>2 DEF RunnerTypeOK, RunnerTyped, PCs, Runs, Reports
<1>2. RunnerInv => RecordsAreAudited
  BY DEF RunnerInv, TrustInv, RegistryKept
<1>3. ASSUME RunnerInv, SidesInv, AtRest, registry[Project] # None
      PROVE  LocalTrust(disk) = TrustedNow[Project]
  <2> DEFINE rec == registry[Project]
  <2>1. rec \in TrustRecords /\ Project \in Projects
    BY <1>3, RunnerAssumption DEF RunnerInv, TrustInv, RegistryKept
  <2>2. disk.journal = None /\ disk.marker = None
    BY <1>3 DEF AtRest
  <2>3. Kept(rec, disk)
    BY <1>3, <2>2 DEF SidesInv, Sides, Holds, KeepsInstall
  <2>4. disk.tree = rec.digest /\ disk.json = RevisionOf(rec)
    BY <2>2, <2>3, RunnerAssumption DEF Kept, OldTree, OldJson
  <2>5. disk.json # None /\ disk.json.digest = rec.digest
    BY <2>1, <2>4, RecordFields
  <2>6. TrustedNow[Project] = RevisionOf(rec)
    BY <1>3, <2>1 DEF TrustedNow, RevisionOf
  <2> QED
    BY <2>4, <2>5, <2>6 DEF LocalTrust
<1> QED
  BY <1>1, <1>2, <1>3, RunnerAlways, SidesAlways, PTL DEF TrustIsOneRecord, SidesAgree

----------------------------------------------------------------------------
(* The trust the runner holds: what taking an open install back leaves.    *)

OldTrust(d) == LocalTrust([tree |-> OldTree(d), json |-> OldJson(d)])

\* A trust is of the schema that its tree holds.
OfTree(r) == r # None => r.schema = SchemaOf[r.digest]

\* A disk no write is missing from: only an install that moves a trust aside
\* leaves one there, and a tree to go back to has its record.
Whole(d) ==
    /\ d.marker # TRUE => d.prev = None /\ d.prevJson = None
    /\ d.marker # FALSE /\ OldTree(d) # None => OldJson(d) # None
    /\ OfTree(d.json) /\ OfTree(d.prevJson)

Holding(h) == {d \in Disks : Whole(d) /\ OldTrust(d) = h}

\* What the three depend on.
LEMMA OldFields ==
    ASSUME NEW d \in Disks
    PROVE  /\ d.marker = None => OldTree(d) = d.tree /\ OldJson(d) = d.json
           /\ d.marker = FALSE => OldTree(d) = None /\ OldJson(d) = None
           /\ d.marker = TRUE => /\ OldTree(d) = IF d.prev # None THEN d.prev ELSE d.tree
                                 /\ OldJson(d) = IF d.prevJson # None THEN d.prevJson ELSE d.json
           /\ d.marker \in {None, TRUE, FALSE} /\ None # TRUE /\ None # FALSE
           /\ OldTree(d) \in Trees /\ OldJson(d) \in Records
           /\ OldTrust(d) = IF OldJson(d) # None /\ OldTree(d) = OldJson(d).digest
                            THEN OldJson(d) ELSE None
           /\ OldTree(d) \notin Digests => OldTrust(d) = None
<1>1. /\ d.marker = None => OldTree(d) = d.tree /\ OldJson(d) = d.json
      /\ d.marker = FALSE => OldTree(d) = None /\ OldJson(d) = None
      /\ d.marker = TRUE => /\ OldTree(d) = IF d.prev # None THEN d.prev ELSE d.tree
                            /\ OldJson(d) = IF d.prevJson # None THEN d.prevJson ELSE d.json
      /\ d.marker \in {None, TRUE, FALSE} /\ None # TRUE /\ None # FALSE
  BY DiskFields DEF OldTree, OldJson
<1>2. OldTree(d) \in Trees /\ OldJson(d) \in Records
  BY <1>1, DiskFields
<1>3. OldTrust(d) = IF OldJson(d) # None /\ OldTree(d) = OldJson(d).digest
                    THEN OldJson(d) ELSE None
  BY DEF OldTrust, LocalTrust
<1>4. OldJson(d) # None => OldJson(d).digest \in Digests
  BY <1>2 DEF Records, Revisions
<1> QED
  BY <1>1, <1>2, <1>3, <1>4

LEMMA HeldByTrees ==
    ASSUME NEW d \in Disks, NEW e \in Disks, SameTrees(d, e)
    PROVE  OldTrust(e) = OldTrust(d) /\ (Whole(e) <=> Whole(d)) /\ LocalTrust(e) = LocalTrust(d)
<1>1. OldTree(e) = OldTree(d) /\ OldJson(e) = OldJson(d)
  BY DEF SameTrees, OldTree, OldJson
<1> QED
  BY <1>1 DEF SameTrees, Whole, OldTrust, LocalTrust

\* A write that leaves what an undo goes back to as it was.
LEMMA StillHolds ==
    ASSUME NEW h, NEW d \in Holding(h), NEW e \in Disks,
           OldTree(e) = OldTree(d), OldJson(e) = OldJson(d),
           e.marker # TRUE => e.prev = None /\ e.prevJson = None,
           e.marker # FALSE => d.marker # FALSE \/ OldTree(e) = None,
           OfTree(e.json), OfTree(e.prevJson)
    PROVE  e \in Holding(h)
BY DEF Holding, Whole, OldTrust

LEMMA TreeBackHolds ==
    ASSUME NEW h, NEW d \in Holding(h), d.marker # None
    PROVE  /\ TreeBack(d) \in Path(Holding(h))
           /\ LET e == Last(TreeBack(d))
              IN  /\ e \in Holding(h) /\ e.marker = d.marker /\ e.prev = None
                  /\ e.marker = FALSE => e.tree = None
<1> DEFINE broken == [d EXCEPT !.tree = Broken]
           gone == [d EXCEPT !.tree = None]
           back == [d EXCEPT !.tree = d.prev, !.prev = None]
<1>1. /\ d \in Disks /\ Whole(d) /\ d.marker \in {TRUE, FALSE}
      /\ OfTree(d.json) /\ OfTree(d.prevJson)
  BY OldFields DEF Holding, Whole
<1>2. /\ broken \in Disks /\ broken.tree = Broken /\ broken.prev = d.prev /\ broken.json = d.json
      /\ broken.prevJson = d.prevJson /\ broken.marker = d.marker
  BY <1>1, DiskFields DEF Disks
<1>3. /\ gone \in Disks /\ gone.tree = None /\ gone.prev = d.prev /\ gone.json = d.json
      /\ gone.prevJson = d.prevJson /\ gone.marker = d.marker
  BY <1>1, DiskFields DEF Disks
<1>4. /\ back \in Disks /\ back.tree = d.prev /\ back.prev = None /\ back.json = d.json
      /\ back.prevJson = d.prevJson /\ back.marker = d.marker
  BY <1>1, DiskFields DEF Disks
<1>5. TreeGone(d) \in {<<d>>, <<d, broken, gone>>} /\ (d.tree # None => TreeGone(d) = <<d, broken, gone>>)
  BY Zenon DEF TreeGone, broken, gone
<1>6. TreeBack(d) = IF d.marker THEN IF d.prev = None THEN <<d>> ELSE TreeGone(d) \o <<back>>
                    ELSE TreeGone(d)
  BY Zenon DEF TreeBack, back
<1> HIDE DEF broken, gone, back
<1>7. CASE d.marker = FALSE
  <2>1. broken \in Holding(h) /\ gone \in Holding(h)
    BY <1>1, <1>2, <1>3, <1>7, OldFields, StillHolds DEF Whole
  <2>2. /\ <<d>> \in Path(Holding(h)) /\ Last(<<d>>) = d
        /\ <<d, broken, gone>> \in Path(Holding(h)) /\ Last(<<d, broken, gone>>) = gone
    BY <2>1, PathOf, PathOfThree
  <2>3. TreeBack(d) = TreeGone(d) /\ d.prev = None
    BY <1>1, <1>6, <1>7 DEF Whole
  <2>4. CASE d.tree = None
    BY <1>1, <1>5, <1>7, <2>2, <2>3, <2>4, <1>3, <2>1
  <2>5. CASE d.tree # None
    BY <1>3, <1>5, <2>1, <2>2, <2>3, <2>5
  <2> QED
    BY <2>4, <2>5
<1>8. CASE d.marker = TRUE /\ d.prev = None
  <2>1. TreeBack(d) = <<d>>
    BY <1>6, <1>8
  <2> QED
    BY <1>8, <2>1, PathOf
<1>9. CASE d.marker = TRUE /\ d.prev # None
  <2>1. broken \in Holding(h) /\ gone \in Holding(h) /\ back \in Holding(h)
    BY <1>1, <1>2, <1>3, <1>4, <1>9, OldFields, StillHolds
  <2>2. /\ <<d>> \in Path(Holding(h)) /\ <<d, broken, gone>> \in Path(Holding(h))
        /\ <<back>> \in Path(Holding(h)) /\ Last(<<back>>) = back
    BY <2>1, PathOf, PathOfThree
  <2>3. TreeGone(d) \in Path(Holding(h))
    BY <1>5, <2>2
  <2>4. TreeBack(d) = TreeGone(d) \o <<back>>
    BY <1>6, <1>9
  <2>5. TreeBack(d) \in Path(Holding(h)) /\ Last(TreeBack(d)) = back
    BY <2>2, <2>3, <2>4, PathJoined
  <2> QED
    BY <1>4, <1>9, <2>1, <2>5
<1> QED
  BY <1>1, <1>7, <1>8, <1>9

LEMMA JsonBackHolds ==
    ASSUME NEW h, NEW d \in Holding(h), d.marker # None, d.prev = None,
           d.marker = FALSE => d.tree = None
    PROVE  /\ JsonBack(d) \in Path(Holding(h))
           /\ LET e == Last(JsonBack(d))
              IN  /\ e \in Holding(h) /\ e.marker = d.marker /\ e.prev = None /\ e.prevJson = None
                  /\ e.marker = FALSE => e.tree = None /\ e.json = None
<1> DEFINE gone == [d EXCEPT !.json = None]
           back == [d EXCEPT !.json = d.prevJson, !.prevJson = None]
<1>1. /\ d \in Disks /\ Whole(d) /\ d.marker \in {TRUE, FALSE}
      /\ OfTree(d.json) /\ OfTree(d.prevJson) /\ OfTree(None)
  BY OldFields DEF Holding, Whole, OfTree
<1>2. /\ gone \in Disks /\ gone.tree = d.tree /\ gone.prev = None /\ gone.json = None
      /\ gone.prevJson = d.prevJson /\ gone.marker = d.marker
  BY <1>1, DiskFields DEF Disks
<1>3. /\ back \in Disks /\ back.tree = d.tree /\ back.prev = None /\ back.json = d.prevJson
      /\ back.prevJson = None /\ back.marker = d.marker
  BY <1>1, DiskFields DEF Disks
<1>4. JsonBack(d) = IF d.marker THEN IF d.prevJson = None THEN <<d>> ELSE <<gone, back>>
                    ELSE <<gone>>
  BY Zenon DEF JsonBack, gone, back
<1> HIDE DEF gone, back
<1>5. CASE d.marker = FALSE
  <2>1. gone \in Holding(h)
    BY <1>1, <1>2, <1>5, OldFields, StillHolds DEF Whole
  <2>2. JsonBack(d) = <<gone>> /\ d.prevJson = None
    BY <1>1, <1>4, <1>5 DEF Whole
  <2> QED
    BY <1>2, <1>5, <2>1, <2>2, PathOf
<1>6. CASE d.marker = TRUE /\ d.prevJson = None
  <2>1. JsonBack(d) = <<d>>
    BY <1>4, <1>6
  <2> QED
    BY <1>6, <2>1, PathOf
<1>7. CASE d.marker = TRUE /\ d.prevJson # None
  <2>1. gone \in Holding(h) /\ back \in Holding(h)
    BY <1>1, <1>2, <1>3, <1>7, OldFields, StillHolds
  <2>2. JsonBack(d) = <<gone, back>>
    BY <1>4, <1>7
  <2> QED
    BY <1>3, <1>7, <2>1, <2>2, PathOfTwo
<1> QED
  BY <1>1, <1>5, <1>6, <1>7

LEMMA UndoHolds ==
    ASSUME NEW h, NEW d \in Holding(h)
    PROVE  Undo(d) \in Path(Holding(h)) /\ Last(Undo(d)).marker = None
<1> DEFINE t == TreeBack(d)
           j == t \o JsonBack(Last(t))
           f == Last(j)
           u == [f EXCEPT !.marker = None]
<1>1. CASE d.marker = None
  BY <1>1, PathOf DEF Undo
<1>2. CASE d.marker # None
  <2>1. /\ t \in Path(Holding(h)) /\ Last(t) \in Holding(h) /\ Last(t).marker # None
        /\ Last(t).prev = None /\ (Last(t).marker = FALSE => Last(t).tree = None)
    BY <1>2, TreeBackHolds
  <2> HIDE DEF t
  <2>2. /\ JsonBack(Last(t)) \in Path(Holding(h))
        /\ LET e == Last(JsonBack(Last(t)))
           IN  /\ e \in Holding(h) /\ e.marker # None /\ e.prev = None /\ e.prevJson = None
               /\ e.marker = FALSE => e.tree = None /\ e.json = None
    <3> DEFINE l == Last(t)
    <3>1. /\ l \in Holding(h) /\ l.marker # None /\ l.prev = None
          /\ l.marker = FALSE => l.tree = None
      BY <2>1
    <3> HIDE DEF l
    <3>2. /\ JsonBack(l) \in Path(Holding(h))
          /\ LET e == Last(JsonBack(l))
             IN  /\ e \in Holding(h) /\ e.marker = l.marker /\ e.prev = None /\ e.prevJson = None
                 /\ e.marker = FALSE => e.tree = None /\ e.json = None
      BY <3>1, JsonBackHolds, Zenon
    <3> QED
      BY <3>1, <3>2 DEF l
  <2>3. j \in Path(Holding(h)) /\ f = Last(JsonBack(Last(t)))
    BY <2>1, <2>2, PathJoined
  <2> HIDE DEF f, j
  <2>4. /\ f \in Holding(h) /\ f.marker # None /\ f.prev = None /\ f.prevJson = None
        /\ f.marker = FALSE => f.tree = None /\ f.json = None
    BY <2>2, <2>3
  <2>5. f \in Disks /\ OfTree(f.json) /\ OfTree(f.prevJson)
    BY <2>4 DEF Holding, Whole
  <2>6. /\ u \in Disks /\ u.marker = None /\ u.tree = f.tree /\ u.json = f.json
        /\ u.prev = None /\ u.prevJson = None
    BY <2>4, <2>5, DiskFields DEF Disks
  <2> HIDE DEF u
  <2>7. u \in Holding(h)
    BY <2>4, <2>5, <2>6, OldFields, StillHolds
  <2>8. Undo(d) = j \o <<u>>
    BY <1>2, Zenon DEF Undo, t, j, f, u
  <2>9. <<u>> \in Path(Holding(h)) /\ Last(<<u>>) = u
    BY <2>7, PathOf
  <2> QED
    BY <2>3, <2>6, <2>8, <2>9, PathJoined
<1> QED
  BY <1>1, <1>2

LEMMA HeldIsOld ==
    ASSUME NEW d \in Disks, Whole(d)
    PROVE  HeldTrust(d) = OldTrust(d)
<1>1. d \in Holding(OldTrust(d))
  BY DEF Holding
<1>2. CASE d.marker = None
  BY <1>2, OldFields DEF HeldTrust, OldTrust, LocalTrust
<1>3. CASE d.marker # None
  <2> DEFINE e == Last(Undo(d))
  <2>1. e \in Holding(OldTrust(d)) /\ e.marker = None
    BY <1>1, UndoHolds, PathEach
  <2> HIDE DEF e
  <2>2. e \in Disks /\ OldTrust(e) = OldTrust(d)
    BY <2>1 DEF Holding
  <2>3. LocalTrust(e) = OldTrust(e)
    BY <2>1, <2>2, OldFields DEF OldTrust, LocalTrust
  <2> QED
    BY <1>3, <2>2, <2>3 DEF HeldTrust, e
<1> QED
  BY <1>2, <1>3

\* The old trust is still there to go back to while the new one moves in.
LEMMA SwapHolds ==
    ASSUME NEW h, NEW d \in Holding(h), d.marker = None, NEW record \in Revisions, OfTree(record)
    PROVE  Swap(d, record) \in Path(Holding(h))
<1> DEFINE m == [d EXCEPT !.marker = d.tree # None]
           aside == [m EXCEPT !.prev = m.tree, !.tree = None]
           asideJson == [aside EXCEPT !.prevJson = m.json, !.json = None]
           moved == IF m.marker THEN <<m, aside>> \o IF m.json = None THEN <<>> ELSE <<asideJson>>
                    ELSE <<m>>
           l == Last(moved)
           in == [l EXCEPT !.tree = record.digest]
           done == [in EXCEPT !.json = record]
<1>1. /\ d \in Disks /\ OldTree(d) = d.tree /\ OldJson(d) = d.json /\ OldTrust(d) = h
      /\ d.prev = None /\ d.prevJson = None /\ OfTree(d.json) /\ OfTree(None)
      /\ d.tree # None => d.json # None
  BY OldFields DEF Holding, Whole, OfTree
<1>2. /\ record # None /\ record \in Records /\ record.digest \in Trees
      /\ d.tree \in Trees /\ d.json \in Records /\ None \in Trees /\ None \in Records
      /\ None # TRUE /\ None # FALSE
  BY <1>1, DiskFields, RunnerAssumption DEF Revisions, Trees, Records
<1>3. /\ m \in Disks /\ m.tree = d.tree /\ m.json = d.json /\ m.prev = None
      /\ m.prevJson = None /\ m.marker = (d.tree # None)
  BY <1>1 DEF Disks
<1> HIDE DEF m
<1>4. /\ aside \in Disks /\ aside.tree = None /\ aside.json = d.json /\ aside.prev = d.tree
      /\ aside.prevJson = None /\ aside.marker = m.marker
  BY <1>1, <1>2, <1>3 DEF Disks
<1> HIDE DEF aside
<1>5. /\ asideJson \in Disks /\ asideJson.tree = None /\ asideJson.json = None
      /\ asideJson.prev = d.tree /\ asideJson.prevJson = d.json /\ asideJson.marker = m.marker
  BY <1>1, <1>2, <1>3, <1>4 DEF Disks
<1> HIDE DEF asideJson
<1>6. CASE d.tree # None
  <2>1. m.marker = TRUE /\ d.json # None
    BY <1>1, <1>3, <1>6
  <2>2. m \in Holding(h) /\ aside \in Holding(h) /\ asideJson \in Holding(h)
    BY <1>1, <1>2, <1>3, <1>4, <1>5, <1>6, <2>1, OldFields, StillHolds
  <2>3. moved = <<m, aside>> \o <<asideJson>>
    BY <1>3, <2>1
  <2> HIDE DEF moved
  <2>4. moved \in Path(Holding(h)) /\ l = asideJson
    <3>1. /\ <<m, aside>> \in Path(Holding(h)) /\ <<asideJson>> \in Path(Holding(h))
          /\ Last(<<asideJson>>) = asideJson
      BY <2>2, PathOf, PathOfTwo
    <3> QED
      BY <2>3, <3>1, PathJoined
  <2> HIDE DEF l
  <2>5. /\ in \in Disks /\ in.tree = record.digest /\ in.json = None
        /\ in.prev = d.tree /\ in.prevJson = d.json /\ in.marker = TRUE
    BY <1>2, <1>5, <2>1, <2>4 DEF Disks
  <2> HIDE DEF in
  <2>6. /\ done \in Disks /\ done.tree = record.digest /\ done.json = record
        /\ done.prev = d.tree /\ done.prevJson = d.json /\ done.marker = TRUE
    BY <1>2, <2>5 DEF Disks
  <2> HIDE DEF done
  <2>7. in \in Holding(h) /\ done \in Holding(h)
    BY <1>1, <1>2, <1>6, <2>1, <2>5, <2>6, OldFields, StillHolds
  <2>8. Swap(d, record) = moved \o <<in, done>>
    BY Zenon DEF Swap, moved, l, in, done, asideJson, aside, m
  <2>9. <<in, done>> \in Path(Holding(h))
    BY <2>7, PathOfTwo
  <2> QED
    BY <2>4, <2>8, <2>9, PathJoined
<1>7. CASE d.tree = None
  <2>1. m.marker = FALSE /\ h = None
    BY <1>1, <1>3, <1>7, OldFields, DiskFields
  <2>2. moved = <<m>>
    BY <2>1
  <2> HIDE DEF moved
  <2>3. l = m
    BY <2>2 DEF Last
  <2> HIDE DEF l
  <2>4. /\ in \in Disks /\ in.tree = record.digest /\ in.json = d.json
        /\ in.prev = None /\ in.prevJson = None /\ in.marker = FALSE
    BY <1>2, <1>3, <2>1, <2>3 DEF Disks
  <2> HIDE DEF in
  <2>5. /\ done \in Disks /\ done.tree = record.digest /\ done.json = record
        /\ done.prev = None /\ done.prevJson = None /\ done.marker = FALSE
    BY <1>2, <2>4 DEF Disks
  <2> HIDE DEF done
  <2>6. ASSUME NEW e \in {m, in, done} PROVE e \in Holding(h)
    <3>1. /\ e \in Disks /\ e.marker = FALSE /\ e.prev = None /\ e.prevJson = None
          /\ OfTree(e.json)
      BY <1>1, <1>3, <2>1, <2>4, <2>5
    <3>2. OldTrust(e) = None /\ OldTree(e) = None
      BY <3>1, OldFields
    <3> QED
      BY <1>1, <2>1, <3>1, <3>2 DEF Holding, Whole
  <2>7. Swap(d, record) = <<m>> \o <<in, done>>
    BY <2>2, Zenon DEF Swap, moved, l, in, done, asideJson, aside, m
  <2>8. <<m>> \in Path(Holding(h)) /\ <<in, done>> \in Path(Holding(h))
    BY <2>6, PathOf, PathOfTwo
  <2> QED
    BY <2>7, <2>8, PathJoined
<1> QED
  BY <1>6, <1>7

LEMMA InstallHolds ==
    ASSUME NEW h, NEW d \in Holding(h), d.marker = None, NEW record \in Revisions, OfTree(record)
    PROVE  Install(d, record) \in Path(Holding(h))
<1>1. d \in Disks /\ d.prev = None /\ d.prevJson = None
  BY DiskFields DEF Holding, Whole
<1>2. PrevGone(d) = <<d>> /\ Last(<<d>>) = d
  BY <1>1 DEF PrevGone, Last
<1>3. [d EXCEPT !.prevJson = None] = d
  BY <1>1 DEF Disks
<1>4. Cleared(d) = <<d>> \o <<d>>
  BY <1>2, <1>3, Zenon DEF Cleared
<1>5. <<d>> \in Path(Holding(h))
  BY PathOf
<1>6. Cleared(d) \in Path(Holding(h)) /\ Last(Cleared(d)) = d
  BY <1>2, <1>4, <1>5, PathJoined
<1>7. Swap(d, record) \in Path(Holding(h))
  BY SwapHolds
<1> QED
  BY <1>6, <1>7, PathJoined DEF Install

\* A commit drops the old trust for the one installed; in between there may be
\* none to go back to.
LEMMA CommitHolds ==
    ASSUME NEW d \in Disks, Whole(d), d.marker # None, LocalTrust(d) # None
    PROVE  Commit(d) \in Path({e \in Disks : Whole(e) /\ OldTrust(e) \in
                                                {OldTrust(d), None, LocalTrust(d)}})
<1> DEFINE S == {e \in Disks : Whole(e) /\ OldTrust(e) \in {OldTrust(d), None, LocalTrust(d)}}
           broken == [d EXCEPT !.prev = Broken]
           gone == [d EXCEPT !.prev = None]
           p == Last(PrevGone(d))
           j == [p EXCEPT !.prevJson = None]
           m == [j EXCEPT !.marker = None]
<1>1. /\ d.json # None /\ d.tree = d.json.digest /\ LocalTrust(d) = d.json
      /\ OfTree(d.json) /\ OfTree(d.prevJson) /\ OfTree(None) /\ d \in S
      /\ d.marker \in {TRUE, FALSE} /\ d.tree \in Digests /\ d.tree # None
  BY DiskFields DEF LocalTrust, Whole, OfTree
<1>2. /\ broken \in Disks /\ broken.tree = d.tree /\ broken.json = d.json /\ broken.prev = Broken
      /\ broken.prevJson = d.prevJson /\ broken.marker = d.marker
  BY DiskFields DEF Disks
<1>3. /\ gone \in Disks /\ gone.tree = d.tree /\ gone.json = d.json /\ gone.prev = None
      /\ gone.prevJson = d.prevJson /\ gone.marker = d.marker
  BY DiskFields DEF Disks
<1> HIDE DEF broken, gone
<1>4. d.prev # None => d.marker = TRUE
  BY <1>1 DEF Whole
<1>5. d.prev # None => broken \in S
  BY <1>1, <1>2, <1>4, OldFields, DiskFields DEF Whole
<1>6. gone \in S
  <2>1. CASE d.marker = FALSE
    BY <1>1, <1>3, <2>1, OldFields DEF Whole
  <2>2. CASE d.marker = TRUE /\ d.prevJson = None
    BY <1>1, <1>3, <2>2, OldFields DEF Whole
  <2>3. CASE d.marker = TRUE /\ d.prevJson # None
    <3>1. OldTree(gone) = d.json.digest /\ OldJson(gone) = d.prevJson
      BY <1>1, <1>3, <2>3, OldFields
    <3>2. d.prevJson.digest = d.json.digest => d.prevJson = d.json
      BY <1>1, <2>3, DiskFields DEF OfTree, Records, Revisions
    <3>3. OldTrust(gone) \in {None, d.json}
      BY <1>3, <3>1, <3>2, OldFields
    <3> QED
      BY <1>1, <1>3, <2>3, <3>1, <3>3 DEF Whole
  <2> QED
    BY <1>1, <2>1, <2>2, <2>3
<1>7. PrevGone(d) = IF d.prev = None THEN <<d>> ELSE <<d, broken, gone>>
  BY Zenon DEF PrevGone, broken, gone
<1> HIDE DEF S
<1>8. /\ PrevGone(d) \in Path(S) /\ p \in Disks /\ p.tree = d.tree /\ p.json = d.json
      /\ p.prev = None /\ p.marker = d.marker
  <2>1. CASE d.prev = None
    <3>1. <<d>> \in Path(S) /\ Last(<<d>>) = d
      BY <1>1, PathOf
    <3> QED
      BY <1>7, <2>1, <3>1
  <2>2. CASE d.prev # None
    <3>1. <<d, broken, gone>> \in Path(S) /\ Last(<<d, broken, gone>>) = gone
      BY <1>1, <1>5, <1>6, <2>2, PathOfThree
    <3> QED
      BY <1>3, <1>7, <2>2, <3>1
  <2> QED
    BY <2>1, <2>2
<1> HIDE DEF p
<1>9. /\ j \in Disks /\ j.tree = d.tree /\ j.json = d.json /\ j.prev = None /\ j.prevJson = None
      /\ j.marker = d.marker
  BY <1>8, DiskFields DEF Disks
<1> HIDE DEF j
<1>10. /\ m \in Disks /\ m.tree = d.tree /\ m.json = d.json /\ m.prev = None /\ m.prevJson = None
       /\ m.marker = None
  BY <1>9, DiskFields DEF Disks
<1> HIDE DEF m
<1>11. j \in S /\ m \in S
  BY <1>1, <1>9, <1>10, OldFields DEF S, Whole
<1>12. <<j, m>> \in Path(S)
  BY <1>11, PathOfTwo
<1>13. Commit(d) = PrevGone(d) \o <<j, m>>
  BY Zenon DEF Commit, p, j, m
<1>14. Commit(d) \in Path(S)
  BY <1>8, <1>12, <1>13, PathJoined
<1> QED
  BY <1>14 DEF S

----------------------------------------------------------------------------
(* What is known of the trust an install puts in place.                    *)

\* The ledger has the trust of job id.
Line(id, lines) == \E l \in lines : l.kind = "trusted" /\ l.job = id
\* The tree holds what was signed for it, or nothing came of it.
InPlace(id, d, cs) ==
    \E c \in cs : /\ c.id = id /\ c.scope.kind = "trust"
                  /\ LocalTrust(d) = ScopeRevision(c.scope)
Gone(id, rec, es) ==
    NotOf(id, rec) /\ \A e \in es : e.id = id => e.state = "done" /\ e.result # "trusted"

\* The job whose install is open, by the journal or by the report in hand.
Installing(id) ==
    \/ KeepsInstall(disk) /\ disk.journal.job = id
    \/ unreported # None /\ unreported.install /\ unreported.id = id

\* A runner that is up has an install open only until it is answered for.
Marked == disk.marker # None /\ pc # "down" =>
              unreported # None /\ unreported.result = "trusted"
Ledgered == \A l \in jobEvents : l.kind = "trusted" => Line(l.id, trustLines)
Placed == \A id : Installing(id) =>
              InPlace(id, disk, claims) \/ Gone(id, registry[Project], entries)
Outcome ==
    unreported # None /\ unreported.install =>
        /\ unreported.stage = "delivered" =>
              Line(unreported.id, trustLines) /\ InPlace(unreported.id, disk, claims)
        /\ unreported.stage = "refused" => Gone(unreported.id, registry[Project], entries)
Scoped == pending # None /\ pending.scope.kind = "trust" => OfTree(ScopeRevision(pending.scope))

HeldInv == Whole(disk) /\ Marked /\ Ledgered /\ Placed /\ Outcome /\ Scoped

\* The daemon's part of a step: lines are only added, a new one on a job says
\* what the ledger says, and a new record is of a job that was claimed.
Grew ==
    /\ \E moves \in SUBSET Moves : JobsWent(moves)
    /\ trustLines \subseteq trustLines'
    /\ \A l \in jobEvents' : l \in jobEvents \/ l.kind # "trusted" \/ Line(l.id, trustLines')
    /\ \/ registry'[Project] \in {registry[Project], None}
       \/ \E e \in entries : e.state = "claimed" /\ e.id = registry'[Project].job

LEMMA GrewQuiet ==
    ASSUME NEW moves, DaemonWent(moves), trustLines \subseteq trustLines'
    PROVE  Grew
BY DEF DaemonWent, Grew

LEMMA GrewIdle ==
    ASSUME RunnerInv, UNCHANGED <<jobsPart, registryPart, ledgerFailed>>
    PROVE  Grew
<1>1. DaemonWent({}) /\ trustLines' = trustLines
  BY DaemonIdle DEF registryPart
<1> QED
  BY <1>1, GrewQuiet

\* A call of the runner that leaves the registry alone.
LEMMA GrewCall ==
    ASSUME RunnerInv, NEW t \in Time,
           \/ /\ UNCHANGED registryPart /\ (UNCHANGED ledgerFailed \/ ledgerFailed' = TRUE)
              /\ \/ JobTick(JobsAt(gate, t))
                 \/ JobPoll(JobsTicked(JobsAt(gate, t)), Me)
                 \/ \E id : \E result \in {"refused", "plan_failed"} :
                       JobRefuse(JobsAt(gate, t), Me, id, result)
                 \/ \E id \in Nat : JobClaim(JobsAt(gate, t), Me, id)
                 \/ \E id : \E sc \in JobScopes : JobSubmit(JobsAt(gate, t), Me, id, sc)
                 \/ /\ unreported # None
                    /\ \E result \in {"applied", "apply_failed", "outcome_unknown"} :
                          FinishOther(t, unreported.id, result)
           \/ UNCHANGED <<jobsPart, registryPart, ledgerFailed>>
    PROVE  Grew
<1> DEFINE quiet == UNCHANGED registryPart /\ (UNCHANGED ledgerFailed \/ ledgerFailed' = TRUE)
<1>1. JobsKept /\ Project \in Projects
  BY RunnerAssumption DEF RunnerInv, TrustInv
<1>2. ASSUME quiet, NEW moves \in SUBSET Moves, JobsWent(moves),
             \A l \in jobEvents' : l \in jobEvents \/ l.kind # "trusted"
      PROVE  Grew
  <2>1. DaemonWent(moves) /\ trustLines' = trustLines
    BY <1>2, DaemonQuiet DEF registryPart
  <2> QED
    BY <2>1, GrewQuiet
<1>3. ASSUME quiet,
             \/ JobTick(JobsAt(gate, t))
             \/ JobPoll(JobsTicked(JobsAt(gate, t)), Me)
             \/ \E id : \E result \in {"refused", "plan_failed"} :
                   JobRefuse(JobsAt(gate, t), Me, id, result)
      PROVE  Grew
  <2>1. PICK moves : DaemonWent(moves)
    BY <1>3, DaemonCalls
  <2>2. trustLines' = trustLines
    BY <1>3 DEF registryPart
  <2> QED
    BY <2>1, <2>2, GrewQuiet
<1>4. ASSUME quiet, NEW id \in Nat, JobClaim(JobsAt(gate, t), Me, id) PROVE Grew
  <2>1. JobsWent({<<"approved", "claimed">>}) /\ Muted(jobEvents, jobEvents')
    BY <1>1, <1>4, CallClaim
  <2>2. {<<"approved", "claimed">>} \in SUBSET Moves
    BY DEF Moves
  <2> QED
    BY <1>2, <1>4, <2>1, <2>2 DEF Muted, Reported
<1>5. ASSUME quiet, NEW id, NEW sc \in JobScopes, JobSubmit(JobsAt(gate, t), Me, id, sc) PROVE Grew
  <2>1. JobsWent({<<"working", "waiting">>}) /\ Muted(jobEvents, jobEvents')
    BY <1>1, <1>5, CallSubmit
  <2>2. {<<"working", "waiting">>} \in SUBSET Moves
    BY DEF Moves
  <2> QED
    BY <1>2, <1>5, <2>1, <2>2 DEF Muted, Reported
<1>6. ASSUME quiet, unreported # None, NEW result \in {"applied", "apply_failed", "outcome_unknown"},
             FinishOther(t, unreported.id, result)
      PROVE  Grew
  <2>1. unreported.id \in Nat /\ unreported.id < nextId
    BY <1>6 DEF RunnerInv, RunnerKept, ToReport, Started
  <2>2. JobFinish(JobsAt(gate, t), Me, Project, unreported.id, result)
    BY <1>6 DEF FinishOther
  <2>3. /\ JobsWent({})
        /\ \A l \in jobEvents' : \/ l \in jobEvents \/ l.kind \notin Reported
                                 \/ l.kind = result /\ l.id = unreported.id
    BY <1>1, <2>1, <2>2, CallFinish
  <2> QED
    BY <1>2, <1>6, <2>3 DEF Reported
<1> QED
  BY <1>3, <1>4, <1>5, <1>6, GrewIdle

\* What is known of a job stays known.
LEMMA HeldOn ==
    ASSUME RunnerInv, Grew, NEW id \in Nat, id < nextId
    PROVE  /\ Gone(id, registry[Project], entries) => Gone(id, registry'[Project], entries')
           /\ Line(id, trustLines) => Line(id, trustLines')
           /\ \A d : InPlace(id, d, claims) => InPlace(id, d, claims')
<1>1. PICK moves \in SUBSET Moves : JobsWent(moves)
  BY DEF Grew
<1>2. claims \subseteq claims' /\ Evolved(moves) /\ nextId \in Nat
  BY <1>1, 0 \in Nat, GoodParts DEF JobsWent, RunnerInv, TrustInv, JobsKept, JobsInv
<1>3. ASSUME Gone(id, registry[Project], entries)
      PROVE  Gone(id, registry'[Project], entries')
  <2>1. NotOf(id, registry'[Project])
    BY <1>3 DEF Gone, NotOf, Grew
  <2>2. ASSUME NEW f \in entries', f.id = id PROVE f.state = "done" /\ f.result # "trusted"
    <3>1. PICK e \in entries : Passed(e, f, moves)
      BY <1>2, <2>2 DEF Evolved
    <3> QED
      BY <1>3, <2>2, <3>1 DEF Gone, Passed
  <2> QED
    BY <2>1, <2>2 DEF Gone
<1>4. Line(id, trustLines) => Line(id, trustLines')
  BY DEF Line, Grew
<1>5. \A d : InPlace(id, d, claims) => InPlace(id, d, claims')
  BY <1>2 DEF InPlace
<1> QED
  BY <1>3, <1>4, <1>5

LEMMA LedgeredOn ==
    ASSUME Grew, Ledgered
    PROVE  Ledgered'
BY DEF Ledgered, Grew, Line

LEMMA InstallingId ==
    ASSUME RunnerInv, NEW id, Installing(id)
    PROVE  id \in Nat /\ id < nextId
BY DEF RunnerInv, RunnerKept, Journaled, ToReport, Started, Installing, KeepsInstall

\* The runner's part of a step that leaves the trees alone.
LEMMA HeldQuiet ==
    ASSUME RunnerInv, RunnerInv', HeldInv, Grew, SameTrees(disk, disk'),
           \A id : Installing(id)' => Installing(id), Marked', Outcome', Scoped'
    PROVE  HeldInv' /\ OldTrust(disk') = OldTrust(disk)
<1>1. disk \in Disks /\ disk' \in Disks
  BY DEF RunnerInv, RunnerKept, RunnerTyped
<1>2. OldTrust(disk') = OldTrust(disk) /\ Whole(disk') /\ LocalTrust(disk') = LocalTrust(disk)
  BY <1>1, HeldByTrees DEF HeldInv
<1>3. ASSUME NEW id, Installing(id)'
      PROVE  InPlace(id, disk', claims') \/ Gone(id, registry'[Project], entries')
  <2>1. Installing(id) /\ id \in Nat /\ id < nextId
    BY <1>3, InstallingId
  <2>2. InPlace(id, disk, claims) \/ Gone(id, registry[Project], entries)
    BY <2>1 DEF HeldInv, Placed
  <2>3. InPlace(id, disk, claims') \/ Gone(id, registry'[Project], entries')
    BY <2>1, <2>2, HeldOn
  <2> QED
    BY <1>2, <2>3 DEF InPlace
<1>4. Placed'
  BY <1>3 DEF Placed, InPlace, Gone, NotOf
<1>5. Ledgered'
  BY LedgeredOn DEF HeldInv
<1> QED
  BY <1>2, <1>4, <1>5 DEF HeldInv

\* The report is as it was.
LEMMA OutcomeOn ==
    ASSUME RunnerInv, HeldInv, Grew, SameTrees(disk, disk'), unreported' = unreported
    PROVE  Outcome'
<1> SUFFICES ASSUME unreported # None, unreported.install PROVE Outcome'
  BY DEF Outcome
<1>1. Installing(unreported.id)
  BY DEF Installing
<1>2. unreported.id \in Nat /\ unreported.id < nextId
  BY <1>1, InstallingId
<1>3. LocalTrust(disk') = LocalTrust(disk)
  BY DEF LocalTrust, SameTrees
<1>4. Outcome
  BY DEF HeldInv
<1>5. \A id : InPlace(id, disk, claims') => InPlace(id, disk', claims')
  BY <1>3 DEF InPlace
<1>6. /\ unreported.stage = "delivered" =>
            Line(unreported.id, trustLines') /\ InPlace(unreported.id, disk', claims')
      /\ unreported.stage = "refused" => Gone(unreported.id, registry'[Project], entries')
  BY <1>2, <1>4, <1>5, HeldOn DEF Outcome
<1> QED
  BY <1>6 DEF Outcome, Line, InPlace, Gone, NotOf

\* A step of a runner with nothing to report, and no install open.
Calm ==
    /\ unreported = None /\ pc # "down" /\ SameTrees(disk, disk')
    /\ unreported' # None => ~unreported'.install
    /\ Scoped'

LEMMA CalmHeld ==
    ASSUME RunnerInv, RunnerInv', HeldInv, Grew, Calm
    PROVE  HeldInv' /\ OldTrust(disk') = OldTrust(disk)
<1>1. disk.marker = None /\ disk'.marker = None
  BY DEF HeldInv, Marked, Calm, SameTrees
<1>2. \A id : ~Installing(id)'
  BY <1>1 DEF Installing, KeepsInstall, Calm
<1>3. Marked' /\ Outcome'
  BY <1>1 DEF Marked, Outcome, Calm
<1> QED
  BY <1>2, <1>3, HeldQuiet DEF Calm

----------------------------------------------------------------------------
(* The steps that leave the trees alone and have no install open.          *)

LEMMA ScopedOn == ASSUME HeldInv, pending' \in {pending, None} PROVE Scoped'
BY DEF HeldInv, Scoped, OfTree

LEMMA PollHeld ==
    ASSUME RunnerInv, RunnerInv', HeldInv, NEW t \in Time, Poll(t)
    PROVE  HeldInv' /\ OldTrust(disk') = OldTrust(disk)
<1> DEFINE started == \E e \in StartedNow : Goes("work") /\ task' = Polled(e) /\ pending' = None
           approved ==
               \E e \in ApprovedNow :
                  /\ Goes(IF pending # None /\ pending.id = e.id THEN "approved" ELSE "orphan")
                  /\ task' = Polled(e)
                  /\ pending' = IF pending # None /\ pending.id = e.id THEN pending ELSE None
           idle == /\ StartedNow \cup ApprovedNow = {}
                   /\ Goes(IF pending = None THEN "step" ELSE "check")
                   /\ UNCHANGED <<task, pending>>
<1>1. pc = "step" /\ unreported = None
  BY DEF Poll
<1>2. Call(TRUE, JobPoll(JobsTicked(JobsAt(gate, t)), Me),
           UNCHANGED <<disk, unreported, terraform>> /\ (started \/ approved \/ idle),
           UNCHANGED runnerVars)
  BY Zenon DEF Poll
<1> HIDE DEF started, approved, idle
<1>3. /\ \/ /\ JobPoll(JobsTicked(JobsAt(gate, t)), Me) /\ UNCHANGED registryPart
            /\ (UNCHANGED ledgerFailed \/ ledgerFailed' = TRUE)
         \/ UNCHANGED <<jobsPart, registryPart, ledgerFailed>>
      /\ \/ UNCHANGED <<disk, unreported, terraform>> /\ (started \/ approved \/ idle)
         \/ UNCHANGED runnerVars
  BY <1>2, Zenon DEF Call, trustVars
<1>4. Grew
  BY <1>3, GrewCall
<1>5. disk' = disk /\ unreported' = None /\ pending' \in {pending, None}
  BY <1>1, <1>3 DEF runnerVars, runnerMemory, started, approved, idle
<1>6. Calm
  BY <1>1, <1>5, ScopedOn, TreesStay DEF Calm
<1> QED
  BY <1>4, <1>6, CalmHeld

LEMMA CheckPendingHeld ==
    ASSUME RunnerInv, RunnerInv', HeldInv, NEW t \in Time, CheckPending(t)
    PROVE  HeldInv' /\ OldTrust(disk') = OldTrust(disk)
<1> DEFINE arrived == /\ ClaimArrived(StateOf(pending.id)) /\ Goes("execute")
                      /\ UNCHANGED <<disk, pending>>
           waits == /\ StateOf(pending.id) \subseteq Active \ {"claimed"}
                    /\ StateOf(pending.id) # {}
                    /\ Goes("step") /\ UNCHANGED <<disk, pending>>
           over == /\ StateOf(pending.id) \subseteq {"done"}
                   /\ Goes("step") /\ pending' = None /\ disk' = Closed(disk, pending.id)
           unsure == Goes("step") /\ UNCHANGED <<disk, task, pending, unreported, terraform>>
<1>1. pc = "check" /\ unreported = None /\ disk \in Disks
  BY DEF CheckPending, RunnerInv, RunnerKept, RunnerTyped
<1>2. Call(FALSE, JobTick(JobsAt(gate, t)),
           UNCHANGED <<task, unreported, terraform>> /\ (arrived \/ waits \/ over), unsure)
  BY Zenon DEF CheckPending
<1> HIDE DEF arrived, waits, over, unsure
<1>3. /\ \/ /\ JobTick(JobsAt(gate, t)) /\ UNCHANGED registryPart
            /\ (UNCHANGED ledgerFailed \/ ledgerFailed' = TRUE)
         \/ UNCHANGED <<jobsPart, registryPart, ledgerFailed>>
      /\ \/ UNCHANGED <<task, unreported, terraform>> /\ (arrived \/ waits \/ over)
         \/ unsure
  BY <1>2, Zenon DEF Call, trustVars
<1>4. Grew
  BY <1>3, GrewCall
<1>5. /\ unreported' = None /\ disk' \in {disk, Closed(disk, pending.id)}
      /\ pending' \in {pending, None}
  BY <1>1, <1>3 DEF arrived, waits, over, unsure
<1>6. Calm
  BY <1>1, <1>5, ScopedOn, TreesStay, ClosedTrees DEF Calm
<1> QED
  BY <1>4, <1>6, CalmHeld

LEMMA PlanEndsHeld ==
    ASSUME RunnerInv, RunnerInv', HeldInv,
           \/ PlanFails
           \/ \E t \in Time : PlanCancelled(t)
           \/ \E t \in Time, result \in {"refused", "plan_failed"} : Refuse(t, result)
    PROVE  HeldInv' /\ OldTrust(disk') = OldTrust(disk)
<1> DEFINE ends == Goes("step") /\ Forgets /\ UNCHANGED <<disk, pending, unreported, terraform>>
           stays == UNCHANGED <<disk, pending, unreported>>
<1>1. unreported = None /\ pc # "down"
  BY DEF PlanFails, PlanCancelled, Refuse, RunnerInv, RunnerKept, RunnerTyped
<1>2. ASSUME PlanFails PROVE Grew /\ stays
  BY <1>2, GrewIdle DEF PlanFails, trustVars
<1>3. ASSUME NEW t \in Time, PlanCancelled(t) PROVE Grew /\ stays
  <2>1. Call(FALSE, JobTick(JobsAt(gate, t)),
             \/ StateOf(task.id) = {"working"} /\ UNCHANGED runnerVars
             \/ StateOf(task.id) # {"working"} /\ ends,
             UNCHANGED runnerVars)
    BY <1>3, Zenon DEF PlanCancelled
  <2> HIDE DEF ends
  <2>2. /\ \/ /\ JobTick(JobsAt(gate, t)) /\ UNCHANGED registryPart
              /\ (UNCHANGED ledgerFailed \/ ledgerFailed' = TRUE)
           \/ UNCHANGED <<jobsPart, registryPart, ledgerFailed>>
        /\ ends \/ UNCHANGED runnerVars
    BY <2>1, Zenon DEF Call, trustVars
  <2> QED
    BY <2>2, GrewCall DEF ends, runnerVars, runnerMemory
<1>4. ASSUME NEW t \in Time, NEW result \in {"refused", "plan_failed"}, Refuse(t, result)
      PROVE  Grew /\ stays
  <2>1. Call(FALSE, JobRefuse(JobsAt(gate, t), Me, task.id, result), ends, ends)
    BY <1>4, Zenon DEF Refuse
  <2> HIDE DEF ends
  <2>2. /\ \/ /\ JobRefuse(JobsAt(gate, t), Me, task.id, result) /\ UNCHANGED registryPart
              /\ (UNCHANGED ledgerFailed \/ ledgerFailed' = TRUE)
           \/ UNCHANGED <<jobsPart, registryPart, ledgerFailed>>
        /\ ends
    BY <2>1, Zenon DEF Call, trustVars
  <2> QED
    BY <2>2, GrewCall DEF ends
<1>5. Grew /\ stays
  BY <1>2, <1>3, <1>4
<1>6. Calm
  BY <1>1, <1>5, ScopedOn, TreesStay DEF Calm
<1> QED
  BY <1>5, <1>6, CalmHeld

LEMMA SubmitHeld ==
    ASSUME RunnerInv, RunnerInv', HeldInv, NEW t \in Time, NEW sc \in Planned, Submit(t, sc)
    PROVE  HeldInv' /\ OldTrust(disk') = OldTrust(disk)
<1> DEFINE waits == /\ pending' = [id |-> task.id, scope |-> sc]
                    /\ Goes("step") /\ Forgets
                    /\ UNCHANGED <<disk, unreported, terraform>>
           refuses == /\ StateOf(task.id) # {"waiting"} /\ Goes("refuse")
                      /\ UNCHANGED <<disk, task, pending, unreported, terraform>>
           answered == \/ StateOf(task.id) = {"waiting"} /\ waits
                       \/ refuses
           submitted == JobSubmit(JobsAt(gate, t), Me, task.id, sc)
<1>1. pc = "work"
  BY DEF Submit
<1>2. Call(TRUE, submitted, answered, waits)
  BY Zenon DEF Submit
<1> HIDE DEF submitted, waits, refuses, answered
<1>3. /\ \/ /\ submitted /\ UNCHANGED registryPart
            /\ (UNCHANGED ledgerFailed \/ ledgerFailed' = TRUE)
         \/ UNCHANGED <<jobsPart, registryPart, ledgerFailed>>
      /\ waits \/ refuses
  BY <1>2, Zenon DEF Call, trustVars, answered
<1>4. pending = None /\ unreported = None
  BY <1>1 DEF RunnerInv, RunnerKept, RunnerTyped
<1>5. sc \in JobScopes /\ (sc.kind = "trust" => sc.schema = SchemaOf[sc.candidate])
  BY DEF Planned, PlannedTrust, PlannedApply, JobScopes, TrustScopes, ApplyScopes
<1>6. Grew
  BY <1>3, <1>5, GrewCall DEF submitted
<1>7. /\ UNCHANGED <<disk, unreported>>
      /\ pending' = None \/ pending' = [id |-> task.id, scope |-> sc]
  BY <1>3, <1>4 DEF waits, refuses
<1>8. Scoped'
  <2>1. sc.kind = "trust" => OfTree(ScopeRevision(sc))
    BY <1>5 DEF OfTree, ScopeRevision
  <2> QED
    BY <1>7, <2>1 DEF Scoped, OfTree
<1>9. Calm
  BY <1>1, <1>4, <1>7, <1>8, TreesStay DEF Calm
<1> QED
  BY <1>6, <1>9, CalmHeld

LEMMA ClaimHeld ==
    ASSUME RunnerInv, RunnerInv', HeldInv, NEW t \in Time, Claim(t) \/ Orphan(t)
    PROVE  HeldInv' /\ OldTrust(disk') = OldTrust(disk)
<1> DEFINE note == Entry(task.id, "claimed", task.kind)
           noted == [disk EXCEPT !.journal = note]
           goes == /\ disk' \in {noted, Closed(noted, task.id)} /\ pending' \in {pending, None}
                   /\ unreported' = unreported \/ Report(task.id, "apply_failed", FALSE, FALSE)
<1>1. /\ pc \in {"approved", "orphan"} /\ unreported = None /\ disk \in Disks
      /\ task.id \in Nat /\ task.kind \in {"trust", "apply"}
  BY DEF Claim, Orphan, RunnerInv, RunnerKept, RunnerTyped, InHand, Started, JobScopes,
         TrustScopes, ApplyScopes
<1>2. /\ \/ /\ JobClaim(JobsAt(gate, t), Me, task.id) /\ UNCHANGED registryPart
            /\ (UNCHANGED ledgerFailed \/ ledgerFailed' = TRUE)
         \/ UNCHANGED <<jobsPart, registryPart, ledgerFailed>>
      /\ goes
  <2> DEFINE answer == /\ Forgets /\ UNCHANGED <<unreported, terraform>>
                       /\ \/ Handed(task.id) /\ Goes("execute") /\ disk' = noted /\ UNCHANGED pending
                          \/ ~Handed(task.id) /\ Goes("step") /\ pending' = None
                             /\ disk' = Closed(noted, task.id)
             orphaned == /\ Goes("step") /\ Forgets /\ UNCHANGED <<pending, terraform>>
                         /\ \/ /\ Handed(task.id) /\ disk' = noted
                               /\ Report(task.id, "apply_failed", FALSE, FALSE)
                            \/ /\ ~Handed(task.id) /\ disk' = Closed(noted, task.id)
                               /\ UNCHANGED unreported
             unsure == /\ Goes("step") /\ Forgets /\ disk' = noted
                       /\ UNCHANGED <<pending, unreported, terraform>>
  <2>1. \/ Call(TRUE, JobClaim(JobsAt(gate, t), Me, task.id), answer, unsure)
        \/ Call(TRUE, JobClaim(JobsAt(gate, t), Me, task.id), orphaned, unsure)
    BY Zenon DEF Claim, Orphan
  <2>2. (answer => goes) /\ (orphaned => goes) /\ (unsure => goes)
    OBVIOUS
  <2> HIDE DEF answer, orphaned, unsure, goes
  <2> QED
    BY <2>1, <2>2, Zenon DEF Call, trustVars
<1>3. Grew
  BY <1>1, <1>2, GrewCall
<1>4. note \in JournalEntries
  BY <1>1 DEF Entry, JournalEntries
<1> HIDE DEF note
<1>5. noted \in Disks /\ SameTrees(disk, noted)
  BY <1>1, <1>4, NotedTrees
<1> HIDE DEF noted
<1>6. SameTrees(disk, Closed(noted, task.id))
  BY <1>5, ClosedTrees DEF SameTrees
<1>7. unreported' # None => ~unreported'.install
  BY <1>1, <1>2 DEF Report
<1>8. Calm
  BY <1>1, <1>2, <1>5, <1>6, <1>7, ScopedOn DEF Calm
<1> QED
  BY <1>3, <1>8, CalmHeld

LEMMA ClaimUnjournaledHeld ==
    ASSUME RunnerInv, RunnerInv', HeldInv, ClaimUnjournaled
    PROVE  HeldInv' /\ OldTrust(disk') = OldTrust(disk)
<1>1. /\ pc \in {"approved", "orphan"} /\ pending' = None
      /\ UNCHANGED <<jobsPart, registryPart, ledgerFailed, disk, unreported>>
  BY DEF ClaimUnjournaled
<1>2. unreported = None
  BY <1>1 DEF RunnerInv, RunnerKept, RunnerTyped
<1>3. Grew
  BY <1>1, GrewIdle
<1>4. Calm
  BY <1>1, <1>2, ScopedOn, TreesStay DEF Calm
<1> QED
  BY <1>3, <1>4, CalmHeld

LEMMA ApplyHeld ==
    ASSUME RunnerInv, RunnerInv', HeldInv,
           \/ ApplyRefused
           \/ \E outcome \in ApplyOutcomes : ApplyPlan(outcome) \/ ApplyDies(outcome)
    PROVE  HeldInv' /\ OldTrust(disk') = OldTrust(disk)
<1>1. /\ pc = "execute" /\ pending' = None
      /\ UNCHANGED <<jobsPart, registryPart, ledgerFailed>>
  BY DEF ApplyRefused, ApplyPlan, ApplyDies, Executes, Ends, Down
<1>2. unreported = None /\ disk \in Disks /\ pending.id \in Nat
  BY <1>1 DEF RunnerInv, RunnerKept, RunnerTyped
<1> DEFINE goal == SameTrees(disk, disk') /\ (unreported' # None => ~unreported'.install)
<1>3. ASSUME ApplyRefused PROVE goal
  <2>1. /\ disk' \in {disk, Doubted(disk)}
        /\ unreported' = [id |-> pending.id, result |-> "apply_failed", install |-> FALSE,
                          journaled |-> FALSE, stage |-> "finish"]
    BY <1>3 DEF ApplyRefused, Ends, Report
  <2> QED
    BY <1>2, <2>1 DEF Doubted, SameTrees, Disks
<1>4. ASSUME NEW outcome \in ApplyOutcomes, ApplyPlan(outcome) \/ ApplyDies(outcome) PROVE goal
  <2> DEFINE result == ResultOf(outcome)
             done == Reporting(Applying(disk), pending.id, result)
             last == IF outcome = "ok" THEN [done EXCEPT !.applied = "applied"] ELSE done
             lost == [done EXCEPT !.applied = IF outcome = "ok" THEN "applied" ELSE @]
             unsaid == [last EXCEPT !.journal = Applying(disk).journal]
  <2>1. /\ SameTrees(disk, Doubted(disk)) /\ SameTrees(disk, Applying(disk)) /\ SameTrees(disk, done)
        /\ SameTrees(disk, last) /\ SameTrees(disk, lost)
    BY <1>2, <1>4, ApplyTrees, Zenon
  <2>2. done \in Disks /\ [done EXCEPT !.applied = "applied"] \in Disks
    BY <1>2, <1>4, ApplyDisks
  <2>3. last \in Disks
    BY <2>2
  <2> HIDE DEF last
  <2>4. SameTrees(disk, unsaid)
    BY <1>2, <1>4, <2>1, <2>3, ApplyTrees, Zenon
  <2>5. CASE ApplyPlan(outcome)
    <3>1. \/ Ends(last, Begun(outcome), result, FALSE, TRUE)
          \/ Ends(done, Begun(outcome), result, FALSE, TRUE)
          \/ Ends(unsaid, Begun(outcome), result, FALSE, FALSE)
      BY <2>5, Zenon DEF ApplyPlan, last
    <3> HIDE DEF done, unsaid, result
    <3>2. ~unreported'.install /\ disk' \in {last, done, unsaid}
      BY <3>1 DEF Ends, Report
    <3> QED
      BY <2>1, <2>4, <3>2
  <2>6. CASE ApplyDies(outcome)
    <3>1. unreported' = None /\ disk' \in {Doubted(disk), Applying(disk), done, lost}
      BY <2>6, Zenon DEF ApplyDies, Down
    <3> HIDE DEF done, lost
    <3> QED
      BY <2>1, <3>1
  <2> QED
    BY <1>4, <2>5, <2>6
<1> HIDE DEF goal
<1>5. goal
  BY <1>3, <1>4
<1>6. Grew
  BY <1>1, GrewIdle
<1>7. Calm
  BY <1>1, <1>2, <1>5, ScopedOn DEF Calm, goal
<1> QED
  BY <1>6, <1>7, CalmHeld

----------------------------------------------------------------------------
(* A crash, and the steps of the report.                                   *)

LEMMA CrashHeld ==
    ASSUME RunnerInv, RunnerInv', HeldInv, Crash
    PROVE  HeldInv' /\ OldTrust(disk') = OldTrust(disk)
<1>1. /\ UNCHANGED <<jobsPart, registryPart, ledgerFailed>> /\ disk' = disk
      /\ pc' = "down" /\ pending' = None /\ unreported' = None
  BY DEF Crash, Down
<1>2. Grew /\ Marked' /\ Outcome' /\ Scoped'
  BY <1>1, GrewIdle DEF Marked, Outcome, Scoped
<1>3. \A id : Installing(id)' => Installing(id)
  BY <1>1 DEF Installing
<1> QED
  BY <1>1, <1>2, <1>3, TreesStay, HeldQuiet

LEMMA JournalReportHeld ==
    ASSUME RunnerInv, RunnerInv', SidesInv, HeldInv, JournalReport
    PROVE  HeldInv' /\ OldTrust(disk') = OldTrust(disk)
<1> DEFINE note == Entry(unreported.id, "reporting", unreported.result)
<1>1. /\ pc = "step" /\ pc' = pc /\ unreported # None /\ ~unreported.journaled
      /\ unreported' = [unreported EXCEPT !.journaled = TRUE]
      /\ disk' = [disk EXCEPT !.journal = note]
      /\ UNCHANGED <<jobsPart, registryPart, ledgerFailed, pending>>
  BY DEF JournalReport, Reporting, trustVars
<1>2. disk \in Disks /\ unreported \in Reports
  BY <1>1 DEF RunnerInv, RunnerKept, RunnerTyped
<1>3. /\ unreported' # None /\ unreported'.id = unreported.id
      /\ unreported'.result = unreported.result
      /\ unreported'.install = unreported.install /\ unreported'.stage = unreported.stage
  <2>1. unreported' \in Reports
    BY <1>1, <1>2 DEF Reports
  <2> QED
    BY <1>1, <1>2, <2>1, RunnerAssumption DEF Reports
<1>4. /\ note \in JournalEntries /\ note.job = unreported.id /\ note.what = unreported.result
  BY <1>2 DEF Reports, Said, Entry, JournalEntries
<1> HIDE DEF note
<1>5. SameTrees(disk, disk') /\ disk'.journal = note
  BY <1>1, <1>2, <1>4, NotedTrees
<1>6. /\ unreported.stage = "finish"
      /\ unreported.install <=> unreported.result = "trusted" /\ disk.marker # None
  BY <1>1 DEF SidesInv, Sides, Opened
<1>7. \A id : Installing(id)' => Installing(id)
  BY <1>1, <1>3, <1>4, <1>5, <1>6 DEF Installing, KeepsInstall, SameTrees
<1>8. Marked'
  BY <1>1, <1>3, <1>5 DEF HeldInv, Marked, SameTrees
<1>9. Outcome'
  BY <1>3, <1>6 DEF Outcome
<1>10. Grew /\ Scoped'
  BY <1>1, GrewIdle, ScopedOn
<1> QED
  BY <1>5, <1>7, <1>8, <1>9, <1>10, HeldQuiet

\* The report moves on, to what the answer shows.
LEMMA HeldStaged ==
    ASSUME RunnerInv, RunnerInv', SidesInv, HeldInv, Grew,
           pc = "step", unreported # None, unreported.journaled, DeliverKeeps,
           \/ unreported' = unreported
           \/ \E s \in {"finish", "status", "unknown", "delivered", "refused"} : Stage(s),
           unreported.install =>
               /\ unreported'.stage = "delivered" =>
                     Line(unreported.id, trustLines') /\ InPlace(unreported.id, disk, claims')
               /\ unreported'.stage = "refused" =>
                     Gone(unreported.id, registry'[Project], entries')
    PROVE  HeldInv' /\ OldTrust(disk') = OldTrust(disk)
<1>1. /\ unreported' # None /\ unreported'.id = unreported.id
      /\ unreported'.result = unreported.result /\ unreported'.install = unreported.install
      /\ disk' = disk /\ pending' = None /\ pc' = "step"
  BY MovesOn
<1>2. \A id : Installing(id)' => Installing(id)
  BY <1>1 DEF Installing
<1>3. Marked' /\ Scoped'
  BY <1>1 DEF HeldInv, Marked, Scoped
<1>4. Outcome'
  BY <1>1 DEF Outcome, Line, InPlace, Gone, NotOf
<1> QED
  BY <1>1, <1>2, <1>3, <1>4, TreesStay, HeldQuiet

LEMMA SendUnknownHeld ==
    ASSUME RunnerInv, RunnerInv', SidesInv, HeldInv, NEW t \in Time, SendUnknown(t)
    PROVE  HeldInv' /\ OldTrust(disk') = OldTrust(disk)
<1>1. /\ pc = "step" /\ unreported # None /\ unreported.journaled /\ DeliverKeeps
      /\ unreported.stage = "unknown"
  BY DEF SendUnknown, Delivers
<1>2. Call(FALSE, FinishOther(t, unreported.id, "outcome_unknown"),
           Stage("delivered"), Stage("finish"))
  BY Zenon DEF SendUnknown
<1>3. /\ Stage("delivered") \/ Stage("finish")
      /\ \/ /\ FinishOther(t, unreported.id, "outcome_unknown") /\ UNCHANGED registryPart
            /\ (UNCHANGED ledgerFailed \/ ledgerFailed' = TRUE)
         \/ UNCHANGED <<jobsPart, registryPart, ledgerFailed>>
  BY <1>2, Zenon DEF Call, trustVars
<1>4. Grew
  BY <1>1, <1>3, GrewCall
<1>5. ~unreported.install
  <2>1. ~KeepsInstall(disk)
    BY <1>1 DEF SidesInv, Sides, Pledged, Judged
  <2>2. KeepsInstall(disk) <=> unreported.result = "trusted" /\ disk.marker # None
    BY <1>1, ReportedInstall
  <2> QED
    BY <1>1, <2>1, <2>2 DEF SidesInv, Sides, Opened
<1> QED
  BY <1>1, <1>3, <1>4, <1>5, HeldStaged

\* What the open install comes to is known once the daemon has it in its
\* ledger: it is in place.
LEMMA RecordedInPlace ==
    ASSUME RunnerInv, HeldInv, Grew, unreported # None, unreported.install,
           ~Gone(unreported.id, registry'[Project], entries')
    PROVE  InPlace(unreported.id, disk, claims')
<1>1. Installing(unreported.id)
  BY DEF Installing
<1>2. unreported.id \in Nat /\ unreported.id < nextId
  BY <1>1, InstallingId
<1>3. InPlace(unreported.id, disk, claims) \/ Gone(unreported.id, registry[Project], entries)
  BY <1>1 DEF HeldInv, Placed
<1> QED
  BY <1>2, <1>3, HeldOn

LEMMA AskStatusHeld ==
    ASSUME RunnerInv, RunnerInv', SidesInv, SidesInv', HeldInv, NEW t \in Time, AskStatus(t)
    PROVE  HeldInv' /\ OldTrust(disk') = OldTrust(disk)
<1> DEFINE id == unreported.id
           known == {e \in entries' : e.id = id}
           stage == StatusSays(known)
<1>1. /\ pc = "step" /\ unreported # None /\ unreported.journaled /\ DeliverKeeps
      /\ unreported.stage = "status"
  BY DEF AskStatus, Delivers
<1>2. Call(FALSE, JobTick(JobsAt(gate, t)), Stage(stage), Stage("finish"))
  BY Zenon DEF AskStatus
<1>3. stage \in {"delivered", "unknown", "refused"}
  BY DEF StatusSays
<1>4. /\ Stage(stage) \/ Stage("finish")
      /\ \/ /\ JobTick(JobsAt(gate, t)) /\ UNCHANGED registryPart
            /\ (UNCHANGED ledgerFailed \/ ledgerFailed' = TRUE)
         \/ UNCHANGED <<jobsPart, registryPart, ledgerFailed>>
  <2> HIDE DEF stage
  <2> QED
    BY <1>2, Zenon DEF Call, trustVars
<1>5. Grew
  BY <1>4, GrewCall
<1>6. unreported'.stage \in {stage, "finish"} /\ (unreported'.stage # "finish" => Stage(stage))
  <2>1. unreported \in Reports
    BY <1>1, ReportedInstall
  <2> HIDE DEF stage
  <2> QED
    BY <1>4, <2>1 DEF Stage, Reports
<1>7. \E s \in {"finish", "status", "unknown", "delivered", "refused"} : Stage(s)
  BY <1>3, <1>4
<1>8. ASSUME unreported.install, unreported'.stage \in {"delivered", "refused"}
      PROVE  /\ unreported'.stage = "delivered" =>
                   Line(id, trustLines') /\ InPlace(id, disk, claims')
             /\ unreported'.stage = "refused" => Gone(id, registry'[Project], entries')
  <2>1. /\ unreported' # None /\ unreported'.id = id /\ disk' = disk
        /\ stage = unreported'.stage
    BY <1>1, <1>6, <1>7, <1>8, MovesOn
  <2> HIDE DEF stage
  <2>2. KeepsInstall(disk) /\ unreported.result = "trusted"
    BY <1>1, <1>8, ReportedInstall DEF SidesInv, Sides, Opened
  <2>3. Judged(unreported'.stage, id, registry'[Project], entries', claims')
    BY <2>1, <2>2 DEF SidesInv, Sides, Pledged
  <2>4. Over(id, entries', claims')
    BY <1>8, <2>3 DEF Judged
  <2>5. /\ Good(Held', nextId', claims') /\ Held'.entries = entries' /\ Held'.events = jobEvents'
    BY DEF RunnerInv, TrustInv, JobsKept, JobsInv, Held
  <2>6. \A e \in entries' : e.id = id => e.state = "done"
    <3> SUFFICES ASSUME NEW e \in entries', e.id = id PROVE e.state = "done"
      OBVIOUS
    <3>1. HandedOut(Held', nextId', claims')
      BY <2>5 DEF Good
    <3>2. e.state \in Active \cup {"done"}
      BY GoodParts DEF RunnerInv, TrustInv, JobsKept, JobsInv, Held
    <3> QED
      BY <2>4, <2>5, <3>1, <3>2 DEF HandedOut, Over, Taken, Active
  <2>7. ASSUME stage = "refused" PROVE Gone(id, registry'[Project], entries')
    <3>1. NotOf(id, registry'[Project])
      BY <2>1, <2>3, <2>7 DEF Judged
    <3>2. \A e \in entries' : e.id = id => e.result # "trusted"
      BY <2>2, <2>7 DEF StatusSays, stage
    <3> QED
      BY <2>6, <3>1, <3>2 DEF Gone
  <2>8. ASSUME stage = "delivered" PROVE Line(id, trustLines') /\ InPlace(id, disk, claims')
    <3>1. PICK e \in entries' : e.id = id /\ e.result = "trusted"
      BY <2>2, <2>8 DEF StatusSays, stage
    <3>2. e.state = "done"
      BY <2>6, <3>1
    <3>3. Recorded(id, jobEvents')
      BY <2>5, <3>1, <3>2, EndedIsRecorded
    <3>4. Ledgered'
      BY <1>5, LedgeredOn DEF HeldInv
    <3>5. Line(id, trustLines')
      BY <3>3, <3>4 DEF Ledgered, Recorded, Line
    <3>6. ~Gone(id, registry'[Project], entries')
      BY <3>1 DEF Gone
    <3> QED
      BY <1>1, <1>5, <1>8, <3>5, <3>6, RecordedInPlace
  <2> QED
    BY <2>1, <2>7, <2>8
<1> HIDE DEF stage, id
<1>9. unreported.install =>
           /\ unreported'.stage = "delivered" =>
                 Line(id, trustLines') /\ InPlace(id, disk, claims')
           /\ unreported'.stage = "refused" => Gone(id, registry'[Project], entries')
  BY <1>8
<1> QED
  BY <1>1, <1>5, <1>7, <1>9, HeldStaged DEF id

LEMMA FinishTrustedHeld ==
    ASSUME RunnerInv, RunnerInv', SidesInv, HeldInv, NEW t \in Time,
           Delivers("finish"), DeliverKeeps,
           FinishTrusted(t, Project, unreported.id,
                         Stage("delivered"), Stage("status"), UNCHANGED unreported)
    PROVE  HeldInv' /\ OldTrust(disk') = OldTrust(disk)
<1> DEFINE p == Project
           id == unreported.id
           j == JobsAt(gate, t)
           claimed == {e \in ClaimedTrust(id) : e.project = p}
           line == TrustLine("trusted", p, id)
           still == UNCHANGED ledgerFailed \/ ledgerFailed' = TRUE
           with(e) == [registry EXCEPT ![p] = RecordOf(e)]
           said(s) == UNCHANGED unreported \/ Stage(s)
           goal == HeldInv' /\ OldTrust(disk') = OldTrust(disk)
<1>p. /\ p \in Projects /\ JobsKept /\ TrustInv /\ RegistryKept
      /\ registry \in [Projects -> TrustRecords \cup {None}]
      /\ UNCHANGED registryPart => trusted' \in [Projects -> Revisions \cup {None}]
  BY RunnerAssumption DEF RunnerInv, TrustInv, RegistryKept, registryPart, JobsKept, JobsInv
<1>0. /\ pc = "step" /\ unreported # None /\ unreported.journaled /\ unreported.stage = "finish"
      /\ unreported \in Reports
  BY ReportedInstall DEF Delivers
<1>s. /\ \A s : Stage(s) => unreported'.stage = s
      /\ UNCHANGED unreported => unreported'.stage = "finish"
  BY <1>0 DEF Stage, Reports
<1>t. line.kind = "trusted" /\ line.job = id
  BY DEF TrustLine
<1>1. ASSUME Grew, said("status") PROVE goal
  <2>1. unreported'.stage \in {"finish", "status"}
    BY <1>1, <1>s
  <2> QED
    BY <1>0, <1>1, <2>1, HeldStaged
<1>2. ASSUME Grew, said("delivered"), Line(id, trustLines'), ~Gone(id, registry'[Project], entries')
      PROVE  goal
  <2>1. unreported'.stage \in {"finish", "delivered"}
    BY <1>2, <1>s
  <2>2. unreported.install => InPlace(unreported.id, disk, claims')
    BY <1>0, <1>2, RecordedInPlace
  <2> QED
    BY <1>0, <1>2, <2>1, <2>2, HeldStaged
\* The daemon leaves the registry as it is, and says of no job that it is trusted.
<1>3. ASSUME JobsWent({}), Muted(jobEvents, jobEvents'), UNCHANGED registryPart, still
      PROVE  Grew
  <2>1. {} \in SUBSET Moves /\ \A l \in jobEvents' : l \in jobEvents \/ l.kind # "trusted"
    BY <1>3 DEF Muted, Reported
  <2>2. DaemonWent({}) /\ trustLines' = trustLines
    BY <1>3, <2>1, DaemonQuiet DEF registryPart
  <2> QED
    BY <2>2, GrewQuiet
<1>4. ASSUME Leaves(j), UNCHANGED <<nextId, claims, registryPart>>, still
      PROVE  Grew
  BY <1>p, <1>3, <1>4, JobsLeft
<1>5. ASSUME NEW e \in claimed
      PROVE  e \in entries /\ e.state = "claimed" /\ e.id = id /\ e.project = p
             /\ RecordOf(e) \in TrustRecords /\ RecordOf(e).job = e.id
             /\ with(e) \in [Projects -> TrustRecords \cup {None}]
  BY <1>p, ClaimedRecord
<1>6. ASSUME NEW e \in claimed, Leaves(Ended(j, e, "refused", "refused")),
             UNCHANGED <<nextId, claims, registryPart>>, still
      PROVE  Grew
  BY <1>p, <1>3, <1>5, <1>6, ClaimedEnds
\* Or it writes the record, or what was there.
<1>7. ASSUME NEW e \in claimed, JobsWent({}), trustLines \subseteq trustLines',
             registry' \in {with(e), registry, [registry EXCEPT ![p] = None]},
             \A l \in jobEvents' : l \in jobEvents \/ l.kind # "trusted" \/ Line(l.id, trustLines')
      PROVE  Grew
  <2>1. registry'[Project] \in {registry[Project], None, RecordOf(e)}
    BY <1>p, <1>7
  <2>2. {} \in SUBSET Moves
    OBVIOUS
  <2> HIDE DEF with, claimed
  <2> QED
    BY <1>5, <1>7, <2>1, <2>2 DEF Grew
<1>8. ASSUME NEW e \in claimed, said("delivered"),
             Leaves(Ended(j, e, "trusted", "trusted")), Registers(with(e)),
             UNCHANGED <<nextId, claims>>, trustLines' = trustLines \cup {line}
      PROVE  goal
  <2>1. registry' = with(e) /\ trusted' \in [Projects -> Revisions \cup {None}]
    BY <1>5, <1>8, RegistersTyped
  <2>2. JobsWent({}) /\ OnlyTrusted(id)
    BY <1>p, <1>5, <1>8, <2>1, ClaimedEnds
  <2>3. Line(id, trustLines')
    BY <1>8, <1>t DEF Line
  <2>4. \A l \in jobEvents' : l \in jobEvents \/ l.kind # "trusted" \/ Line(l.id, trustLines')
    BY <2>2, <2>3 DEF OnlyTrusted, Reported
  <2>5. \E f \in entries' : f.id = id /\ f.result = "trusted"
    <3> DEFINE f == Settled(e, "trusted", JobsAt(gate, t).now)
    <3>1. f \in entries'
      BY <1>p, <1>5, <1>8, <2>1, ClaimedEnds
    <3>2. e \in Entries
      BY <1>p, <1>5, GoodParts DEF JobsKept, JobsInv, Held
    <3>3. f.id = e.id /\ f.result = "trusted"
      BY <3>2 DEF Settled, Entries
    <3> QED
      BY <1>5, <3>1, <3>3
  <2>6. ~Gone(id, registry'[Project], entries')
    BY <2>5 DEF Gone
  <2> HIDE DEF with, claimed, line, goal, said
  <2>7. Grew
    BY <1>7, <1>8, <2>1, <2>2, <2>4
  <2> QED
    BY <1>2, <1>8, <2>3, <2>6, <2>7
<1>9. ASSUME NEW e \in claimed, UNCHANGED unreported, UNCHANGED <<nextId, claims>>,
             Reopened(j), UndoTrust(e), trustLines' \in {trustLines, trustLines \cup {line}}
      PROVE  goal
  <2>1. PICK records \in {with(e), registry, [registry EXCEPT ![p] = None]} :
           registry' = records /\ trusted' \in [Projects -> Revisions \cup {None}]
    <3>1. [registry EXCEPT ![p] = None] \in [Projects -> TrustRecords \cup {None}]
      BY <1>p
    <3>2. \/ UNCHANGED <<registry, trusted>> \/ Registers(with(e))
          \/ Registers([registry EXCEPT ![p] = None])
      BY <1>5, <1>9, Zenon DEF UndoTrust
    <3>3. UNCHANGED <<registry, trusted>> => Registers(registry)
      BY DEF Registers, TrustedNow, RunnerInv, TrustInv, RegistryKept
    <3>4. \E records \in {with(e), registry, [registry EXCEPT ![p] = None]} :
             records \in [Projects -> TrustRecords \cup {None}] /\ Registers(records)
      BY <1>p, <1>5, <3>1, <3>2, <3>3
    <3> HIDE DEF with
    <3> QED
      BY <3>4, RegistersTyped
  <2>2. JobsWent({}) /\ Muted(jobEvents, jobEvents')
    BY <1>p, <1>9, <2>1, JobsLeft DEF Reopened
  <2>3. trustLines \subseteq trustLines' /\ said("status")
    BY <1>9
  <2>4. \A l \in jobEvents' : l \in jobEvents \/ l.kind # "trusted" \/ Line(l.id, trustLines')
    BY <2>2 DEF Muted, Reported
  <2> HIDE DEF with, claimed, line, goal, said
  <2> QED
    BY <1>1, <1>7, <2>1, <2>2, <2>3, <2>4
<1>10. ASSUME NEW e \in claimed, UNCHANGED unreported, Forgotten, Registers(with(e)),
              trustLines' \in {trustLines, trustLines \cup {line}}
       PROVE  goal
  <2>1. registry' = with(e) /\ trusted' \in [Projects -> Revisions \cup {None}]
    BY <1>5, <1>10, RegistersTyped
  <2>2. JobsWent({}) /\ Muted(jobEvents, jobEvents')
    BY <1>p, <1>10, <2>1, ForgottenWent
  <2>3. trustLines \subseteq trustLines' /\ said("status")
    BY <1>10
  <2>4. \A l \in jobEvents' : l \in jobEvents \/ l.kind # "trusted" \/ Line(l.id, trustLines')
    BY <2>2 DEF Muted, Reported
  <2> HIDE DEF with, claimed, line, goal, said
  <2> QED
    BY <1>1, <1>7, <2>1, <2>2, <2>3, <2>4
<1>11. ASSUME Serves(TRUE), AlreadyTrusted(p, id), Leaves(j),
              UNCHANGED <<nextId, claims, registryPart>>, still, said("delivered")
       PROVE  goal
  <2>1. Grew
    BY <1>4, <1>11
  <2>2. registry' = registry /\ trustLines' = trustLines
    BY <1>11 DEF registryPart
  <2>3. registry[p] # None /\ registry[p].job = id
    BY <1>11 DEF AlreadyTrusted
  <2>4. TrustLine("trusted", p, id) \in trustLines
    BY <1>p, <1>11, <2>3 DEF Serves, RegistryKept, RecordsAreAudited
  <2>5. Line(id, trustLines')
    BY <1>t, <2>2, <2>4 DEF Line
  <2>6. ~Gone(id, registry'[Project], entries')
    BY <2>2, <2>3 DEF Gone, NotOf
  <2> HIDE DEF goal, said
  <2> QED
    BY <1>2, <1>11, <2>1, <2>5, <2>6
<1>12. ASSUME UNCHANGED unreported,
              UNCHANGED trustVars \/ UNCHANGED <<jobsPart, registryPart, ledgerFailed>>
       PROVE  goal
  <2>1. Grew
    BY <1>12, GrewIdle DEF trustVars
  <2> HIDE DEF goal
  <2> QED
    BY <1>1, <1>12, <2>1
<1> DEFINE fin == FinishTrusted(t, p, id, Stage("delivered"), Stage("status"), UNCHANGED unreported)
<1>13. \/ UNCHANGED unreported /\ UNCHANGED trustVars
       \/ /\ Serves(TRUE) /\ AlreadyTrusted(p, id) /\ Leaves(j)
          /\ UNCHANGED <<nextId, claims, registryPart>> /\ still /\ said("delivered")
       \/ /\ Leaves(j) /\ UNCHANGED <<nextId, claims, registryPart>> /\ still /\ said("status")
       \/ UNCHANGED unreported /\ UNCHANGED <<jobsPart, registryPart, ledgerFailed>>
       \/ \E e \in claimed :
             \/ /\ Leaves(Ended(j, e, "refused", "refused"))
                /\ UNCHANGED <<nextId, claims, registryPart>> /\ still /\ said("status")
             \/ /\ Leaves(Ended(j, e, "trusted", "trusted")) /\ Registers(with(e))
                /\ UNCHANGED <<nextId, claims>> /\ said("delivered")
                /\ trustLines' = trustLines \cup {line}
             \/ /\ Reopened(j) /\ UndoTrust(e) /\ UNCHANGED unreported
                /\ UNCHANGED <<nextId, claims>>
                /\ trustLines' \in {trustLines, trustLines \cup {line}}
             \/ /\ Forgotten /\ Registers(with(e)) /\ UNCHANGED unreported
                /\ trustLines' \in {trustLines, trustLines \cup {line}}
  <2> HIDE DEF p, id, fin
  <2>1. fin
    BY DEF fin, p, id
  <2> HIDE DEF j, with, claimed, line
  <2> QED
    BY <2>1, Zenon DEF fin, FinishTrusted, j, with, claimed, line
<1> HIDE DEF j, said, with, claimed, still, line, goal
<1>14. goal
  BY <1>1, <1>4, <1>6, <1>8, <1>9, <1>10, <1>11, <1>12, <1>13
<1> QED
  BY <1>14 DEF goal

LEMMA SendFinishHeld ==
    ASSUME RunnerInv, RunnerInv', SidesInv, HeldInv, NEW t \in Time, SendFinish(t)
    PROVE  HeldInv' /\ OldTrust(disk') = OldTrust(disk)
<1>1. Delivers("finish") /\ DeliverKeeps
  BY DEF SendFinish
<1>2. CASE unreported.result = "trusted"
  <2>1. FinishTrusted(t, Project, unreported.id,
            Stage("delivered"), Stage("status"), UNCHANGED unreported)
    BY <1>2, Zenon DEF SendFinish
  <2> QED
    BY <1>1, <2>1, FinishTrustedHeld
<1>3. CASE unreported.result # "trusted"
  <2>1. Call(FALSE, FinishOther(t, unreported.id, unreported.result),
             IF EndsJob(unreported.id) THEN Stage("delivered") ELSE Stage("status"),
             UNCHANGED unreported)
    BY <1>3, Zenon DEF SendFinish
  <2>2. /\ (IF EndsJob(unreported.id) THEN Stage("delivered") ELSE Stage("status"))
           \/ UNCHANGED unreported
        /\ \/ /\ FinishOther(t, unreported.id, unreported.result)
              /\ UNCHANGED registryPart /\ (UNCHANGED ledgerFailed \/ ledgerFailed' = TRUE)
           \/ UNCHANGED <<jobsPart, registryPart, ledgerFailed>>
    BY <2>1, Zenon DEF Call, trustVars
  <2>3. /\ pc = "step" /\ unreported # None /\ unreported.journaled
        /\ unreported.result \in {"applied", "apply_failed", "outcome_unknown"}
    BY <1>1, <1>3, ReportedInstall DEF Delivers, Reports, Said
  <2>4. Grew
    BY <2>2, <2>3, GrewCall
  <2>5. UNCHANGED unreported \/ Stage("delivered") \/ Stage("status")
    BY <2>2, Zenon
  <2>6. ~unreported.install
    BY <1>3, <2>3 DEF SidesInv, Sides, Opened
  <2> QED
    BY <1>1, <2>3, <2>4, <2>5, <2>6, HeldStaged
<1> QED
  BY <1>2, <1>3

----------------------------------------------------------------------------
(* The steps that write the trees.                                         *)

\* The trust held is as before, or gone, or one that the ledger has.
Followed(d) ==
    OldTrust(d) # OldTrust(disk) /\ OldTrust(d) # None =>
        \E l \in trustLines, c \in claims :
            l.kind = "trusted" /\ c.id = l.job /\ OldTrust(d) = ScopeRevision(c.scope)

\* No install is left open.
LEMMA HeldRewritten ==
    ASSUME HeldInv, Grew, Whole(disk'), disk'.marker = None \/ pc' = "down", ~KeepsInstall(disk'),
           unreported' # None => ~unreported'.install, pending' = None
    PROVE  HeldInv'
<1>1. \A id : ~Installing(id)'
  BY DEF Installing
<1>2. Placed' /\ Marked' /\ Outcome' /\ Scoped'
  BY <1>1 DEF Placed, Marked, Outcome, Scoped
<1> QED
  BY <1>2, LedgeredOn DEF HeldInv

\* What is installed was signed for, and each write of the install leaves the
\* old trust to go back to.
LEMMA InstallStarts ==
    ASSUME RunnerInv, SidesInv, HeldInv, Executes("trust")
    PROVE  /\ unreported = None /\ disk \in Holding(OldTrust(disk)) /\ disk.marker = None
           /\ InstallRecord \in Revisions /\ ~SaysTrusted(disk.journal)
           /\ Install(disk, InstallRecord) \in Path(Holding(OldTrust(disk)))
           /\ Install(disk, InstallRecord) \in Writes(disk)
           /\ \A d : LocalTrust(d) = InstallRecord => InPlace(pending.id, d, claims)
<1>1. pc = "execute" /\ pending.scope.kind = "trust"
  BY DEF Executes
<1>2. /\ unreported = None /\ disk \in Disks /\ InstallRecord \in Revisions
      /\ ~SaysTrusted(disk.journal)
  BY ToInstall
<1>3. disk \in Holding(OldTrust(disk)) /\ disk.marker = None
  BY <1>1, <1>2 DEF HeldInv, Marked, Holding
<1>4. pending # None /\ InstallRecord = ScopeRevision(pending.scope)
  BY <1>1 DEF RunnerInv, RunnerKept, RunnerTyped, InstallRecord, ScopeRevision
<1>5. OfTree(InstallRecord)
  BY <1>1, <1>4 DEF HeldInv, Scoped
<1>6. PICK c \in claims : c.id = pending.id
  BY <1>1 DEF RunnerInv, RunnerKept, InHand
<1>7. c.scope = pending.scope
  BY <1>4, <1>6 DEF RunnerInv, RunnerKept, InHand, Waits
<1>8. \A d : LocalTrust(d) = InstallRecord => InPlace(pending.id, d, claims)
  BY <1>1, <1>4, <1>6, <1>7 DEF InPlace
<1>9. Install(disk, InstallRecord) \in Path(Holding(OldTrust(disk)))
  BY <1>2, <1>3, <1>5, InstallHolds
<1>10. Install(disk, InstallRecord) \in Writes(disk)
  BY <1>2, InstallWrites
<1> QED
  BY <1>2, <1>3, <1>8, <1>9, <1>10

LEMMA InstallHeld ==
    ASSUME ~UndoMayFail, RunnerInv, RunnerInv', SidesInv, HeldInv, InstallTrust
    PROVE  HeldInv' /\ OldTrust(disk') = OldTrust(disk)
<1> DEFINE s == Install(disk, InstallRecord)
           n == Len(Cleared(disk))
           h == OldTrust(disk)
<1>1. /\ Executes("trust") /\ pc' = "step" /\ pending' = None
      /\ UNCHANGED <<jobsPart, registryPart, ledgerFailed>>
  BY DEF InstallTrust, Ends, Goes
<1>2. Grew
  BY <1>1, GrewIdle
<1>3. /\ unreported = None /\ disk \in Holding(h) /\ disk.marker = None
      /\ InstallRecord \in Revisions /\ ~SaysTrusted(disk.journal)
      /\ s \in Path(Holding(h)) /\ s \in Writes(disk)
      /\ \A d : LocalTrust(d) = InstallRecord => InPlace(pending.id, d, claims)
  BY <1>1, InstallStarts
<1>4. Last(s).marker # None /\ LocalTrust(Last(s)) = InstallRecord
  BY <1>3, InstallEnds DEF Holding
<1>5. n \in Nat /\ n > 0
  BY <1>3, ClearedWrites DEF Writes, Holding
<1> HIDE DEF s, n
<1>6. ASSUME NEW k \in n..(Len(s) - 1)
      PROVE  Last(Undo(s[k])) \in Holding(h) /\ Last(Undo(s[k])).marker = None
  <2>1. s[k] \in Holding(h)
    BY <1>3, <1>5, PathEach DEF Path
  <2> QED
    BY <2>1, UndoHolds, PathEach
<1>7. \/ Ends(Last(s), terraform, "trusted", TRUE, FALSE)
      \/ \E e \in Holding(h) : e.marker = None /\ Ends(e, terraform, "apply_failed", FALSE, FALSE)
  <2>1. \/ Ends(Last(s), terraform, "trusted", TRUE, FALSE)
        \/ Ends(disk, terraform, "apply_failed", FALSE, FALSE)
        \/ \E k \in n..(Len(s) - 1) :
              Ends(Last(Undo(s[k])), terraform, "apply_failed", FALSE, FALSE)
    BY Zenon DEF InstallTrust, s, n
  <2> HIDE DEF h
  <2> QED
    BY <1>3, <1>6, <2>1, Zenon
<1>8. CASE Ends(Last(s), terraform, "trusted", TRUE, FALSE)
  <2>1. /\ disk' = Last(s)
        /\ unreported' = [id |-> pending.id, result |-> "trusted", install |-> TRUE,
                          journaled |-> FALSE, stage |-> "finish"]
    BY <1>8 DEF Ends, Report
  <2>2. unreported'.id = pending.id /\ unreported'.result = "trusted" /\ unreported'.stage = "finish"
        /\ unreported' # None
    <3>1. pending.id \in Nat
      BY <1>1 DEF Executes, RunnerInv, RunnerKept, RunnerTyped
    <3>2. unreported' \in Reports
      BY <2>1, <3>1 DEF Reports, Said
    <3> QED
      BY <2>1, <3>2, RunnerAssumption
  <2>3. disk'.journal = disk.journal
    BY <1>3, <2>1, WritesEach DEF Notes
  <2>4. ~KeepsInstall(disk')
    BY <1>3, <2>3 DEF SaysTrusted, KeepsInstall
  <2>5. \A id : Installing(id)' => id = pending.id
    BY <2>2, <2>4 DEF Installing
  <2>6. InPlace(pending.id, disk', claims')
    BY <1>1, <1>3, <1>4, <2>1 DEF jobsPart
  <2>7. Placed'
    BY <2>5, <2>6 DEF Placed, InPlace
  <2>8. disk' \in Holding(h)
    BY <1>3, <2>1, PathEach
  <2>9. Marked' /\ Outcome' /\ Scoped'
    BY <1>1, <2>2 DEF Marked, Outcome, Scoped
  <2> QED
    BY <1>2, <2>7, <2>8, <2>9, LedgeredOn DEF HeldInv, Holding
<1>9. CASE \E e \in Holding(h) : /\ e.marker = None
                                 /\ Ends(e, terraform, "apply_failed", FALSE, FALSE)
  <2>1. /\ disk' \in Holding(h) /\ disk'.marker = None
        /\ unreported' = [id |-> pending.id, result |-> "apply_failed", install |-> FALSE,
                          journaled |-> FALSE, stage |-> "finish"]
    BY <1>9 DEF Ends, Report
  <2>2. ~KeepsInstall(disk') /\ ~unreported'.install
    BY <2>1 DEF KeepsInstall
  <2> QED
    BY <1>1, <1>2, <2>1, <2>2, HeldRewritten DEF Holding
<1> QED
  BY <1>7, <1>8, <1>9

LEMMA InstallDiesHeld ==
    ASSUME RunnerInv, RunnerInv', SidesInv, HeldInv, InstallDies
    PROVE  HeldInv' /\ OldTrust(disk') = OldTrust(disk)
<1> DEFINE s == Install(disk, InstallRecord)
           h == OldTrust(disk)
<1>1. /\ Executes("trust") /\ UNCHANGED <<jobsPart, registryPart, ledgerFailed>>
      /\ pc' = "down" /\ pending' = None /\ unreported' = None /\ \E k \in DOMAIN s : disk' = s[k]
  BY DEF InstallDies, Dies, Down
<1>2. ~SaysTrusted(disk.journal) /\ s \in Path(Holding(h)) /\ s \in Writes(disk)
  BY <1>1, InstallStarts
<1> HIDE DEF s
<1>3. disk' \in Holding(h) /\ disk'.journal = disk.journal
  BY <1>1, <1>2, WritesEach, PathEach DEF Notes
<1>4. ~KeepsInstall(disk') /\ Grew
  BY <1>1, <1>2, <1>3, GrewIdle DEF SaysTrusted, KeepsInstall
<1> QED
  BY <1>1, <1>3, <1>4, HeldRewritten DEF Holding

\* Each disk an answer leaves behind holds the old trust, or the new one if
\* that is recorded; if its install is still open, it is still judged.
LEMMA AnswerHolds ==
    ASSUME RunnerInv, SidesInv, HeldInv, Answered, unreported.install
    PROVE  LET s == AfterAnswer
           IN  /\ Last(s).marker = None
               /\ \A e \in {Last(s)} \cup {s[k] : k \in DOMAIN s} :
                     /\ e \in Disks /\ Whole(e) /\ e.journal = disk.journal /\ Followed(e)
                     /\ \/ InPlace(unreported.id, e, claims)
                        \/ Gone(unreported.id, registry[Project], entries)
<1> DEFINE s == AfterAnswer
           Each == {Last(s)} \cup {s[k] : k \in DOMAIN s}
           h == OldTrust(disk)
           id == unreported.id
<1>1. /\ unreported # None /\ unreported.stage \in {"delivered", "refused"}
      /\ unreported.journaled /\ disk \in Disks
  BY DEF Answered, Delivers, RunnerInv, RunnerKept, RunnerTyped
<1>2. /\ Last(s).marker = None
      /\ \A e \in Each : /\ e \in Disks /\ e.journal = disk.journal
                         /\ unreported.stage = "delivered" => e.tree = disk.tree /\ e.json = disk.json
  BY <1>1, AnswerTrees
<1>3. disk \in Holding(h) /\ Whole(disk) /\ disk.marker # None /\ Outcome
  BY <1>1 DEF HeldInv, Holding, SidesInv, Sides, Opened
<1>4. CASE unreported.stage = "delivered"
  <2>1. s = Commit(disk)
    BY <1>4, Zenon DEF AfterAnswer
  <2>2. Line(id, trustLines) /\ InPlace(id, disk, claims)
    BY <1>1, <1>3, <1>4 DEF Outcome
  <2>3. PICK l \in trustLines : l.kind = "trusted" /\ l.job = id
    BY <2>2 DEF Line
  <2>4. PICK c \in claims : c.id = id /\ c.scope.kind = "trust" /\ LocalTrust(disk) = ScopeRevision(c.scope)
    BY <2>2 DEF InPlace
  <2>5. LocalTrust(disk) # None
    <3>1. c.scope \in JobScopes
      BY GoodParts DEF RunnerInv, TrustInv, JobsKept, JobsInv, ClaimSet
    <3>2. ScopeRevision(c.scope) \in Revisions
      BY <2>4, <3>1 DEF JobScopes, TrustScopes, ApplyScopes, ScopeRevision, Revisions
    <3> QED
      BY <2>4, <3>2, RunnerAssumption
  <2> HIDE DEF s
  <2>6. s \in Path({e \in Disks : Whole(e) /\ OldTrust(e) \in {h, None, LocalTrust(disk)}})
    BY <1>1, <1>3, <2>1, <2>5, CommitHolds
  <2>7. \A e \in Each : Whole(e) /\ OldTrust(e) \in {h, None, LocalTrust(disk)}
    BY <2>6, PathEach
  <2>8. ASSUME NEW e \in Each PROVE Whole(e) /\ Followed(e) /\ InPlace(id, e, claims)
    <3>1. LocalTrust(e) = LocalTrust(disk)
      BY <1>2, <1>4, <2>8 DEF LocalTrust
    <3> QED
      BY <2>3, <2>4, <2>7, <2>8, <3>1 DEF Followed, InPlace
  <2> QED
    BY <1>2, <2>8 DEF s
<1>5. CASE unreported.stage = "refused"
  <2>1. s = Undo(disk)
    BY <1>5, Zenon DEF AfterAnswer
  <2>2. Gone(id, registry[Project], entries)
    BY <1>1, <1>3, <1>5 DEF Outcome
  <2> HIDE DEF s
  <2>3. s \in Path(Holding(h))
    BY <1>3, <2>1, UndoHolds
  <2>4. \A e \in Each : e \in Holding(h)
    BY <2>3, PathEach
  <2>5. \A e \in Each : Whole(e) /\ Followed(e)
    BY <2>4 DEF Holding, Followed
  <2> QED
    BY <1>2, <2>2, <2>5 DEF s
<1> QED
  BY <1>1, <1>4, <1>5

LEMMA SettleHeld ==
    ASSUME ~UndoMayFail, RunnerInv, RunnerInv', SidesInv, HeldInv, Settle \/ SettleDies
    PROVE  HeldInv' /\ Followed(disk')
<1> DEFINE s == AfterAnswer
           id == unreported.id
           Each == {Last(s)} \cup {s[k] : k \in DOMAIN s}
<1>1. /\ Answered /\ unreported' = None /\ UNCHANGED <<jobsPart, registryPart, ledgerFailed>>
      /\ \/ disk' \in {Last(s), Closed(Last(s), id)}
         \/ pc' = "down" /\ \E k \in DOMAIN s : disk' = s[k]
  BY DEF Settle, SettleDies, Dies, Down
<1>2. /\ unreported # None /\ unreported.journaled /\ disk \in Disks /\ pending' = None
      /\ unreported.install \in BOOLEAN /\ pc = "step"
  BY <1>1 DEF Answered, Delivers, RunnerInv, RunnerKept, RunnerTyped, Reports, Settle, SettleDies,
              Dies, Down
<1>3. Grew
  BY <1>1, GrewIdle
<1>4. CASE ~unreported.install
  <2>1. s = <<disk>>
    BY <1>4, Zenon DEF AfterAnswer
  <2>2. Last(s) = disk /\ \A k \in DOMAIN s : s[k] = disk
    BY <2>1 DEF Last
  <2> HIDE DEF s
  <2>3. SameTrees(disk, disk')
    BY <1>1, <1>2, <2>2, ClosedTrees, TreesStay
  <2>4. disk.marker = None
    BY <1>2, <1>4 DEF HeldInv, Marked, SidesInv, Sides, Opened
  <2>5. OldTrust(disk') = OldTrust(disk) /\ Whole(disk') /\ disk'.marker = None
    <3>1. disk' \in Disks
      BY DEF RunnerInv, RunnerKept, RunnerTyped
    <3> QED
      BY <1>2, <2>3, <2>4, <3>1, HeldByTrees DEF HeldInv, SameTrees
  <2> QED
    BY <1>1, <1>2, <1>3, <2>5, HeldRewritten DEF KeepsInstall, Followed
<1>5. CASE unreported.install
  <2>1. /\ Last(s).marker = None
        /\ \A e \in Each : /\ e \in Disks /\ Whole(e) /\ e.journal = disk.journal /\ Followed(e)
                           /\ \/ InPlace(id, e, claims)
                              \/ Gone(id, registry[Project], entries)
    BY <1>1, <1>5, AnswerHolds
  <2> HIDE DEF s
  <2>2. CASE disk' \in {Last(s), Closed(Last(s), id)}
    <3>1. SameTrees(Last(s), disk')
      BY <2>1, <2>2, ClosedTrees DEF SameTrees
    <3>2. disk' \in Disks
      BY DEF RunnerInv, RunnerKept, RunnerTyped
    <3>3. OldTrust(disk') = OldTrust(Last(s)) /\ Whole(disk') /\ disk'.marker = None
      BY <2>1, <3>1, <3>2, HeldByTrees DEF SameTrees
    <3> QED
      BY <1>1, <1>2, <1>3, <2>1, <3>3, HeldRewritten DEF KeepsInstall, Followed
  <2>3. CASE pc' = "down" /\ \E k \in DOMAIN s : disk' = s[k]
    <3>1. /\ Whole(disk') /\ disk'.journal = disk.journal /\ Followed(disk')
          /\ InPlace(id, disk', claims) \/ Gone(id, registry[Project], entries)
      BY <2>1, <2>3
    <3>2. disk.journal.job = id
      BY <1>2, ReportedInstall
    <3>3. \A i : Installing(i)' => i = id
      BY <1>1, <3>1, <3>2 DEF Installing
    <3>4. claims' = claims /\ entries' = entries /\ registry' = registry
      BY <1>1 DEF jobsPart, registryPart
    <3>5. Placed'
      BY <3>1, <3>3, <3>4 DEF Placed, InPlace, Gone, NotOf
    <3>6. Marked' /\ Outcome' /\ Scoped' /\ Ledgered'
      BY <1>1, <1>2, <1>3, <2>3, LedgeredOn DEF HeldInv, Marked, Outcome, Scoped
    <3> QED
      BY <3>1, <3>5, <3>6 DEF HeldInv
  <2> QED
    BY <1>1, <2>2, <2>3
<1> QED
  BY <1>2, <1>4, <1>5

----------------------------------------------------------------------------
(* A start, the others, and every step.                                    *)

\* What is put back at a start is what was held.
LEMMA RestoredHolds ==
    ASSUME NEW h, NEW d \in Holding(h), ~KeepsInstall(d)
    PROVE  Restored(d) \in Path(Holding(h)) /\ Last(Restored(d)).marker = None
<1>1. CASE d.marker = None
  <2> DEFINE u == [d EXCEPT !.prev = IF d.tree # None THEN None ELSE @,
                            !.prevJson = IF d.json # None THEN None ELSE @]
  <2>1. d \in Disks /\ d.prev = None /\ d.prevJson = None
    BY <1>1, DiskFields DEF Holding, Whole
  <2>2. u \in Disks /\ SameTrees(d, u)
    BY <2>1, DiskFields DEF SameTrees, Disks
  <2>3. Unmarked(d) = u
    BY <2>1 DEF Unmarked
  <2> HIDE DEF u
  <2>4. u \in Holding(h) /\ u.marker = None
    BY <1>1, <2>1, <2>2, HeldByTrees DEF Holding, SameTrees
  <2>5. Restored(d) = <<d, u>>
    BY <1>1, <2>3 DEF Restored
  <2> QED
    BY <2>4, <2>5, PathOfTwo
<1>2. CASE d.marker # None
  <2>1. Restored(d) = Undo(d)
    BY <1>2 DEF Restored
  <2> QED
    BY <2>1, UndoHolds
<1> QED
  BY <1>1, <1>2

\* A report that is still to be delivered keeps its install as it is.
LEMMA StartKeeps ==
    ASSUME disk \in Disks, KeepsInstall(disk)
    PROVE  Restored(disk) = <<disk>> /\ Noted(disk) = <<disk>> /\ Recovered(disk) = "trusted"
<1>1. disk \in Notes(disk)
  BY DEF Notes
<1> QED
  BY <1>1, NotedSides DEF KeepsInstall, Restored, Recovered

LEMMA StartupHeld ==
    ASSUME ~UndoMayFail, RunnerInv, RunnerInv', SidesInv, HeldInv, Startup
    PROVE  HeldInv' /\ OldTrust(disk') = OldTrust(disk)
<1> DEFINE s == Restored(disk)
           h == OldTrust(disk)
           report == [id |-> disk.journal.job, result |-> Recovered(disk),
                      install |-> KeepsInstall(disk), journaled |-> TRUE, stage |-> "finish"]
<1>1. /\ pc = "down" /\ pc' = "step"
      /\ UNCHANGED <<jobsPart, registryPart, ledgerFailed, task, pending>>
      /\ IF disk.journal = None THEN unreported' = unreported ELSE unreported' = report
      /\ disk' = Last(Noted(Last(s)))
  BY DEF Startup, Goes, Report
<1>2. disk \in Disks /\ pending' = None /\ unreported = None /\ disk \in Holding(h)
  BY <1>1 DEF RunnerInv, RunnerKept, RunnerTyped, HeldInv, Holding
<1>3. Grew
  BY <1>1, GrewIdle
<1>4. CASE KeepsInstall(disk)
  <2>1. s = <<disk>> /\ Noted(disk) = <<disk>> /\ Recovered(disk) = "trusted"
    BY <1>2, <1>4, StartKeeps
  <2>2. Last(s) = disk /\ Last(Noted(disk)) = disk
    BY <2>1 DEF Last
  <2> HIDE DEF s
  <2>3. disk' = disk
    BY <1>1, <2>2
  <2>4. disk.journal # None /\ disk.journal.job \in Nat /\ KeepsInstall(disk) \in BOOLEAN
    BY <1>2, <1>4 DEF KeepsInstall, Disks, JournalEntries
  <2>5. unreported' = report /\ report \in Reports
    BY <1>1, <2>1, <2>4 DEF Reports, Said
  <2>6. /\ unreported' # None /\ unreported'.id = disk.journal.job
        /\ unreported'.result = "trusted" /\ unreported'.stage = "finish"
    BY <2>1, <2>5, RunnerAssumption
  <2>7. \A id : Installing(id)' => Installing(id)
    BY <1>4, <2>3, <2>6 DEF Installing
  <2>8. Marked' /\ Outcome' /\ Scoped'
    BY <1>2, <2>6 DEF Marked, Outcome, Scoped
  <2> QED
    BY <1>3, <2>3, <2>7, <2>8, TreesStay, HeldQuiet
<1>5. CASE ~KeepsInstall(disk)
  <2>1. Last(s) \in Holding(h) /\ Last(s).marker = None
    BY <1>2, <1>5, RestoredHolds, PathEach
  <2>2. Last(s) \in Notes(disk)
    BY <1>2, <1>5, RestoredSides
  <2> HIDE DEF s
  <2>3. SameTrees(Last(s), disk')
    BY <1>1, <1>2, <2>2, NotedSides DEF Last
  <2>4. disk' \in Disks
    BY DEF RunnerInv, RunnerKept, RunnerTyped
  <2>5. OldTrust(disk') = h /\ Whole(disk') /\ disk'.marker = None
    BY <2>1, <2>3, <2>4, HeldByTrees DEF Holding, SameTrees
  <2>6. unreported' # None => ~unreported'.install
    BY <1>1, <1>2, <1>5
  <2> QED
    BY <1>2, <1>3, <2>5, <2>6, HeldRewritten DEF KeepsInstall
<1> QED
  BY <1>4, <1>5

LEMMA StartupDiesHeld ==
    ASSUME RunnerInv, RunnerInv', SidesInv, HeldInv, StartupDies
    PROVE  HeldInv' /\ OldTrust(disk') = OldTrust(disk)
<1> DEFINE s == Restored(disk)
           h == OldTrust(disk)
           r == Last(s)
<1>1. /\ pc = "down" /\ pc' = "down" /\ pending' = None /\ unreported' = None
      /\ UNCHANGED <<jobsPart, registryPart, ledgerFailed>>
      /\ \E k \in DOMAIN (s \o Noted(r)) : disk' = (s \o Noted(r))[k]
  BY DEF StartupDies, Dies, Down
<1>2. disk \in Disks /\ disk' \in Disks /\ unreported = None /\ disk \in Holding(h)
  BY <1>1 DEF RunnerInv, RunnerKept, RunnerTyped, HeldInv, Holding
<1>3. Grew
  BY <1>1, GrewIdle
<1>4. s \in Writes(disk) /\ s \in Seq(Notes(disk)) /\ r \in Notes(disk)
  BY <1>2, RestoredWrites, WritesEach DEF Writes
<1> HIDE DEF s, r
<1>5. Noted(r) \in Seq(Disks)
  BY <1>1, <1>4, NothingMoved, NotedJournal DEF StartupDies, Dies
<1>6. \/ \E k \in DOMAIN s : disk' = s[k]
      \/ \E k \in DOMAIN Noted(r) : disk' = Noted(r)[k]
  <2>1. PICK k \in DOMAIN (s \o Noted(r)) : disk' = (s \o Noted(r))[k]
    BY <1>1
  <2>2. s \in Seq(Notes(disk)) /\ Noted(r) \in Seq(Disks) /\ k \in 1..(Len(s) + Len(Noted(r)))
    BY <1>4, <1>5, <2>1
  <2>3. CASE k <= Len(s)
    BY <2>1, <2>2, <2>3
  <2>4. CASE k > Len(s)
    <3>1. k - Len(s) \in DOMAIN Noted(r)
      BY <2>2, <2>4
    <3>2. (s \o Noted(r))[k] = Noted(r)[k - Len(s)]
      BY <2>2, <2>4
    <3> QED
      BY <2>1, <3>1, <3>2
  <2> QED
    BY <2>2, <2>3, <2>4
<1>7. CASE KeepsInstall(disk)
  <2>1. s = <<disk>> /\ Noted(disk) = <<disk>>
    BY <1>2, <1>7, StartKeeps DEF s
  <2>2. r = disk
    BY <2>1 DEF r, Last
  <2>3. disk' = disk
    BY <1>6, <2>1, <2>2
  <2>4. Marked' /\ Outcome' /\ Scoped' /\ \A id : Installing(id)' => Installing(id)
    BY <1>1, <2>3 DEF Marked, Outcome, Scoped, Installing
  <2> QED
    BY <1>3, <2>3, <2>4, TreesStay, HeldQuiet
<1>8. CASE ~KeepsInstall(disk)
  <2>1. s \in Path(Holding(h))
    BY <1>2, <1>8, RestoredHolds DEF s
  <2>2. \A e \in {r} \cup {s[k] : k \in DOMAIN s} :
           /\ e \in Holding(h) /\ e \in Notes(disk)
           /\ disk.marker = None => e.marker = None
    BY <1>2, <1>8, <2>1, PathEach, RestoredSides DEF s, r
  <2>3. \E e \in {r} \cup {s[k] : k \in DOMAIN s} :
           /\ SameTrees(e, disk')
           /\ SaysTrusted(disk'.journal) => disk'.journal = disk.journal
    <3>1. CASE \E k \in DOMAIN s : disk' = s[k]
      <4>1. disk'.journal = disk.journal
        BY <2>2, <3>1 DEF Notes
      <4> QED
        BY <3>1, <4>1 DEF SameTrees
    <3>2. CASE \E k \in DOMAIN Noted(r) : disk' = Noted(r)[k]
      BY <1>2, <1>4, <3>2, NotedSides
    <3> QED
      BY <1>6, <3>1, <3>2
  <2>4. Whole(disk') /\ OldTrust(disk') = h
    BY <1>2, <2>2, <2>3, HeldByTrees DEF Holding
  <2>5. ~KeepsInstall(disk')
    BY <1>8, <2>2, <2>3 DEF KeepsInstall, SaysTrusted, SameTrees
  <2> QED
    BY <1>1, <1>3, <2>4, <2>5, HeldRewritten
<1> QED
  BY <1>7, <1>8

\* The runner does nothing.
LEMMA StillHeld ==
    ASSUME RunnerInv, RunnerInv', HeldInv, Grew, UNCHANGED runnerVars
    PROVE  HeldInv' /\ OldTrust(disk') = OldTrust(disk)
<1>1. /\ disk' = disk /\ unreported' = unreported /\ pc' = pc /\ pending' = pending
  BY DEF runnerVars, runnerMemory
<1>2. Outcome'
  BY <1>1, TreesStay, OutcomeOn
<1>3. Marked' /\ Scoped' /\ \A id : Installing(id)' => Installing(id)
  BY <1>1, ScopedOn DEF HeldInv, Marked, Installing
<1> QED
  BY <1>1, <1>2, <1>3, TreesStay, HeldQuiet

LEMMA OthersHeld ==
    ASSUME RunnerInv, RunnerInv', HeldInv, TrustOthers, UNCHANGED runnerVars
    PROVE  HeldInv' /\ OldTrust(disk') = OldTrust(disk)
<1> DEFINE moves == {<<"waiting", "approved">>}
<1>1. /\ JobsWent(moves) /\ moves \in SUBSET Moves
      /\ \A l \in jobEvents' : l \in jobEvents \/ l.kind # "trusted"
  BY OthersWent DEF RunnerInv, TrustWent, Muted, Reported, Moves
<1>2. registry \in [Projects -> TrustRecords \cup {None}] /\ Project \in Projects
  BY RunnerAssumption DEF RunnerInv, TrustInv, RegistryKept
<1> DEFINE goal == /\ registry'[Project] \in {registry[Project], None}
                   /\ trustLines \subseteq trustLines'
<1>3. ASSUME UNCHANGED registryPart
      PROVE  goal
  BY <1>3 DEF registryPart
<1>4. ASSUME NEW t, \/ \E p \in Projects, kind \in {"trust", "apply"} : FileJob(t, p, kind)
                    \/ \E e \in {x \in entries : x.state = "waiting"} :
                          ApproveJob(t, e) \/ DeclineJob(t, e.id)
                    \/ \E p \in Projects : KillProject(t, p)
                    \/ ShowStatus(t)
      PROVE  goal
  <2>1. UNCHANGED registryPart
    BY <1>4, Zenon DEF FileJob, ApproveJob, DeclineJob, KillProject, ShowStatus, Serve
  <2> QED
    BY <1>3, <2>1
<1>5. ASSUME NEW p \in Projects, Untrust(p)
      PROVE  goal
  <2>1. registry' = [registry EXCEPT ![p] = None] /\ trustLines' = trustLines
    BY <1>5 DEF Untrust, Registers
  <2> QED
    BY <1>2, <2>1
<1>6. ASSUME NEW l, UntrustLine(l)
      PROVE  goal
  BY <1>6 DEF UntrustLine
<1>7. ASSUME DaemonDown
      PROVE  goal
  BY <1>7 DEF DaemonDown
<1>8. ASSUME DaemonBoot
      PROVE  goal
  <2>1. registry' = Reconciled /\ trustLines' = trustLines
    BY <1>8 DEF DaemonBoot, Registers
  <2> QED
    BY <1>2, <2>1 DEF Reconciled
<1> HIDE DEF goal
<1>9. goal
  BY <1>4, <1>5, <1>6, <1>7, <1>8 DEF TrustOthers
<1>10. Grew
  BY <1>1, <1>9 DEF goal, Grew
<1> QED
  BY <1>10, StillHeld

LEMMA HeldStarts == ASSUME RunnerInit PROVE HeldInv
<1> DEFINE rec == registry[Project]
<1>1. /\ registry \in [Projects -> [digest: Digests, schema: Schemas, job: {0}] \cup {None}]
      /\ jobEvents = {} /\ Project \in Projects
      /\ rec # None => rec.schema = SchemaOf[rec.digest]
  BY RunnerAssumption DEF RunnerInit, TrustInit
<1>2. /\ disk.journal = None /\ disk.marker = None /\ disk.tree = DigestOf(rec)
      /\ disk.json = TrustedNow[Project] /\ disk.prev = None /\ disk.prevJson = None
      /\ pending = None /\ unreported = None
  BY DEF RunnerInit
<1>3. disk.json = IF rec = None THEN None ELSE RevisionOf(rec)
  BY <1>1, <1>2 DEF TrustedNow, RevisionOf
<1>4. Whole(disk)
  <2>1. None # TRUE /\ None # FALSE
    BY RunnerAssumption
  <2>2. OldTree(disk) = disk.tree /\ OldJson(disk) = disk.json
    BY <1>2, <2>1 DEF OldTree, OldJson
  <2>3. disk.tree # None => disk.json # None
    <3>1. rec # None => RevisionOf(rec) \in Revisions
      BY <1>1 DEF RevisionOf, Revisions
    <3> QED
      BY <1>2, <1>3, <3>1, RunnerAssumption DEF DigestOf
  <2>4. OfTree(disk.json) /\ OfTree(disk.prevJson)
    BY <1>1, <1>2, <1>3 DEF OfTree, RevisionOf
  <2> QED
    BY <1>2, <2>2, <2>3, <2>4 DEF Whole
<1>5. \A id : ~Installing(id)
  BY <1>2 DEF Installing, KeepsInstall
<1> QED
  BY <1>1, <1>2, <1>4, <1>5 DEF HeldInv, Marked, Ledgered, Placed, Outcome, Scoped

LEMMA HeldSteps ==
    ASSUME ~UndoMayFail, RunnerInv, RunnerInv', SidesInv, SidesInv', HeldInv, [RunnerNext]_vars
    PROVE  HeldInv' /\ Followed(disk')
<1> DEFINE same == HeldInv' /\ OldTrust(disk') = OldTrust(disk)
<1>1. Readings \subseteq Time
  BY DEF Readings
<1>2. CASE Working
  <2>1. same
    BY <1>1, <1>2, PollHeld, CheckPendingHeld, PlanEndsHeld, ClaimHeld, SubmitHeld DEF Working
  <2> QED
    BY <2>1 DEF Followed
<1>3. CASE PlanFails \/ ClaimUnjournaled
  BY <1>3, PlanEndsHeld, ClaimUnjournaledHeld DEF Followed
<1>4. CASE Executing
  BY <1>4, InstallHeld, ApplyHeld DEF Executing, Followed
<1>5. CASE Delivering
  BY <1>1, <1>5, JournalReportHeld, SettleHeld, SendFinishHeld, AskStatusHeld, SendUnknownHeld
     DEF Delivering, Followed
<1>6. CASE Startup
  BY <1>6, StartupHeld DEF Followed
<1>7. CASE Dying
  BY <1>7, CrashHeld, InstallDiesHeld, SettleHeld, StartupDiesHeld, ApplyHeld DEF Dying, Followed
<1>8. CASE TrustOthers /\ UNCHANGED runnerVars
  BY <1>8, OthersHeld DEF Followed
<1>9. CASE UNCHANGED vars
  <2>1. UNCHANGED <<jobsPart, registryPart, ledgerFailed>> /\ UNCHANGED runnerVars
    BY <1>9 DEF vars, trustVars
  <2> QED
    BY <2>1, GrewIdle, StillHeld DEF Followed
<1> HIDE DEF same
<1> QED
  BY <1>2, <1>3, <1>4, <1>5, <1>6, <1>7, <1>8, <1>9 DEF RunnerNext

\* The trust a runner holds, its own or the one an open install takes it back
\* to, is replaced only by one the ledger has: whichever write of an install,
\* a commit, an undo or a start it died in, and whichever answer was lost
\* (install_trust, install_undo, install_commit and startup of
\* src/runner/run.rs; finish_trusted of src/server.rs).  If taking an install
\* back can itself fail this is not so: see UndoIsTriedAgain.
THEOREM HeldIsRecorded == ASSUME ~UndoMayFail PROVE RunnerSpec => HeldFollowsRecord
<1>1. RunnerInit => HeldInv
  BY HeldStarts
<1>2. RunnerInv /\ RunnerInv' /\ SidesInv /\ SidesInv' /\ HeldInv /\ [RunnerNext]_vars
         => HeldInv' /\ Followed(disk')
  BY HeldSteps
<1>3. RunnerInv /\ RunnerInv' /\ HeldInv /\ HeldInv' /\ Followed(disk')
         => [HeldTrust(disk') # HeldTrust(disk) /\ HeldTrust(disk') # None =>
                \E l \in trustLines, c \in claims :
                    /\ l.kind = "trusted" /\ c.id = l.job
                    /\ HeldTrust(disk') = [digest |-> c.scope.candidate, schema |-> c.scope.schema]
            ]_vars
  <2> SUFFICES ASSUME RunnerInv, RunnerInv', HeldInv, HeldInv', Followed(disk'),
                      HeldTrust(disk') # HeldTrust(disk), HeldTrust(disk') # None
               PROVE  \E l \in trustLines, c \in claims :
                         /\ l.kind = "trusted" /\ c.id = l.job
                         /\ HeldTrust(disk') = [digest |-> c.scope.candidate,
                                                schema |-> c.scope.schema]
    OBVIOUS
  <2>1. disk \in Disks /\ disk' \in Disks /\ Whole(disk) /\ Whole(disk')
    BY DEF RunnerInv, RunnerKept, RunnerTyped, HeldInv
  <2>2. HeldTrust(disk) = OldTrust(disk) /\ HeldTrust(disk') = OldTrust(disk')
    BY <2>1, HeldIsOld
  <2> QED
    BY <2>2 DEF Followed, ScopeRevision
<1> QED
  BY <1>1, <1>2, <1>3, RunnerAlways, SidesAlways, PTL DEF RunnerSpec, HeldFollowsRecord
=============================================================================
