----------------------------- MODULE GateProofs -----------------------------
(***************************************************************************)
(* What the operators of Gate return, for whoever holds the gate.          *)
(***************************************************************************)
EXTENDS Gate, TLAPS, SequenceTheorems, FiniteSetTheorems, WellFoundedInduction

\* A cooldown is a length of time.
LEMMA CooldownIsNat == ASSUME NEW n \in Nat \ {0} PROVE Cooldown(n) \in Nat
<1>1. Earlier(n - 1, MaxDoublings) \in 0..MaxDoublings
  BY GateAssumption DEF Earlier
<1>2. 2^Earlier(n - 1, MaxDoublings) \in Nat \ {0}
  BY <1>1, DoublingAssumption
<1>3. \A k \in Nat : BaseCooldown * k \in Nat
  BY GateAssumption
<1>4. BaseCooldown * 2^Earlier(n - 1, MaxDoublings) \in Nat
  BY <1>2, <1>3
<1> QED  BY <1>4, GateAssumption DEF Cooldown, Earlier

\* A sequence with a live time has a first one, which popping stops at.
LEMMA FirstLiveExists ==
    ASSUME NEW s \in Seq(Nat), NEW now \in Nat, \E i \in DOMAIN s : Live(s[i], now)
    PROVE  /\ FirstLive(s, now) \in DOMAIN s
           /\ Live(s[FirstLive(s, now)], now)
           /\ \A j \in 1..(FirstLive(s, now) - 1) : ~Live(s[j], now)
<1> DEFINE T == {i \in DOMAIN s : Live(s[i], now)}
<1>1. T \subseteq Nat /\ T # {}
  OBVIOUS
<1>2. PICK i \in T : \A k \in T : ~(<<k, i>> \in OpToRel(<, Nat))
  BY ONLY <1>1, NatLessThanWellFounded, WFMin
<1>3. \A k \in T : ~(k < i)
  BY <1>1, <1>2 DEF OpToRel
<1>4. \A j \in 1..(i - 1) : ~Live(s[j], now)
  <2> SUFFICES ASSUME NEW j \in 1..(i - 1), Live(s[j], now) PROVE FALSE
    OBVIOUS
  <2>1. i \in 1..Len(s)
    BY <1>2, LenProperties
  <2>2. j \in DOMAIN s /\ j < i
    BY <2>1, LenProperties
  <2> QED  BY <1>3, <2>2
<1> QED  BY <1>2, <1>4 DEF FirstLive

\* Popping expired times leaves a sequence of times.
LEMMA PopExpiredType ==
    ASSUME NEW s \in Seq(Nat), NEW now \in Nat
    PROVE  PopExpired(s, now) \in Seq(Nat)
<1>1. CASE \E i \in DOMAIN s : Live(s[i], now)
  <2>1. FirstLive(s, now) \in 1..Len(s)
    BY <1>1, FirstLiveExists
  <2>2. \A i \in FirstLive(s, now)..Len(s) : s[i] \in Nat
    BY <2>1
  <2>3. SubSeq(s, FirstLive(s, now), Len(s)) \in Seq(Nat)
    BY <2>1, <2>2, SubSeqProperties
  <2> QED  BY <1>1, <2>3 DEF PopExpired
<1>2. CASE ~ \E i \in DOMAIN s : Live(s[i], now)
  BY <1>2 DEF PopExpired
<1> QED  BY <1>1, <1>2

\* What the operations on a gate leave is a gate, and who holds its slot.
LEMMA GateOps ==
    ASSUME NEW g \in Gates, NEW now \in Nat, NEW o \in Occupants
    PROVE  /\ GateTicked(g, now) \in Gates
           /\ GateTicked(g, now).occupant = g.occupant
           /\ Released(g, o) \in Gates
           /\ Released(g, o).occupant = g.occupant \ {o}
           /\ StruckAt(g, now) \in Gates
           /\ StruckAt(g, now).occupant = g.occupant
           /\ Forgiven(g) \in Gates
           /\ Forgiven(g).occupant = g.occupant
           /\ Admitted(g, now, o) \in Gates
           /\ Admitted(g, now, o).occupant = {o}
<1>1. GateTicked(g, now) \in Gates /\ GateTicked(g, now).occupant = g.occupant
  <2>1. PopExpired(g.accepted, now) \in Seq(Nat)
    BY PopExpiredType DEF Gates
  <2> QED  BY <2>1 DEF GateTicked, Gates
<1>2. Released(g, o) \in Gates /\ Released(g, o).occupant = g.occupant \ {o}
  BY DEF Released, Gates
<1>3. StruckAt(g, now) \in Gates /\ StruckAt(g, now).occupant = g.occupant
  <2>1. g.strikes + 1 \in Nat \ {0}
    BY DEF Gates
  <2>2. Cooldown(g.strikes + 1) \in Nat
    BY <2>1, CooldownIsNat
  <2>3. \A c \in Nat : now + c \in Nat
    OBVIOUS
  <2>4. now + Cooldown(g.strikes + 1) \in Nat
    BY <2>2, <2>3
  <2>5. \A a, b \in Nat :
            /\ [g EXCEPT !.strikes = a, !.cooldownUntil = b] \in Gates
            /\ [g EXCEPT !.strikes = a, !.cooldownUntil = b].occupant = g.occupant
    BY DEF Gates
  <2> QED  BY <2>1, <2>4, <2>5, Zenon DEF StruckAt
<1>4. Forgiven(g) \in Gates /\ Forgiven(g).occupant = g.occupant
  BY DEF Forgiven, Gates
<1>5. Admitted(g, now, o) \in Gates /\ Admitted(g, now, o).occupant = {o}
  <2>1. Append(g.accepted, now) \in Seq(Nat)
    BY DEF Gates
  <2> QED  BY <2>1 DEF Admitted, Gates
<1> QED  BY <1>1, <1>2, <1>3, <1>4, <1>5

\* The part of the slot that one kind of request holds.
HoldOf(kind, g) == {o \in g.occupant : o[1] = kind}

\* No operation on a gate lets go of what another kind of request holds, but
\* that only a free slot is given out.
LEMMA HoldOps ==
    ASSUME NEW g \in Gates, NEW now \in Nat, NEW o \in Occupants, NEW kind
    PROVE  /\ HoldOf(kind, GateTicked(g, now)) = HoldOf(kind, g)
           /\ HoldOf(kind, Released(g, o)) = HoldOf(kind, g) \ {o}
           /\ HoldOf(kind, StruckAt(g, now)) = HoldOf(kind, g)
           /\ HoldOf(kind, Forgiven(g)) = HoldOf(kind, g)
           /\ HoldOf(kind, Admitted(g, now, o)) = IF o[1] = kind THEN {o} ELSE {}
<1>1. /\ GateTicked(g, now).occupant = g.occupant
      /\ Released(g, o).occupant = g.occupant \ {o}
      /\ StruckAt(g, now).occupant = g.occupant
      /\ Forgiven(g).occupant = g.occupant
      /\ Admitted(g, now, o).occupant = {o}
  BY GateOps
<1> QED  BY <1>1, Zenon DEF HoldOf

\* The same of a holder of this kind and of any other: what it took or gave up.
LEMMA HolderOps ==
    ASSUME NEW g \in Gates, NEW now \in Nat, NEW kind \in {"ssh", "job"}, NEW m \in Nat
    PROVE  /\ GateTicked(g, now) \in Gates
           /\ HoldOf(kind, GateTicked(g, now)) = HoldOf(kind, g)
           /\ Released(g, <<kind, m>>) \in Gates
           /\ HoldOf(kind, Released(g, <<kind, m>>)) = HoldOf(kind, g) \ {<<kind, m>>}
           /\ StruckAt(g, now) \in Gates
           /\ HoldOf(kind, StruckAt(g, now)) = HoldOf(kind, g)
           /\ Forgiven(g) \in Gates
           /\ HoldOf(kind, Forgiven(g)) = HoldOf(kind, g)
           /\ Admitted(g, now, <<kind, m>>) \in Gates
           /\ HoldOf(kind, Admitted(g, now, <<kind, m>>)) = {<<kind, m>>}
<1>1. <<kind, m>> \in Occupants /\ <<kind, m>>[1] = kind
  BY DEF Occupants
<1>2. /\ GateTicked(g, now) \in Gates /\ Released(g, <<kind, m>>) \in Gates
      /\ StruckAt(g, now) \in Gates /\ Forgiven(g) \in Gates
      /\ Admitted(g, now, <<kind, m>>) \in Gates
  BY <1>1, GateOps
<1>3. /\ HoldOf(kind, GateTicked(g, now)) = HoldOf(kind, g)
      /\ HoldOf(kind, Released(g, <<kind, m>>)) = HoldOf(kind, g) \ {<<kind, m>>}
      /\ HoldOf(kind, StruckAt(g, now)) = HoldOf(kind, g)
      /\ HoldOf(kind, Forgiven(g)) = HoldOf(kind, g)
      /\ HoldOf(kind, Admitted(g, now, <<kind, m>>)) = {<<kind, m>>}
  BY <1>1, HoldOps
<1> QED  BY <1>2, <1>3

\* The one holder of a kind gives the slot up.
LEMMA SlotFreed ==
    ASSUME NEW g \in Gates, NEW kind \in {"ssh", "job"}, NEW m \in Nat,
           HoldOf(kind, g) = {<<kind, m>>}
    PROVE  /\ Released(g, <<kind, m>>) \in Gates
           /\ HoldOf(kind, Released(g, <<kind, m>>)) = {}
<1>1. /\ Released(g, <<kind, m>>) \in Gates
      /\ HoldOf(kind, Released(g, <<kind, m>>)) = HoldOf(kind, g) \ {<<kind, m>>}
  BY HolderOps, 0 \in Nat
<1> QED  BY <1>1

\* A holder that gives the slot up takes nothing from another kind.
LEMMA OthersKeepSlot ==
    ASSUME NEW g \in Gates, NEW kind \in {"ssh", "job"}, NEW m \in Nat,
           NEW other, other # kind
    PROVE  HoldOf(other, Released(g, <<kind, m>>)) = HoldOf(other, g)
<1>1. <<kind, m>> \in Occupants /\ <<kind, m>>[1] = kind
  BY DEF Occupants
<1>2. HoldOf(other, Released(g, <<kind, m>>)) = HoldOf(other, g) \ {<<kind, m>>}
  BY <1>1, HoldOps, 0 \in Nat
<1>3. <<kind, m>> \notin HoldOf(other, g)
  BY <1>1 DEF HoldOf
<1> QED  BY <1>2, <1>3

\* One holder at a time.
OneHolder(g) == \A a, b \in g.occupant : a = b

\* What is done with the gate for one kind of request leaves another kind what
\* it holds, and the slot with one holder at most.
Lends(other, g, h) ==
    /\ HoldOf(other, h) = HoldOf(other, g)
    /\ OneHolder(g) => OneHolder(h)

\* The operations on a gate, done for a request of one kind, as another sees them.
LEMMA LendOps ==
    ASSUME NEW g \in Gates, NEW now \in Nat, NEW kind \in {"ssh", "job"}, NEW m \in Nat,
           NEW other, other # kind
    PROVE  /\ Lends(other, g, GateTicked(g, now))
           /\ Lends(other, g, Released(g, <<kind, m>>))
           /\ Lends(other, g, StruckAt(g, now))
           /\ Lends(other, g, Forgiven(g))
           /\ g.occupant = {} => Lends(other, g, Admitted(g, now, <<kind, m>>))
<1>1. <<kind, m>> \in Occupants /\ <<kind, m>>[1] = kind
  BY DEF Occupants
<1>2. /\ HoldOf(other, GateTicked(g, now)) = HoldOf(other, g)
      /\ HoldOf(other, StruckAt(g, now)) = HoldOf(other, g)
      /\ HoldOf(other, Forgiven(g)) = HoldOf(other, g)
      /\ HoldOf(other, Admitted(g, now, <<kind, m>>)) = {}
  BY <1>1, HoldOps
<1>3. HoldOf(other, Released(g, <<kind, m>>)) = HoldOf(other, g)
  BY OthersKeepSlot
<1>4. g.occupant = {} => HoldOf(other, g) = {}
  BY DEF HoldOf
<1>5. /\ GateTicked(g, now).occupant = g.occupant
      /\ Released(g, <<kind, m>>).occupant = g.occupant \ {<<kind, m>>}
      /\ StruckAt(g, now).occupant = g.occupant
      /\ Forgiven(g).occupant = g.occupant
      /\ Admitted(g, now, <<kind, m>>).occupant = {<<kind, m>>}
  BY <1>1, GateOps
<1>6. /\ OneHolder(g) => OneHolder(GateTicked(g, now))
      /\ OneHolder(g) => OneHolder(Released(g, <<kind, m>>))
      /\ OneHolder(g) => OneHolder(StruckAt(g, now))
      /\ OneHolder(g) => OneHolder(Forgiven(g))
      /\ OneHolder(Admitted(g, now, <<kind, m>>))
  BY <1>5 DEF OneHolder
<1> QED  BY <1>2, <1>3, <1>4, <1>6 DEF Lends

\* One operation after another.
LEMMA LendsTwice ==
    ASSUME NEW other, NEW f, NEW g, NEW h, Lends(other, f, g), Lends(other, g, h)
    PROVE  Lends(other, f, h)
BY DEF Lends

\* A slot with one holder, seen from both kinds.
LEMMA SlotParts ==
    ASSUME NEW g \in Gates
    PROVE  g.occupant = HoldOf("ssh", g) \cup HoldOf("job", g)
<1>1. \A o \in Occupants : o[1] = "ssh" \/ o[1] = "job"
  BY DEF Occupants
<1>2. g.occupant \subseteq Occupants
  BY DEF Gates
<1> QED  BY <1>1, <1>2 DEF HoldOf

----------------------------------------------------------------------------
(* How often a person is asked.  A is the set of requests accepted, U that of *)
(* those that ended without an approval and P that of those approved, each as *)
(* the lines a ledger has of them, with an id and a time.                     *)

Timed(A) == \A q \in A : q.id \in Nat /\ q.at \in Nat
Recent(A, now) == {q \in A : q.at + Hour > now}

\* Each request of the last hour is counted at a place of its own.
Counted(A, g, now) ==
    \E f \in [Recent(A, now) -> DOMAIN g.accepted] :
        /\ \A q, r \in Recent(A, now) : f[q] = f[r] => q = r
        /\ \A q \in Recent(A, now) : g.accepted[f[q]] = q.at

\* No hour, less `back`, has more of them than the cap.
Within(A, r, back) == {q \in A : q.at <= r.at /\ q.at + Hour > r.at + back}
Spread(A, back) == \A r \in A : Cardinality(Within(A, r, back)) <= MaxRequestsPerHour

\* What is left of a sequence of times is its end, and what is gone is over.
LEMMA PopParts ==
    ASSUME NEW s \in Seq(Nat), NEW now \in Nat
    PROVE  \E k \in Nat :
               /\ k + Len(PopExpired(s, now)) = Len(s)
               /\ \A i \in 1..Len(PopExpired(s, now)) : PopExpired(s, now)[i] = s[k + i]
               /\ \A i \in 1..k : ~Live(s[i], now)
               /\ k < Len(s) => Live(s[k + 1], now)
<1> DEFINE n == Len(s)
           k == FirstLive(s, now)
<1>1. n \in Nat /\ DOMAIN s = 1..n /\ \A i \in 1..n : s[i] \in Nat
  BY LenProperties
<1>2. CASE \E i \in DOMAIN s : Live(s[i], now)
  <2>1. k \in 1..n /\ Live(s[k], now) /\ \A j \in 1..(k - 1) : ~Live(s[j], now)
    BY <1>1, <1>2, FirstLiveExists
  <2>2. PopExpired(s, now) = SubSeq(s, k, n)
    BY <1>2 DEF PopExpired
  <2> HIDE DEF n, k
  <2>3. k \in Int /\ n \in Int /\ \A i \in k..n : s[i] \in Nat
    BY <1>1, <2>1
  <2>4. /\ Len(SubSeq(s, k, n)) = n - k + 1
        /\ \A i \in 1..(n - k + 1) : SubSeq(s, k, n)[i] = s[k + i - 1]
    BY <2>1, <2>3, SubSeqProperties
  <2>5. k - 1 \in Nat /\ (k - 1) + Len(PopExpired(s, now)) = n
        /\ Len(PopExpired(s, now)) = n - k + 1
    BY <1>1, <2>1, <2>2, <2>4
  <2>6. \A i \in 1..(n - k + 1) : PopExpired(s, now)[i] = s[(k - 1) + i]
    <3> SUFFICES ASSUME NEW i \in 1..(n - k + 1)
                 PROVE  PopExpired(s, now)[i] = s[(k - 1) + i]
      OBVIOUS
    <3>1. k + i - 1 = (k - 1) + i
      BY <2>3
    <3> QED  BY <2>2, <2>4, <3>1
  <2>7. (k - 1) + 1 = k
    BY <2>3
  <2> QED  BY <2>1, <2>5, <2>6, <2>7 DEF n
<1>3. CASE ~ \E i \in DOMAIN s : Live(s[i], now)
  <2>1. PopExpired(s, now) = <<>> /\ Len(PopExpired(s, now)) = 0
    BY <1>3 DEF PopExpired
  <2>2. \A i \in 1..n : ~Live(s[i], now)
    BY <1>1, <1>3
  <2> HIDE DEF n
  <2>3. n + Len(PopExpired(s, now)) = n /\ ~(n < n)
    BY <1>1, <2>1
  <2>4. \A i \in 1..Len(PopExpired(s, now)) : FALSE
    BY <2>1
  <2> QED  BY <1>1, <2>2, <2>3, <2>4 DEF n
<1> QED  BY <1>2, <1>3

\* A tick, by a clock that may be behind, drops none of the last hour.
LEMMA TickCounts ==
    ASSUME NEW g \in Gates, NEW A, Timed(A), NEW now \in Nat, NEW later \in Nat,
           now <= later, NEW at \in Nat, at <= later, Counted(A, g, now)
    PROVE  Counted(A, GateTicked(g, at), later)
<1> DEFINE s == g.accepted
           z == PopExpired(s, at)
           R == Recent(A, now)
           L == Recent(A, later)
<1>1. s \in Seq(Nat) /\ z \in Seq(Nat) /\ GateTicked(g, at).accepted = z
  BY PopExpiredType DEF Gates, GateTicked
<1>2. PICK f \in [R -> DOMAIN s] :
          /\ \A q, r \in R : f[q] = f[r] => q = r
          /\ \A q \in R : s[f[q]] = q.at
  BY DEF Counted
<1>3. /\ DOMAIN s = 1..Len(s) /\ DOMAIN z = 1..Len(z)
      /\ Len(s) \in Nat /\ Len(z) \in Nat
  BY <1>1, LenProperties
<1>4. PICK k \in Nat :
          /\ k + Len(z) = Len(s)
          /\ \A i \in 1..Len(z) : z[i] = s[k + i]
          /\ \A i \in 1..k : ~Live(s[i], at)
  BY <1>1, PopParts
<1>5. L \subseteq R /\ \A q \in L : q.at + Hour > later
  BY GateAssumption DEF Timed, Recent
<1> HIDE DEF s, z, R, L
<1>6. ASSUME NEW q \in L PROVE f[q] \in (k + 1)..Len(s)
  <2>1. q \in R /\ f[q] \in 1..Len(s) /\ s[f[q]] = q.at
    BY <1>2, <1>3, <1>5
  <2>2. Live(s[f[q]], at)
    <3>1. q.at \in Nat /\ Hour \in Nat
      BY <1>5, <2>1, GateAssumption DEF Timed, R, Recent
    <3> QED  BY <1>5, <2>1, <3>1 DEF Live
  <2>3. f[q] \notin 1..k
    BY <1>4, <2>2
  <2> QED  BY <1>3, <2>1, <2>3
<1> DEFINE h == [q \in L |-> f[q] - k]
<1>7. ASSUME NEW q \in L PROVE h[q] \in DOMAIN z /\ z[h[q]] = q.at
  <2>1. f[q] - k \in 1..Len(z) /\ k + (f[q] - k) = f[q]
    BY <1>3, <1>4, <1>6
  <2>2. s[f[q]] = q.at
    BY <1>2, <1>5
  <2> QED  BY <1>3, <1>4, <2>1, <2>2
<1>8. ASSUME NEW q \in L, NEW r \in L, h[q] = h[r] PROVE q = r
  <2>1. f[q] - k = f[r] - k
    BY <1>8
  <2>2. f[q] = f[r]
    BY <1>6, <2>1
  <2> QED  BY <1>2, <1>5, <2>2
<1>9. h \in [L -> DOMAIN z]
  BY <1>7
<1> HIDE DEF h
<1> QED  BY <1>1, <1>7, <1>8, <1>9, Zenon DEF Counted, L

\* A request let in is counted too, and the cap is kept, if the clock that
\* dates it is behind by no more than `back`.
LEMMA AdmitCounts ==
    ASSUME NEW g \in Gates, NEW A, Timed(A), NEW now \in Nat, NEW late \in Nat, NEW back \in Nat,
           NEW o, NEW r, r.at = now, r \notin A, late <= now + back,
           Counted(A, g, late), Spread(A, back), Len(g.accepted) < MaxRequestsPerHour
    PROVE  /\ Counted(A \cup {r}, Admitted(g, now, o), late)
           /\ Spread(A \cup {r}, back)
<1> DEFINE s == g.accepted
           z == Append(s, now)
           R == Recent(A, late)
           N == Recent(A \cup {r}, late)
<1>1. s \in Seq(Nat) /\ Admitted(g, now, o).accepted = z
  BY DEF Gates, Admitted
<1>2. PICK f \in [R -> DOMAIN s] :
          /\ \A q, p \in R : f[q] = f[p] => q = p
          /\ \A q \in R : s[f[q]] = q.at
  BY DEF Counted
<1>3. /\ DOMAIN s = 1..Len(s) /\ DOMAIN z = 1..(Len(s) + 1) /\ Len(s) \in Nat
      /\ \A i \in 1..Len(s) : z[i] = s[i]
      /\ z[Len(s) + 1] = now
  <2>1. z \in Seq(Nat)
    BY <1>1, AppendProperties
  <2> QED  BY <1>1, <2>1, LenProperties, AppendProperties
<1>4. N \subseteq R \cup {r} /\ r \notin R
  BY DEF Recent
<1> DEFINE h == [q \in N |-> IF q = r THEN Len(s) + 1 ELSE f[q]]
<1> HIDE DEF s, z, R, N
<1>5. ASSUME NEW q \in N PROVE h[q] \in DOMAIN z /\ z[h[q]] = q.at
  <2>1. CASE q = r
    BY <1>3, <2>1
  <2>2. CASE q # r
    <3>1. q \in R /\ f[q] \in 1..Len(s) /\ s[f[q]] = q.at
      BY <1>2, <1>3, <1>4, <2>2
    <3>2. f[q] \in 1..(Len(s) + 1)
      BY <1>3, <3>1
    <3> QED  BY <1>3, <2>2, <3>1, <3>2
  <2> QED  BY <2>1, <2>2
<1>6. ASSUME NEW q \in N, NEW p \in N, h[q] = h[p] PROVE q = p
  <2>1. \A x \in R : f[x] \in 1..Len(s)
    BY <1>2, <1>3
  <2>2. \A x \in R : f[x] # Len(s) + 1
    BY <1>3, <2>1
  <2> QED  BY <1>2, <1>4, <1>6, <2>2
<1>7. h \in [N -> DOMAIN z]
  BY <1>5
<1> HIDE DEF h
<1>8. Counted(A \cup {r}, Admitted(g, now, o), late)
  BY <1>1, <1>5, <1>6, <1>7, Zenon DEF Counted, N
<1>9. IsFiniteSet(N) /\ Cardinality(N) <= MaxRequestsPerHour
  <2>1. h \in Injection(N, 1..(Len(s) + 1))
    BY <1>3, <1>6, <1>7 DEF Injection, IsInjective
  <2>2. IsFiniteSet(1..(Len(s) + 1)) /\ Cardinality(1..(Len(s) + 1)) = Len(s) + 1
    BY <1>3, FS_Interval
  <2>3. IsFiniteSet(N) /\ Cardinality(N) <= Len(s) + 1
    BY <2>1, <2>2, FS_Injection
  <2>4. Cardinality(N) \in Nat /\ Len(s) < MaxRequestsPerHour
    BY <2>3, FS_CardinalityType DEF s
  <2> QED  BY <1>3, <2>3, <2>4, GateAssumption
<1>10. ASSUME NEW x \in A \cup {r}
       PROVE  Cardinality(Within(A \cup {r}, x, back)) <= MaxRequestsPerHour
  <2> DEFINE W == Within(A \cup {r}, x, back)
  <2>1. x.at \in Nat /\ Hour \in Nat /\ \A q \in A : q.at \in Nat
    BY GateAssumption DEF Timed
  <2>2. CASE r \in W
    <3>1. now <= x.at
      BY <2>2 DEF Within
    <3>2. ASSUME NEW q \in W PROVE q \in N
      <4>1. q \in A \cup {r} /\ q.at + Hour > x.at + back /\ q.at \in Nat
        BY <2>1 DEF Within
      <4>2. q.at + Hour > late
        BY <2>1, <3>1, <4>1
      <4> QED  BY <4>1, <4>2 DEF N, Recent
    <3> HIDE DEF W
    <3>3. W \subseteq N
      BY <3>2
    <3>4. Cardinality(W) \in Nat /\ Cardinality(N) \in Nat /\ Cardinality(W) <= Cardinality(N)
      BY <1>9, <3>3, FS_Subset, FS_CardinalityType
    <3> QED  BY <1>9, <3>4, GateAssumption DEF W
  <2>3. CASE r \notin W /\ x \in A
    <3>1. W = Within(A, x, back)
      BY <2>3 DEF Within
    <3> QED  BY <2>3, <3>1 DEF Spread
  <2>4. CASE r \notin W /\ x = r
    <3>1. ~(now + Hour > now + back)
      BY <2>4 DEF Within
    <3>2. W = {}
      BY <2>1, <2>4, <3>1 DEF Within
    <3> HIDE DEF W
    <3>3. Cardinality(W) = 0
      BY <3>2, FS_EmptySet
    <3> QED  BY <3>3, GateAssumption DEF W
  <2> QED  BY <2>2, <2>3, <2>4
<1> QED  BY <1>8, <1>10 DEF Spread

\* The times counted are in order, and none is from the future.
Ascending(s, now) ==
    \A i, j \in DOMAIN s : i <= j => s[i] <= s[j] /\ s[j] <= now

LEMMA AscendingLater ==
    ASSUME NEW s \in Seq(Nat), NEW now \in Nat, NEW later \in Nat, now <= later,
           Ascending(s, now)
    PROVE  Ascending(s, later)
<1>1. DOMAIN s = 1..Len(s) /\ \A i \in DOMAIN s : s[i] \in Nat
  BY LenProperties
<1>2. \A i \in DOMAIN s : s[i] <= now
  BY <1>1 DEF Ascending
<1>3. \A i \in DOMAIN s : s[i] <= later
  BY <1>1, <1>2
<1> QED  BY <1>3 DEF Ascending

LEMMA TickAscends ==
    ASSUME NEW s \in Seq(Nat), NEW now \in Nat, NEW later \in Nat, now <= later,
           Ascending(s, now)
    PROVE  Ascending(PopExpired(s, later), later)
<1> DEFINE z == PopExpired(s, later)
<1>1. z \in Seq(Nat)
  BY PopExpiredType
<1>2. PICK k \in Nat : k + Len(z) = Len(s) /\ \A i \in 1..Len(z) : z[i] = s[k + i]
  BY PopParts
<1> HIDE DEF z
<1>3. DOMAIN s = 1..Len(s) /\ DOMAIN z = 1..Len(z) /\ Len(s) \in Nat /\ Len(z) \in Nat
  BY <1>1, LenProperties
<1>4. Ascending(s, later)
  BY AscendingLater
<1>5. ASSUME NEW i \in DOMAIN z, NEW j \in DOMAIN z, i <= j
      PROVE  z[i] <= z[j] /\ z[j] <= later
  <2>1. k + i \in DOMAIN s /\ k + j \in DOMAIN s /\ k + i <= k + j
    BY <1>2, <1>3, <1>5
  <2>2. z[i] = s[k + i] /\ z[j] = s[k + j]
    BY <1>2, <1>3
  <2> QED  BY <1>4, <2>1, <2>2 DEF Ascending
<1> QED  BY <1>5 DEF Ascending, z

LEMMA AdmitAscends ==
    ASSUME NEW s \in Seq(Nat), NEW now \in Nat, Ascending(s, now)
    PROVE  Ascending(Append(s, now), now)
<1> DEFINE z == Append(s, now)
<1>1. z \in Seq(Nat)
  BY AppendProperties
<1>2. /\ DOMAIN s = 1..Len(s) /\ DOMAIN z = 1..(Len(s) + 1) /\ Len(s) \in Nat
      /\ \A i \in 1..Len(s) : z[i] = s[i] /\ s[i] \in Nat
      /\ z[Len(s) + 1] = now
  BY <1>1, LenProperties, AppendProperties
<1> HIDE DEF z
<1>3. \A i \in 1..Len(s) : s[i] <= now
  BY <1>2 DEF Ascending
<1>4. ASSUME NEW i \in DOMAIN z, NEW j \in DOMAIN z, i <= j
      PROVE  z[i] <= z[j] /\ z[j] <= now
  <2>1. CASE j \in 1..Len(s)
    <3>1. i \in 1..Len(s)
      BY <1>2, <1>4, <2>1
    <3> QED  BY <1>2, <1>4, <2>1, <3>1 DEF Ascending
  <2>2. CASE j \notin 1..Len(s)
    <3>1. j = Len(s) + 1
      BY <1>2, <2>2
    <3>2. z[i] <= now
      BY <1>2, <1>3
    <3> QED  BY <1>2, <3>1, <3>2
  <2> QED  BY <2>1, <2>2
<1> QED  BY <1>4 DEF Ascending, z

\* Of times in order, as many are live as are left once the front is popped:
\* Gate::check, which pops nothing, forecasts what Gate::admit then says.
LEMMA ForecastHolds ==
    ASSUME NEW g \in Gates, NEW now \in Nat, NEW t \in Nat, now <= t,
           Ascending(g.accepted, now)
    PROVE  CheckPasses(g, t) <=> Admits(GateTicked(g, t), t)
<1> DEFINE s == g.accepted
           z == PopExpired(s, t)
           live == {i \in DOMAIN s : Live(s[i], t)}
<1>1. s \in Seq(Nat) /\ z \in Seq(Nat)
  BY PopExpiredType DEF Gates
<1>2. DOMAIN s = 1..Len(s) /\ Len(s) \in Nat /\ Len(z) \in Nat
      /\ \A i \in DOMAIN s : s[i] \in Nat
  BY <1>1, LenProperties
<1>3. PICK k \in Nat :
          /\ k + Len(z) = Len(s)
          /\ \A i \in 1..k : ~Live(s[i], t)
          /\ k < Len(s) => Live(s[k + 1], t)
  BY <1>1, PopParts
<1>4. live = (k + 1)..Len(s)
  <2>1. ASSUME NEW i \in live PROVE i \in (k + 1)..Len(s)
    <3>1. i \in 1..Len(s) /\ i \notin 1..k
      BY <1>2, <1>3
    <3> QED  BY <1>2, <3>1
  <2>2. ASSUME NEW i \in (k + 1)..Len(s) PROVE i \in live
    <3>1. k + 1 \in DOMAIN s /\ i \in DOMAIN s /\ k + 1 <= i /\ k < Len(s)
      BY <1>2, <1>3
    <3>2. s[k + 1] + Hour > t /\ s[k + 1] <= s[i]
      BY <1>3, <3>1 DEF Live, Ascending
    <3>3. s[i] \in Nat /\ s[k + 1] \in Nat /\ Hour \in Nat
      BY <1>2, <3>1, GateAssumption
    <3>4. s[i] + Hour > t
      BY <3>2, <3>3
    <3> QED  BY <3>1, <3>4 DEF Live
  <2> QED  BY <2>1, <2>2
<1>5. Cardinality(live) = Len(z)
  <2>1. k + 1 \in Int /\ Len(s) \in Int
    BY <1>2
  <2>2. Cardinality((k + 1)..Len(s)) = IF k + 1 > Len(s) THEN 0 ELSE Len(s) - (k + 1) + 1
    BY <2>1, FS_Interval
  <2> HIDE DEF z, s, live
  <2> QED  BY <1>2, <1>3, <1>4, <2>2
<1>6. /\ GateTicked(g, t).occupant = g.occupant
      /\ GateTicked(g, t).cooldownUntil = g.cooldownUntil
      /\ GateTicked(g, t).accepted = z
  BY DEF GateTicked, Gates
<1> QED  BY <1>5, <1>6 DEF CheckPasses, Admits

----------------------------------------------------------------------------
(* The cooldown.                                                           *)

\* What a row of ends without an approval costs: the row that e ends, the row
\* there is now, and the time until which e forbids another request.
Row(e, U, P) == {f \in U : /\ f.id <= e.id
                           /\ \A a \in P : ~(f.id < a.id /\ a.id < e.id)}
Streak(U, P) == {f \in U : \A a \in P : ~(f.id < a.id)}
RestsUntil(e, U, P) == e.at + Cooldown(Cardinality(Row(e, U, P)))

\* No request was let in before it was allowed, and none will be.
Rested(A, U, P) ==
    \A e \in U, r \in A : r.id > e.id => r.at >= RestsUntil(e, U, P)
Resting(g, now, U, P) ==
    /\ IsFiniteSet(U) /\ Timed(U) /\ Timed(P)
    /\ g.strikes = Cardinality(Streak(U, P))
    /\ \A e \in U : RestsUntil(e, U, P) <= Later(g.cooldownUntil, now)

LEMMA RestIsNat ==
    ASSUME NEW U, IsFiniteSet(U), Timed(U), NEW P, Timed(P), NEW e \in U
    PROVE  RestsUntil(e, U, P) \in Nat /\ RestsUntil(e, U, P) >= e.at
<1>1. e.id \in Nat /\ e.at \in Nat
  BY DEF Timed
<1>2. e \in Row(e, U, P)
  <2>1. \A a \in P : ~(e.id < a.id /\ a.id < e.id)
    BY <1>1 DEF Timed
  <2> QED  BY <1>1, <2>1 DEF Row
<1>3. IsFiniteSet(Row(e, U, P))
  BY FS_Subset DEF Row
<1>4. Cardinality(Row(e, U, P)) \in Nat \ {0}
  BY <1>2, <1>3, FS_EmptySet, FS_CardinalityType
<1>5. Cooldown(Cardinality(Row(e, U, P))) \in Nat
  BY <1>4, CooldownIsNat
<1> HIDE DEF Row
<1> QED  BY <1>1, <1>5 DEF RestsUntil

\* An end without an approval, when all the earlier cooldowns are over: it is
\* one more in a row.
LEMMA StrikeRests ==
    ASSUME NEW g \in Gates, NEW h, NEW now \in Nat, NEW A, Timed(A), NEW U, NEW P, NEW e,
           e.id \in Nat, e.at \in Nat, Resting(g, now, U, P), Rested(A, U, P),
           \A f \in U \cup P : f.id < e.id,
           \A f \in U : RestsUntil(f, U, P) <= e.at,
           \A r \in A : r.id <= e.id,
           h.strikes = g.strikes + 1,
           h.cooldownUntil = e.at + Cooldown(g.strikes + 1)
    PROVE  Resting(h, now, U \cup {e}, P) /\ Rested(A, U \cup {e}, P)
<1> DEFINE V == U \cup {e}
<1>1. IsFiniteSet(U) /\ Timed(U) /\ Timed(P) /\ g.strikes = Cardinality(Streak(U, P))
  BY DEF Resting
<1>2. e \notin U
  BY <1>1 DEF Timed
<1>3. IsFiniteSet(V) /\ Timed(V)
  BY <1>1, FS_AddElement DEF Timed
<1>4. \A f \in U : Row(f, V, P) = Row(f, U, P)
  BY <1>1 DEF Row, Timed
<1>5. /\ Row(e, V, P) = Streak(U, P) \cup {e}
      /\ Streak(V, P) = Streak(U, P) \cup {e}
  <2>1. \A a \in P : a.id < e.id /\ ~(e.id < a.id)
    BY <1>1 DEF Timed
  <2>2. \A f \in U : f.id <= e.id
    BY <1>1 DEF Timed
  <2>3. e.id <= e.id
    OBVIOUS
  <2>4. Row(e, V, P) = Streak(U, P) \cup {e}
    BY <2>1, <2>2, <2>3 DEF Row, Streak
  <2>5. Streak(V, P) = Streak(U, P) \cup {e}
    BY <2>1 DEF Streak
  <2> QED  BY <2>4, <2>5
<1>6. Cardinality(Streak(U, P) \cup {e}) = g.strikes + 1 /\ g.strikes \in Nat
  <2>1. IsFiniteSet(Streak(U, P)) /\ e \notin Streak(U, P)
    BY <1>1, <1>2, FS_Subset DEF Streak
  <2> QED  BY <1>1, <2>1, FS_AddElement DEF Gates
<1> HIDE DEF V
<1>7. RestsUntil(e, V, P) = h.cooldownUntil
  BY <1>5, <1>6 DEF RestsUntil
<1>8. \A f \in U : RestsUntil(f, V, P) = RestsUntil(f, U, P) /\ RestsUntil(f, U, P) \in Nat
  BY <1>1, <1>4, RestIsNat DEF RestsUntil
<1>9. h.cooldownUntil \in Nat /\ e.at <= h.cooldownUntil
  <2>1. e \in V
    BY DEF V
  <2> QED  BY <1>1, <1>3, <1>7, <2>1, RestIsNat
<1>10. Resting(h, now, V, P)
  <2>1. ASSUME NEW f \in V PROVE RestsUntil(f, V, P) <= h.cooldownUntil
    <3>1. CASE f \in U
      BY <1>8, <1>9, <3>1
    <3>2. CASE f = e
      BY <1>7, <1>9, <3>2
    <3> QED  BY <3>1, <3>2 DEF V
  <2>2. \A f \in V : RestsUntil(f, V, P) <= Later(h.cooldownUntil, now)
    <3>1. h.cooldownUntil <= Later(h.cooldownUntil, now) /\ Later(h.cooldownUntil, now) \in Nat
      BY <1>9 DEF Later
    <3>2. \A f \in V : RestsUntil(f, V, P) \in Nat
      BY <1>1, <1>3, RestIsNat
    <3> QED  BY <1>9, <2>1, <3>1, <3>2
  <2> QED  BY <1>1, <1>3, <1>5, <1>6, <2>2 DEF Resting
<1>11. Rested(A, V, P)
  <2>1. \A r \in A : ~(r.id > e.id)
    BY DEF Timed
  <2> QED  BY <1>8, <2>1 DEF Rested, V
<1> QED  BY <1>10, <1>11 DEF V

\* An approval, when all the earlier cooldowns are over, ends the row.
LEMMA ApprovalRests ==
    ASSUME NEW g \in Gates, NEW h, NEW now \in Nat, NEW A, NEW U, NEW P, NEW a,
           a.id \in Nat, a.at \in Nat, Resting(g, now, U, P), Rested(A, U, P),
           \A f \in U : f.id < a.id,
           \A f \in U : RestsUntil(f, U, P) <= now,
           h.strikes = 0, h.cooldownUntil = 0
    PROVE  Resting(h, now, U, P \cup {a}) /\ Rested(A, U, P \cup {a})
<1> DEFINE Q == P \cup {a}
<1>1. IsFiniteSet(U) /\ Timed(U) /\ Timed(Q)
  BY DEF Resting, Timed
<1>2. \A f \in U : Row(f, U, Q) = Row(f, U, P)
  BY <1>1 DEF Row, Timed
<1>3. \A f \in U : RestsUntil(f, U, Q) = RestsUntil(f, U, P)
  BY <1>2 DEF RestsUntil
<1>4. Streak(U, Q) = {}
  BY DEF Streak
<1> HIDE DEF Q
<1>5. Later(h.cooldownUntil, now) = now
  BY DEF Later
<1>6. Resting(h, now, U, Q)
  BY <1>1, <1>3, <1>4, <1>5, FS_EmptySet DEF Resting
<1>7. Rested(A, U, Q)
  BY <1>3 DEF Rested
<1> QED  BY <1>6, <1>7 DEF Q

\* A request is let in once the cooldown is over.
LEMMA AdmitRests ==
    ASSUME NEW g \in Gates, NEW now \in Nat, NEW A, NEW U, NEW P, NEW r, r.at = now,
           Resting(g, now, U, P), Rested(A, U, P), g.cooldownUntil <= now
    PROVE  Rested(A \cup {r}, U, P)
<1>1. Later(g.cooldownUntil, now) = now
  BY DEF Later, Gates
<1>2. \A e \in U : r.at >= RestsUntil(e, U, P)
  <2>1. \A e \in U : RestsUntil(e, U, P) <= now /\ RestsUntil(e, U, P) \in Nat
    BY <1>1, RestIsNat DEF Resting
  <2> QED  BY <2>1
<1> QED  BY <1>2 DEF Rested

\* What is forbidden until then is forbidden no longer later.
LEMMA RestingLater ==
    ASSUME NEW g \in Gates, NEW h, NEW now \in Nat, NEW later \in Nat, now <= later,
           NEW U, NEW P, Resting(g, now, U, P),
           h.strikes = g.strikes, h.cooldownUntil = g.cooldownUntil
    PROVE  Resting(h, later, U, P)
<1>1. /\ Later(g.cooldownUntil, now) <= Later(g.cooldownUntil, later)
      /\ Later(g.cooldownUntil, now) \in Nat /\ Later(g.cooldownUntil, later) \in Nat
  BY DEF Later, Gates
<1>2. \A e \in U : RestsUntil(e, U, P) \in Nat /\ RestsUntil(e, U, P) <= Later(g.cooldownUntil, now)
  BY RestIsNat DEF Resting
<1>3. \A e \in U : RestsUntil(e, U, P) <= Later(g.cooldownUntil, later)
  BY <1>1, <1>2
<1> QED  BY <1>3 DEF Resting

----------------------------------------------------------------------------
(* What a gate keeps of the requests it has let in and of how they ended.  *)
Limited(now, g, A, U, P) ==
    /\ g \in Gates /\ Timed(A)
    /\ Ascending(g.accepted, now)
    /\ Counted(A, g, now) /\ Spread(A, 0)
    /\ Resting(g, now, U, P) /\ Rested(A, U, P)
    /\ \A r \in A : r.at <= now

\* The parts of a gate that an operation leaves alone.
LEMMA GateParts ==
    ASSUME NEW g \in Gates, NEW now \in Nat, NEW o
    PROVE  /\ GateTicked(g, now).accepted = PopExpired(g.accepted, now)
           /\ GateTicked(g, now).strikes = g.strikes
           /\ GateTicked(g, now).cooldownUntil = g.cooldownUntil
           /\ Released(g, o).accepted = g.accepted
           /\ Released(g, o).strikes = g.strikes
           /\ Released(g, o).cooldownUntil = g.cooldownUntil
           /\ StruckAt(g, now).accepted = g.accepted
           /\ StruckAt(g, now).strikes = g.strikes + 1
           /\ StruckAt(g, now).cooldownUntil = now + Cooldown(g.strikes + 1)
           /\ Forgiven(g).accepted = g.accepted
           /\ Forgiven(g).strikes = 0
           /\ Forgiven(g).cooldownUntil = 0
           /\ Admitted(g, now, o).accepted = Append(g.accepted, now)
           /\ Admitted(g, now, o).strikes = g.strikes
           /\ Admitted(g, now, o).cooldownUntil = g.cooldownUntil
BY Zenon DEF Gates, GateTicked, Released, StruckAt, Forgiven, Admitted

\* The same of one operation each, as it ends a request.
LEMMA ReleasedParts ==
    ASSUME NEW g \in Gates, NEW o \in Occupants
    PROVE  /\ Released(g, o) \in Gates /\ Released(g, o).occupant = g.occupant \ {o}
           /\ Released(g, o).accepted = g.accepted
           /\ Released(g, o).strikes = g.strikes
           /\ Released(g, o).cooldownUntil = g.cooldownUntil
<1>1. 0 \in Nat
  OBVIOUS
<1> QED  BY <1>1, GateOps, GateParts
LEMMA StruckParts ==
    ASSUME NEW g \in Gates, NEW now \in Nat
    PROVE  /\ StruckAt(g, now) \in Gates /\ StruckAt(g, now).occupant = g.occupant
           /\ StruckAt(g, now).accepted = g.accepted
           /\ StruckAt(g, now).strikes = g.strikes + 1
           /\ StruckAt(g, now).cooldownUntil = now + Cooldown(g.strikes + 1)
<1>1. <<"ssh", 0>> \in Occupants
  BY DEF Occupants
<1> QED  BY <1>1, GateOps, GateParts
LEMMA ForgivenParts ==
    ASSUME NEW g \in Gates
    PROVE  /\ Forgiven(g) \in Gates /\ Forgiven(g).occupant = g.occupant
           /\ Forgiven(g).accepted = g.accepted /\ Forgiven(g).strikes = 0
           /\ Forgiven(g).cooldownUntil = 0
<1>1. <<"ssh", 0>> \in Occupants /\ 0 \in Nat
  BY DEF Occupants
<1> QED  BY <1>1, GateOps, GateParts

LEMMA CountedSame ==
    ASSUME NEW g, NEW h, NEW A, NEW now, Counted(A, g, now), h.accepted = g.accepted
    PROVE  Counted(A, h, now)
BY DEF Counted

LEMMA LimitedTick ==
    ASSUME NEW g, NEW now \in Nat, NEW later \in Nat, now <= later,
           NEW A, NEW U, NEW P, Limited(now, g, A, U, P)
    PROVE  Limited(later, GateTicked(g, later), A, U, P)
<1> DEFINE h == GateTicked(g, later)
<1>1. g \in Gates /\ Timed(A) /\ g.accepted \in Seq(Nat)
  BY DEF Limited, Gates
<1>2. h \in Gates
  <2>1. <<"ssh", 0>> \in Occupants
    BY DEF Occupants
  <2> QED  BY <1>1, <2>1, GateOps
<1>3. /\ h.accepted = PopExpired(g.accepted, later)
      /\ h.strikes = g.strikes /\ h.cooldownUntil = g.cooldownUntil
  BY <1>1, GateParts
<1>4. Ascending(h.accepted, later)
  BY <1>1, <1>3, TickAscends DEF Limited
<1>5. Counted(A, h, later)
  <2>1. later <= later
    OBVIOUS
  <2> QED  BY <1>1, <2>1, TickCounts DEF Limited
<1>6. Resting(h, later, U, P)
  BY <1>1, <1>3, RestingLater DEF Limited
<1>7. \A r \in A : r.at <= later
  BY DEF Limited, Timed
<1> QED  BY <1>1, <1>2, <1>4, <1>5, <1>6, <1>7 DEF Limited

LEMMA LimitedAdmit ==
    ASSUME NEW g, NEW now \in Nat, NEW A, NEW U, NEW P, Limited(now, g, A, U, P),
           NEW o \in Occupants, Admits(g, now),
           NEW r, r.id \in Nat, r.at = now, r \notin A
    PROVE  Limited(now, Admitted(g, now, o), A \cup {r}, U, P)
<1> DEFINE h == Admitted(g, now, o)
<1>1. g \in Gates /\ Timed(A) /\ g.accepted \in Seq(Nat)
  BY DEF Limited, Gates
<1>2. h \in Gates
  BY <1>1, GateOps
<1>3. /\ h.accepted = Append(g.accepted, now)
      /\ h.strikes = g.strikes /\ h.cooldownUntil = g.cooldownUntil
  BY <1>1, GateParts
<1>4. Len(g.accepted) < MaxRequestsPerHour /\ g.cooldownUntil <= now
  BY DEF Admits
<1>5. Ascending(h.accepted, now)
  BY <1>1, <1>3, AdmitAscends DEF Limited
<1>6. Counted(A \cup {r}, h, now) /\ Spread(A \cup {r}, 0)
  <2>1. now <= now + 0
    OBVIOUS
  <2> QED  BY <1>1, <1>4, <2>1, AdmitCounts DEF Limited
<1>7. Resting(h, now, U, P)
  <2>1. now <= now
    OBVIOUS
  <2> QED  BY <1>1, <1>3, <2>1, RestingLater DEF Limited
<1>8. Rested(A \cup {r}, U, P)
  BY <1>1, <1>4, AdmitRests DEF Limited
<1>9. Timed(A \cup {r}) /\ \A q \in A \cup {r} : q.at <= now
  BY <1>1 DEF Limited, Timed
<1> QED  BY <1>2, <1>5, <1>6, <1>7, <1>8, <1>9 DEF Limited

\* The cooldowns before a request was let in are over by then.
LEMMA RestIsOver ==
    ASSUME NEW A, Timed(A), NEW U, IsFiniteSet(U), Timed(U), NEW P, Timed(P),
           Rested(A, U, P), NEW r \in A, NEW n \in Nat, r.at <= n,
           \A f \in U : f.id < r.id
    PROVE  \A f \in U : RestsUntil(f, U, P) <= n
<1> SUFFICES ASSUME NEW f \in U PROVE RestsUntil(f, U, P) <= n
  OBVIOUS
<1>1. r.at \in Nat /\ r.id \in Nat /\ f.id \in Nat /\ RestsUntil(f, U, P) \in Nat
  BY RestIsNat DEF Timed
<1>2. r.at >= RestsUntil(f, U, P)
  BY <1>1 DEF Rested
<1> QED  BY <1>1, <1>2

LEMMA LimitedStrike ==
    ASSUME NEW g, NEW now \in Nat, NEW A, NEW U, NEW P, Limited(now, g, A, U, P),
           NEW o \in Occupants, NEW r \in A, NEW e, e.id = r.id, e.at \in Nat, r.at <= e.at,
           \A q \in A : q.id <= r.id, \A f \in U \cup P : f.id < r.id
    PROVE  Limited(now, StruckAt(Released(g, o), e.at), A, U \cup {e}, P)
<1> DEFINE f == Released(g, o)
           h == StruckAt(f, e.at)
<1>1. g \in Gates /\ Timed(A) /\ r.id \in Nat /\ IsFiniteSet(U) /\ Timed(U) /\ Timed(P)
  BY DEF Limited, Resting, Timed
<1>2. f \in Gates /\ h \in Gates
  <2>1. f \in Gates
    BY <1>1, GateOps
  <2> HIDE DEF f
  <2> QED  BY <2>1, GateOps
<1>3. /\ f.accepted = g.accepted /\ f.strikes = g.strikes
      /\ f.cooldownUntil = g.cooldownUntil
  BY <1>1, GateParts
<1>4. /\ h.accepted = f.accepted /\ h.strikes = f.strikes + 1
      /\ h.cooldownUntil = e.at + Cooldown(f.strikes + 1)
  <2> HIDE DEF f
  <2> QED  BY <1>2, GateParts
<1> HIDE DEF f, h
<1>5. Ascending(h.accepted, now) /\ Counted(A, h, now)
  BY <1>3, <1>4, CountedSame DEF Limited
<1>6. \A x \in U : RestsUntil(x, U, P) <= e.at
  BY <1>1, RestIsOver DEF Limited
<1>7. Resting(h, now, U \cup {e}, P) /\ Rested(A, U \cup {e}, P)
  <2>1. /\ h.strikes = g.strikes + 1
        /\ h.cooldownUntil = e.at + Cooldown(g.strikes + 1)
    BY <1>3, <1>4
  <2> QED  BY <1>1, <1>6, <2>1, StrikeRests DEF Limited
<1> QED  BY <1>1, <1>2, <1>5, <1>7 DEF Limited, h, f

LEMMA LimitedApprove ==
    ASSUME NEW g, NEW now \in Nat, NEW A, NEW U, NEW P, Limited(now, g, A, U, P),
           NEW o \in Occupants, NEW r \in A, NEW a, a.id = r.id, a.at \in Nat,
           \A f \in U : f.id < r.id
    PROVE  Limited(now, Forgiven(Released(g, o)), A, U, P \cup {a})
<1> DEFINE f == Released(g, o)
           h == Forgiven(f)
<1>1. /\ g \in Gates /\ Timed(A) /\ r.id \in Nat /\ r.at <= now
      /\ IsFiniteSet(U) /\ Timed(U) /\ Timed(P)
  BY DEF Limited, Resting, Timed
<1>2. f \in Gates /\ h \in Gates
  <2>1. f \in Gates
    BY <1>1, GateOps
  <2> HIDE DEF f
  <2> QED  BY <2>1, GateOps
<1>3. f.accepted = g.accepted
  BY <1>1, GateParts
<1>4. h.accepted = f.accepted /\ h.strikes = 0 /\ h.cooldownUntil = 0
  <2> HIDE DEF f
  <2> QED  BY <1>2, GateParts
<1> HIDE DEF f, h
<1>5. Ascending(h.accepted, now) /\ Counted(A, h, now)
  BY <1>3, <1>4, CountedSame DEF Limited
<1>6. \A x \in U : RestsUntil(x, U, P) <= now
  BY <1>1, RestIsOver DEF Limited
<1>7. Resting(h, now, U, P \cup {a}) /\ Rested(A, U, P \cup {a})
  BY <1>1, <1>4, <1>6, ApprovalRests DEF Limited
<1> QED  BY <1>1, <1>2, <1>5, <1>7 DEF Limited, h, f

----------------------------------------------------------------------------
(* One gate, two clocks: what is asked of it may be dated by a clock that is  *)
(* behind the one it was last used by.                                        *)

\* Of a row that goes on, the cooldowns are over when the gate's own is.
Running(g, U, P) ==
    /\ IsFiniteSet(U) /\ Timed(U) /\ Timed(P)
    /\ g.strikes = Cardinality(Streak(U, P))
    /\ \A e \in Streak(U, P) : RestsUntil(e, U, P) <= g.cooldownUntil
\* A request was let in once the cooldown was over, or a request was approved.
WaitedOut(A, U, P) ==
    \A e \in U, r \in A :
        r.id > e.id => \/ \E a \in P : e.id < a.id /\ a.id < r.id
                       \/ r.at >= RestsUntil(e, U, P)

\* What a gate keeps of the requests it has let in and how they ended, at the
\* latest time `late` of any clock, when one may be behind by `back`.
Metered(late, back, g, A, U, P) ==
    /\ g \in Gates /\ Timed(A)
    /\ Counted(A, g, late) /\ Spread(A, back)
    /\ Running(g, U, P) /\ WaitedOut(A, U, P)
    /\ \A o \in g.occupant, r \in A : r.id <= o[2]
    /\ \A e \in U \cup P : \E r \in A : r.id = e.id

\* The gate forgets nothing: its slot may have come free.
LEMMA MeteredSame ==
    ASSUME NEW late, NEW back, NEW g, NEW A, NEW U, NEW P, Metered(late, back, g, A, U, P),
           NEW h \in Gates, h.accepted = g.accepted, h.strikes = g.strikes,
           h.cooldownUntil = g.cooldownUntil, h.occupant \subseteq g.occupant
    PROVE  Metered(late, back, h, A, U, P)
<1>1. Counted(A, h, late)
  BY CountedSame DEF Metered
<1>2. Running(h, U, P)
  BY DEF Metered, Running
<1>3. \A o \in h.occupant, r \in A : r.id <= o[2]
  BY DEF Metered
<1> QED  BY <1>1, <1>2, <1>3 DEF Metered

LEMMA MeteredLater ==
    ASSUME NEW late \in Nat, NEW later \in Nat, late <= later, NEW back, NEW g, NEW A, NEW U,
           NEW P, Metered(late, back, g, A, U, P)
    PROVE  Metered(later, back, g, A, U, P)
<1>1. Timed(A) /\ Hour \in Nat
  BY GateAssumption DEF Metered
<1>2. Recent(A, later) \subseteq Recent(A, late)
  BY <1>1 DEF Recent, Timed
<1>3. PICK f \in [Recent(A, late) -> DOMAIN g.accepted] :
          /\ \A q, r \in Recent(A, late) : f[q] = f[r] => q = r
          /\ \A q \in Recent(A, late) : g.accepted[f[q]] = q.at
  BY DEF Metered, Counted
<1> DEFINE h == [q \in Recent(A, later) |-> f[q]]
<1>4. h \in [Recent(A, later) -> DOMAIN g.accepted]
  BY <1>2, <1>3
<1>5. \A q \in Recent(A, later) : h[q] = f[q]
  OBVIOUS
<1> HIDE DEF h
<1>6. /\ \A q, r \in Recent(A, later) : h[q] = h[r] => q = r
      /\ \A q \in Recent(A, later) : g.accepted[h[q]] = q.at
  BY <1>2, <1>3, <1>5
<1>7. Counted(A, g, later)
  BY <1>4, <1>6, Zenon DEF Counted
<1> QED  BY <1>7 DEF Metered

LEMMA MeteredTick ==
    ASSUME NEW late \in Nat, NEW now \in Nat, now <= late, NEW back, NEW g, NEW A, NEW U, NEW P,
           Metered(late, back, g, A, U, P)
    PROVE  Metered(late, back, GateTicked(g, now), A, U, P)
<1> DEFINE h == GateTicked(g, now)
<1>1. g \in Gates /\ Timed(A)
  BY DEF Metered
<1>2. <<"ssh", 0>> \in Occupants
  BY DEF Occupants
<1>3. /\ h \in Gates /\ h.occupant = g.occupant
      /\ h.strikes = g.strikes /\ h.cooldownUntil = g.cooldownUntil
  BY <1>1, <1>2, GateOps, GateParts
<1>4. Counted(A, h, late)
  <2>1. late <= late
    OBVIOUS
  <2> QED  BY <1>1, <2>1, TickCounts DEF Metered
<1> HIDE DEF h
<1>5. Running(h, U, P)
  BY <1>3 DEF Metered, Running
<1> QED  BY <1>3, <1>4, <1>5 DEF Metered, h

\* A request is let in, under an id that is new.
LEMMA MeteredAdmit ==
    ASSUME NEW late \in Nat, NEW now \in Nat, NEW back \in Nat, late <= now + back,
           NEW g, NEW A, NEW U, NEW P, Metered(late, back, g, A, U, P),
           NEW o \in Occupants, Admits(g, now),
           NEW r, r.id = o[2], r.at = now, \A q \in A : q.id < r.id
    PROVE  Metered(late, back, Admitted(g, now, o), A \cup {r}, U, P)
<1> DEFINE h == Admitted(g, now, o)
           B == A \cup {r}
<1>1. g \in Gates /\ Timed(A) /\ r.id \in Nat
  BY DEF Metered, Occupants
<1>2. /\ h \in Gates /\ h.occupant = {o}
      /\ h.strikes = g.strikes /\ h.cooldownUntil = g.cooldownUntil
  BY <1>1, GateOps, GateParts
<1>3. r \notin A
  BY <1>1 DEF Timed
<1>4. Counted(B, h, late) /\ Spread(B, back)
  BY <1>1, <1>3, AdmitCounts DEF Metered, Admits
<1> HIDE DEF h
<1>5. Running(h, U, P)
  BY <1>2 DEF Metered, Running
<1>6. IsFiniteSet(U) /\ Timed(U) /\ Timed(P)
  BY DEF Metered, Running
<1>7. \A e \in U \cup P : e.id \in Nat /\ e.id < r.id
  <2> TAKE e \in U \cup P
  <2>1. PICK q \in A : q.id = e.id
    BY DEF Metered
  <2> QED  BY <1>1, <2>1 DEF Timed
<1>8. ASSUME NEW e \in U
      PROVE  \/ \E a \in P : e.id < a.id /\ a.id < r.id
             \/ r.at >= RestsUntil(e, U, P)
  <2>1. CASE e \in Streak(U, P)
    <3>1. RestsUntil(e, U, P) <= g.cooldownUntil /\ RestsUntil(e, U, P) \in Nat
      BY <1>6, <2>1, RestIsNat DEF Metered, Running
    <3>2. g.cooldownUntil <= now /\ g.cooldownUntil \in Nat
      BY <1>1 DEF Admits, Gates
    <3> QED  BY <3>1, <3>2
  <2>2. CASE e \notin Streak(U, P)
    BY <1>7, <2>2 DEF Streak
  <2> QED  BY <2>1, <2>2
<1>9. WaitedOut(B, U, P)
  <2>1. WaitedOut(A, U, P)
    BY DEF Metered
  <2> QED  BY <1>8, <2>1 DEF WaitedOut
<1>10. \A x \in h.occupant, q \in B : q.id <= x[2]
  <2>1. \A q \in A : q.id <= r.id /\ r.id <= r.id
    BY <1>1 DEF Timed
  <2>2. \A x \in h.occupant : x[2] = r.id
    BY <1>2
  <2>3. r.id <= r.id
    BY <1>1
  <2> HIDE DEF B
  <2> QED  BY <2>1, <2>2, <2>3 DEF B
<1>11. Timed(B) /\ \A e \in U \cup P : \E q \in B : q.id = e.id
  BY <1>1 DEF Metered, Timed
<1> QED  BY <1>2, <1>4, <1>5, <1>9, <1>10, <1>11 DEF Metered, h

\* The ends that came before the one who holds the slot, and what they cost.
LEMMA BeforeHolder ==
    ASSUME NEW late, NEW back, NEW g, NEW A, NEW U, NEW P, Metered(late, back, g, A, U, P),
           NEW o \in g.occupant, NEW r \in A, r.id = o[2],
           \A e \in U \cup P : e.id # o[2]
    PROVE  /\ \A e \in U \cup P : e.id \in Nat /\ e.id < r.id
           /\ r.id \in Nat /\ r.at \in Nat
           /\ \A q \in A : q.id <= r.id
           /\ \A e \in Streak(U, P) : RestsUntil(e, U, P) <= r.at
<1>1. Timed(A) /\ IsFiniteSet(U) /\ Timed(U) /\ Timed(P)
  BY DEF Metered, Running
<1>2. r.id \in Nat /\ r.at \in Nat /\ \A q \in A : q.id <= r.id
  BY <1>1 DEF Metered, Timed
<1>3. \A e \in U \cup P : e.id \in Nat /\ e.id < r.id
  <2> TAKE e \in U \cup P
  <2>1. PICK q \in A : q.id = e.id
    BY DEF Metered
  <2>2. q.id <= r.id /\ q.id # r.id /\ q.id \in Nat
    BY <1>1, <1>2, <2>1 DEF Timed
  <2> QED  BY <1>2, <2>1, <2>2
<1>4. ASSUME NEW e \in Streak(U, P) PROVE RestsUntil(e, U, P) <= r.at
  <2>1. e \in U /\ \A a \in P : ~(e.id < a.id)
    BY DEF Streak
  <2>2. r.id > e.id
    BY <1>2, <1>3, <2>1
  <2>3. r.at >= RestsUntil(e, U, P)
    BY <2>1, <2>2 DEF Metered, WaitedOut
  <2> QED  BY <1>1, <1>2, <2>1, <2>3, RestIsNat
<1> QED  BY <1>2, <1>3, <1>4

\* Who holds the slot ends without an approval, and may give the slot up.
LEMMA MeteredStrike ==
    ASSUME NEW late, NEW back, NEW g, NEW A, NEW U, NEW P, Metered(late, back, g, A, U, P),
           NEW o \in g.occupant, NEW r \in A, r.id = o[2],
           \A e \in U \cup P : e.id # o[2],
           NEW e, e.id = o[2], e.at \in Nat, r.at <= e.at,
           NEW h \in Gates, h.accepted = g.accepted, h.strikes = g.strikes + 1,
           h.cooldownUntil = e.at + Cooldown(g.strikes + 1), h.occupant \subseteq g.occupant
    PROVE  Metered(late, back, h, A, U \cup {e}, P)
<1> DEFINE V == U \cup {e}
<1>1. /\ IsFiniteSet(U) /\ Timed(U) /\ Timed(P) /\ g.strikes = Cardinality(Streak(U, P))
      /\ g.strikes \in Nat
  BY DEF Metered, Running, Gates
<1>2. /\ \A f \in U \cup P : f.id \in Nat /\ f.id < e.id
      /\ e.id \in Nat /\ r.at \in Nat
      /\ \A q \in A : q.id <= e.id
      /\ \A f \in Streak(U, P) : RestsUntil(f, U, P) <= r.at
  BY BeforeHolder
<1>3. e \notin U /\ IsFiniteSet(V) /\ Timed(V)
  BY <1>1, <1>2, FS_AddElement DEF Timed
<1>4. \A f \in U : Row(f, V, P) = Row(f, U, P)
  BY <1>1, <1>2 DEF Row, Timed
<1>5. /\ Row(e, V, P) = Streak(U, P) \cup {e}
      /\ Streak(V, P) = Streak(U, P) \cup {e}
  <2>1. \A a \in P : a.id < e.id /\ ~(e.id < a.id)
    BY <1>2
  <2>2. (\A f \in U : f.id <= e.id) /\ e.id <= e.id
    BY <1>2
  <2>3. Row(e, V, P) = Streak(U, P) \cup {e}
    BY <2>1, <2>2 DEF Row, Streak
  <2>4. Streak(V, P) = Streak(U, P) \cup {e}
    BY <2>1 DEF Streak
  <2> QED  BY <2>3, <2>4
<1>6. Cardinality(Streak(U, P) \cup {e}) = g.strikes + 1
  <2>1. IsFiniteSet(Streak(U, P)) /\ e \notin Streak(U, P)
    BY <1>1, <1>3, FS_Subset DEF Streak
  <2> DEFINE S == Streak(U, P)
  <2> HIDE DEF S
  <2>2. Cardinality(S \cup {e}) = Cardinality(S) + 1
    BY <2>1, FS_AddElement DEF S
  <2> QED  BY <1>1, <2>2 DEF S
<1>7. e \in V
  OBVIOUS
<1> HIDE DEF V
<1>8. RestsUntil(e, V, P) = h.cooldownUntil /\ h.cooldownUntil \in Nat /\ e.at <= h.cooldownUntil
  <2>1. RestsUntil(e, V, P) = h.cooldownUntil
    BY <1>5, <1>6 DEF RestsUntil
  <2> QED  BY <1>1, <1>3, <1>7, <2>1, RestIsNat
<1>9. \A f \in U : RestsUntil(f, V, P) = RestsUntil(f, U, P) /\ RestsUntil(f, U, P) \in Nat
  BY <1>1, <1>4, RestIsNat DEF RestsUntil
<1>10. \A f \in Streak(V, P) : RestsUntil(f, V, P) <= h.cooldownUntil
  <2> SUFFICES ASSUME NEW f \in Streak(V, P)
               PROVE  RestsUntil(f, V, P) <= h.cooldownUntil
    OBVIOUS
  <2>1. CASE f = e
    BY <1>8, <2>1
  <2>2. CASE f # e
    <3>1. f \in Streak(U, P) /\ f \in U
      BY <1>5, <2>2 DEF Streak
    <3>2. RestsUntil(f, U, P) <= r.at
      BY <1>2, <3>1
    <3> QED  BY <1>2, <1>8, <1>9, <3>1, <3>2
  <2> QED  BY <2>1, <2>2
<1>11. Running(h, V, P)
  BY <1>1, <1>3, <1>5, <1>6, <1>10 DEF Running
<1>12. WaitedOut(A, V, P)
  <2>1. \A q \in A : ~(q.id > e.id)
    BY <1>2 DEF Metered, Timed
  <2>2. WaitedOut(A, U, P)
    BY DEF Metered
  <2> QED  BY <1>9, <2>1, <2>2 DEF WaitedOut, V
<1>13. Counted(A, h, late)
  BY CountedSame DEF Metered
<1>14. \A f \in V \cup P : \E q \in A : q.id = f.id
  BY DEF Metered, V
<1>15. \A x \in h.occupant, q \in A : q.id <= x[2]
  BY DEF Metered
<1> QED  BY <1>11, <1>12, <1>13, <1>14, <1>15 DEF Metered, V

\* Who holds the slot is approved, and gives the slot up.
LEMMA MeteredApprove ==
    ASSUME NEW late, NEW back, NEW g, NEW A, NEW U, NEW P, Metered(late, back, g, A, U, P),
           NEW o \in g.occupant, NEW r \in A, r.id = o[2],
           \A e \in U \cup P : e.id # o[2],
           NEW a, a.id = o[2], a.at \in Nat,
           NEW h \in Gates, h.accepted = g.accepted, h.strikes = 0,
           h.cooldownUntil = 0, h.occupant \subseteq g.occupant
    PROVE  Metered(late, back, h, A, U, P \cup {a})
<1> DEFINE Q == P \cup {a}
<1>1. IsFiniteSet(U) /\ Timed(U) /\ Timed(P)
  BY DEF Metered, Running
<1>2. /\ \A f \in U \cup P : f.id \in Nat /\ f.id < a.id
      /\ a.id \in Nat
      /\ \A q \in A : q.id <= a.id
  BY BeforeHolder
<1>3. Timed(Q)
  BY <1>1, <1>2 DEF Timed
<1>4. \A f \in U : Row(f, U, Q) = Row(f, U, P)
  BY <1>1, <1>2 DEF Row, Timed
<1>5. \A f \in U : RestsUntil(f, U, Q) = RestsUntil(f, U, P)
  BY <1>4 DEF RestsUntil
<1>6. Streak(U, Q) = {}
  BY <1>2 DEF Streak
<1> HIDE DEF Q
<1>7. Running(h, U, Q)
  BY <1>1, <1>3, <1>6, FS_EmptySet DEF Running
<1>8. WaitedOut(A, U, Q)
  <2>1. WaitedOut(A, U, P)
    BY DEF Metered
  <2> QED  BY <1>5, <2>1 DEF WaitedOut, Q
<1>9. Counted(A, h, late)
  BY CountedSame DEF Metered
<1>10. \A f \in U \cup Q : \E q \in A : q.id = f.id
  BY DEF Metered, Q
<1>11. \A x \in h.occupant, q \in A : q.id <= x[2]
  BY DEF Metered
<1> QED  BY <1>7, <1>8, <1>9, <1>10, <1>11 DEF Metered, Q
=============================================================================
