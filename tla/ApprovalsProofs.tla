-------------------------- MODULE ApprovalsProofs --------------------------
(***************************************************************************)
(* What follows from Approvals alone, and so holds of whatever implements  *)
(* it.                                                                     *)
(***************************************************************************)
EXTENDS Approvals, TLAPS

AskedOnce ==
    /\ \A p, q \in open : p = q
    /\ \A q \in open \cup granted : q.id \in past
    /\ \A q \in open, p \in granted : q.id # p.id
    /\ \A p, q \in granted : p.id = q.id => p = q

\* What is used was asked and answered, and what is used up is not granted.
UsesWereGranted ==
    /\ \A u \in uses : u.id \in past
    /\ \A q \in open, u \in uses : u.id # q.id
    /\ \A q \in granted, u \in uses : Once(q.scope) => u.id # q.id

UsedOnce == \A u, v \in uses : u.id = v.id => u = v

Sound == AskedOnce /\ UsesWereGranted

LEMMA InitSound == Init => Sound /\ UsedOnce
BY DEF Init, Sound, AskedOnce, UsesWereGranted, UsedOnce

\* A question that is asked is new; one that is granted is no longer asked; one
\* that is used up is no longer granted.
LEMMA NextSound == Sound /\ [Next]_vars => Sound'
<1> SUFFICES ASSUME Sound, [Next]_vars PROVE Sound'
  OBVIOUS
<1> USE DEF Sound, AskedOnce, UsesWereGranted
<1>1. CASE Lapse
  BY <1>1 DEF Lapse
<1>2. CASE Ask
  BY <1>2 DEF Ask
<1>3. CASE Grant
  <2> PICK q \in open : granted' \subseteq granted \cup {q}
    BY <1>3 DEF Grant
  <2> QED
    BY <1>3 DEF Grant
<1>4. CASE Use
  <2> PICK q \in granted, u \in uses' :
         /\ u.id = q.id /\ uses' = uses \cup {u}
         /\ granted' \subseteq IF Once(q.scope) THEN granted \ {q} ELSE granted
    BY <1>4 DEF Use
  <2> QED
    BY <1>4 DEF Use
<1>5. CASE UNCHANGED vars
  BY <1>5 DEF vars
<1> QED
  BY <1>1, <1>2, <1>3, <1>4, <1>5 DEF Next

\* One question is open at a time, no id is asked of twice, and a use is of an
\* id that was asked, of which nothing is open any more and, if one use is all
\* it had, nothing is granted any more.
THEOREM ApprovalsSound == Spec => []Sound
BY InitSound, NextSound, PTL DEF Spec

\* Where one use is all a grant has, no id is used twice: a claim cannot be
\* repeated, however grants lapse and questions follow one another.
THEOREM OnceIsOnce ==
    ASSUME \A scope : Once(scope)
    PROVE  Spec => []UsedOnce
<1>1. ASSUME Sound, UsedOnce, [Next]_vars
      PROVE  UsedOnce'
  <2>1. CASE Use
    <3> PICK q \in granted, u \in uses' : u.id = q.id /\ uses' = uses \cup {u}
      BY <2>1 DEF Use
    <3> \A v \in uses : v.id # u.id
      BY <1>1 DEF Sound, UsesWereGranted
    <3> QED
      BY <1>1 DEF UsedOnce
  <2>2. CASE UNCHANGED uses
    BY <1>1, <2>2 DEF UsedOnce
  <2> QED
    BY <1>1, <2>1, <2>2 DEF Next, Ask, Grant, Lapse, vars
<1> QED
  BY <1>1, InitSound, ApprovalsSound, PTL DEF Spec
============================================================================
