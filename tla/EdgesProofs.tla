----------------------------- MODULE EdgesProofs -----------------------------
(***************************************************************************)
(* Proofs about four parts at the daemon's edges: the requests of a runner *)
(* (RunnerAuth), for every set of requests, skew and TTL; the devices,     *)
(* codes and push tokens of the approvers (Enroll), for any number of      *)
(* names, crashes and failed writes; the diff an approver reads (Review),  *)
(* for every archive and baseline; and what is shown and applied of a job  *)
(* (Presented), for all schemas, manifests, plans and reviews.             *)
(***************************************************************************)
EXTENDS RunnerAuth, Enroll, Review, Presented, FiniteSetTheorems, TLAPS

----------------------------------------------------------------------------
(* RunnerAuth.                                                             *)


\* AuthInv reads the whole of the state.
LEMMA AuthStutter == AuthInv /\ UNCHANGED authVars => AuthInv'
BY DEF AuthInv, AuthTypeOK, PoppedAreOld, AcceptedInTime, AcceptedOnce, authVars

\* The clocks and the fields of an entry are numbers.
LEMMA Numbers ==
    ASSUME AuthInv
    PROVE  /\ wallClock \in Nat /\ monoClock \in Nat /\ back \in Nat /\ popped \in Nat
           /\ popped <= Len(accepted) /\ Len(accepted) \in Nat
           /\ \A i \in 1..Len(accepted) :
                /\ accepted[i].mono \in Nat /\ accepted[i].wall \in Nat
                /\ accepted[i].back \in Nat /\ accepted[i].request \in Requests
                /\ accepted[i].request.stamp \in Nat
<1>1. accepted \in Seq(AuthEntries) /\ popped \in 0..Len(accepted)
  BY DEF AuthInv, AuthTypeOK
<1>2. Len(accepted) \in Nat
  BY <1>1
<1>3. \A i \in 1..Len(accepted) : accepted[i] \in AuthEntries
  BY <1>1
<1>4. \A e \in AuthEntries : /\ e.mono \in Nat /\ e.wall \in Nat /\ e.back \in Nat
                              /\ e.request \in Requests
  BY DEF AuthEntries
<1> QED
  BY <1>1, <1>2, <1>3, <1>4, AuthAssumption DEF AuthInv, AuthTypeOK

\* An entry too old by the wall clock whose stamp is fresh: the clock was set back.
LEMMA SetBackByMore ==
    ASSUME NEW w \in Nat, NEW b \in Nat, NEW w0 \in Nat, NEW b0 \in Nat,
           NEW stamp \in Nat, NEW skew \in Nat, NEW ttl \in Nat,
           w + (b - b0) - w0 > ttl, w - stamp <= skew, stamp - w0 <= skew
    PROVE  b - b0 > ttl - 2 * skew
OBVIOUS

\* What the wall clock loses is added to what it was set back.
LEMMA SumKept ==
    ASSUME NEW w \in Nat, NEW b \in Nat, NEW w1 \in Nat, NEW b1 \in Nat, NEW b0 \in Nat,
           w1 + b1 >= w + b
    PROVE  w1 + (b1 - b0) >= w + (b - b0)
OBVIOUS

\* What a clock step must do for the invariant to survive it: the monotonic
\* clock does not go back, and what the wall clock loses is counted.
LEMMA ClockStep ==
    ASSUME AuthInv, UNCHANGED <<accepted, popped>>,
           wallClock' \in Nat, monoClock' \in Nat, back' \in Nat,
           monoClock' >= monoClock, back' >= back,
           wallClock' + back' >= wallClock + back
    PROVE  AuthInv'
<1>1. AuthTypeOK'
  BY DEF AuthInv, AuthTypeOK
<1>2. PoppedAreOld'
  <2> SUFFICES ASSUME NEW i \in 1..popped
               PROVE  /\ monoClock' - accepted[i].mono > NonceTTL
                      /\ wallClock' + (back' - accepted[i].back) - accepted[i].wall > NonceTTL
    BY DEF PoppedAreOld
  <2>1. /\ accepted[i].mono \in Nat /\ accepted[i].wall \in Nat /\ accepted[i].back \in Nat
        /\ wallClock \in Nat /\ monoClock \in Nat /\ back \in Nat
    BY Numbers
  <2>2. /\ monoClock - accepted[i].mono > NonceTTL
        /\ wallClock + (back - accepted[i].back) - accepted[i].wall > NonceTTL
    BY DEF AuthInv, PoppedAreOld
  <2>3. NonceTTL \in Nat
    BY AuthAssumption
  <2>4. wallClock' + (back' - accepted[i].back) >= wallClock + (back - accepted[i].back)
    BY <2>1, SumKept
  <2>5. monoClock' - accepted[i].mono >= monoClock - accepted[i].mono
    BY <2>1
  <2> QED
    BY <2>1, <2>2, <2>3, <2>4, <2>5
<1>3. AcceptedInTime'
  <2> SUFFICES ASSUME NEW i \in 1..Len(accepted)
               PROVE  /\ accepted[i].wall - accepted[i].request.stamp <= MaxSkew
                      /\ accepted[i].request.stamp - accepted[i].wall <= MaxSkew
                      /\ accepted[i].back <= back' /\ accepted[i].mono <= monoClock'
    BY DEF AcceptedInTime
  <2>1. /\ accepted[i].mono \in Nat /\ accepted[i].wall \in Nat /\ accepted[i].back \in Nat
        /\ wallClock \in Nat /\ monoClock \in Nat /\ back \in Nat
    BY Numbers
  <2>2. /\ accepted[i].wall - accepted[i].request.stamp <= MaxSkew
        /\ accepted[i].request.stamp - accepted[i].wall <= MaxSkew
        /\ accepted[i].back <= back /\ accepted[i].mono <= monoClock
    BY DEF AuthInv, AcceptedInTime
  <2> QED
    BY <2>1, <2>2
<1>4. AcceptedOnce'
  BY DEF AuthInv, AcceptedOnce
<1> QED
  BY <1>1, <1>2, <1>3, <1>4 DEF AuthInv

\* An eviction keeps PoppedAreOld: what goes is old on both clocks.
LEMMA EvictionStep ==
    ASSUME AuthInv, NEW n \in popped..Len(accepted), Evicts(n)
    PROVE  \A i \in 1..n :
             /\ monoClock - accepted[i].mono > NonceTTL
             /\ wallClock + (back - accepted[i].back) - accepted[i].wall > NonceTTL
<1> SUFFICES ASSUME NEW i \in 1..n
             PROVE  /\ monoClock - accepted[i].mono > NonceTTL
                    /\ wallClock + (back - accepted[i].back) - accepted[i].wall > NonceTTL
  OBVIOUS
<1>1. i \in 1..Len(accepted) /\ popped \in Nat /\ n \in Nat
  BY Numbers
<1>2. /\ accepted[i].mono \in Nat /\ accepted[i].wall \in Nat /\ accepted[i].back \in Nat
      /\ wallClock \in Nat /\ monoClock \in Nat /\ back \in Nat /\ NonceTTL \in Nat
  BY <1>1, Numbers, AuthAssumption
<1>3. CASE i \in 1..popped
  BY <1>3 DEF AuthInv, PoppedAreOld
<1>4. CASE i \notin 1..popped
  <2>1. Old(accepted[i])
    BY <1>1, <1>4 DEF Evicts
  <2>2. accepted[i].back <= back
    BY <1>1 DEF AuthInv, AcceptedInTime
  <2> QED
    BY <1>2, <2>1, <2>2 DEF Old
<1> QED
  BY <1>3, <1>4

\* A request that is accepted was not seen among what is remembered, and
\* what is no longer remembered is so old that its stamp was fresh again only
\* because the wall clock had been set back.
LEMMA AcceptStep ==
    ASSUME AuthInv, NEW request \in Requests, NEW n \in popped..Len(accepted),
           Evicts(n), popped' = n, Fresh(request), ~Seen(request, n),
           accepted' = Append(accepted, [request |-> request, mono |-> monoClock,
                                         wall |-> wallClock, back |-> back]),
           UNCHANGED <<wallClock, monoClock, back>>
    PROVE  AuthInv'
<1> DEFINE entry == [request |-> request, mono |-> monoClock,
                     wall |-> wallClock, back |-> back]
           last == Len(accepted) + 1
<1>1. entry \in AuthEntries
  BY Numbers DEF AuthEntries
<1>2. /\ accepted \in Seq(AuthEntries)
      /\ Len(accepted) \in Nat /\ popped \in Nat /\ n \in Nat
  BY DEF AuthInv, AuthTypeOK
<1>3. /\ accepted' \in Seq(AuthEntries)
      /\ Len(accepted') = last
      /\ accepted'[last] = entry
      /\ \A i \in 1..Len(accepted) : accepted'[i] = accepted[i]
  BY <1>1, <1>2
<1> HIDE DEF entry
<1>4. AuthTypeOK'
  BY <1>2, <1>3 DEF AuthInv, AuthTypeOK
<1>5. PoppedAreOld'
  BY <1>2, <1>3, EvictionStep DEF PoppedAreOld
<1>6. AcceptedInTime'
  <2> SUFFICES ASSUME NEW i \in 1..last
               PROVE  /\ accepted'[i].wall - accepted'[i].request.stamp <= MaxSkew
                      /\ accepted'[i].request.stamp - accepted'[i].wall <= MaxSkew
                      /\ accepted'[i].back <= back /\ accepted'[i].mono <= monoClock
    BY <1>3 DEF AcceptedInTime
  <2>1. CASE i = last
    <3>1. accepted'[i] = entry
      BY <2>1, <1>3
    <3>2. /\ entry.wall = wallClock /\ entry.request = request
          /\ entry.back = back /\ entry.mono = monoClock
      BY DEF entry
    <3>3. back <= back /\ monoClock <= monoClock
      BY Numbers
    <3> QED
      BY <3>1, <3>2, <3>3 DEF Fresh
  <2>2. CASE i # last
    BY <2>2, <1>2, <1>3 DEF AuthInv, AcceptedInTime
  <2> QED
    BY <2>1, <2>2
<1>7. AcceptedOnce'
  <2> SUFFICES ASSUME NEW i \in 1..last, NEW j \in 1..last, i < j,
                      accepted'[i].request = accepted'[j].request
               PROVE  /\ accepted'[j].mono - accepted'[i].mono > NonceTTL
                      /\ accepted'[j].back - accepted'[i].back > NonceTTL - 2 * MaxSkew
    BY <1>3 DEF AcceptedOnce
  <2>0. i \in 1..Len(accepted) /\ accepted'[i] = accepted[i]
    BY <1>2, <1>3
  <2>1. CASE j # last
    <3>1. j \in 1..Len(accepted) /\ accepted'[j] = accepted[j]
      BY <2>1, <1>2, <1>3
    <3> QED
      BY <2>0, <3>1 DEF AuthInv, AcceptedOnce
  <2>2. CASE j = last
    <3>1. accepted[i].request = request /\ accepted'[j] = entry
      BY <2>0, <2>2, <1>3 DEF entry
    <3>2. i \in 1..n
      <4>1. CASE i \in n + 1 .. Len(accepted)
        BY <4>1, <3>1 DEF Seen
      <4> QED
        BY <4>1, <2>0, <1>2
    <3>3. /\ monoClock - accepted[i].mono > NonceTTL
          /\ wallClock + (back - accepted[i].back) - accepted[i].wall > NonceTTL
      BY <3>2, EvictionStep
    <3>4. /\ request.stamp - accepted[i].wall <= MaxSkew
          /\ accepted[i].wall - request.stamp <= MaxSkew
      BY <2>0, <3>1 DEF AuthInv, AcceptedInTime
    <3>5. /\ accepted[i].mono \in Nat /\ accepted[i].wall \in Nat /\ accepted[i].back \in Nat
          /\ request.stamp \in Nat /\ wallClock \in Nat /\ monoClock \in Nat /\ back \in Nat
      BY <2>0, Numbers, AuthAssumption
    <3>6. wallClock - request.stamp <= MaxSkew /\ request.stamp - wallClock <= MaxSkew
      BY DEF Fresh
    <3>7. MaxSkew \in Nat /\ NonceTTL \in Nat
      BY AuthAssumption
    <3>8. back - accepted[i].back > NonceTTL - 2 * MaxSkew
      BY <3>3, <3>4, <3>5, <3>6, <3>7, SetBackByMore
    <3> QED
      BY <2>0, <3>1, <3>3, <3>8 DEF entry
  <2> QED
    BY <2>1, <2>2
<1> QED
  BY <1>4, <1>5, <1>6, <1>7 DEF AuthInv

\* verify keeps the invariant, whether it accepts the request or not.
LEMMA VerifyStep ==
    ASSUME AuthInv, NEW request \in Requests, NEW intact \in BOOLEAN,
           Verify(request, intact)
    PROVE  AuthInv'
<1>1. PICK n \in popped..Len(accepted) : Evicts(n) /\ popped' = n
  BY DEF Verify
<1>2. UNCHANGED <<wallClock, monoClock, back>>
  BY DEF Verify
<1>3. CASE UNCHANGED accepted
  <2>1. AuthTypeOK'
    BY <1>1, <1>2, <1>3 DEF AuthInv, AuthTypeOK
  <2>2. PoppedAreOld'
    BY <1>1, <1>2, <1>3, EvictionStep DEF PoppedAreOld
  <2> QED
    BY <2>1, <2>2, <1>2, <1>3 DEF AuthInv, AcceptedInTime, AcceptedOnce
<1>4. CASE ~UNCHANGED accepted
  <2>1. /\ Fresh(request) /\ ~Seen(request, popped')
        /\ accepted' = Append(accepted, [request |-> request, mono |-> monoClock,
                                         wall |-> wallClock, back |-> back])
    BY <1>4 DEF Verify
  <2> QED
    BY <1>1, <1>2, <2>1, AcceptStep
<1> QED
  BY <1>3, <1>4

\* A runner's request is accepted once, replayed or not, unless the wall clock
\* is set back by more than the TTL's slack after the TTL has run out: for
\* every skew, TTL, cache size and pattern of clock steps (Verifier::verify).
THEOREM RequestsAcceptedOnce == AuthSpec => []AcceptedOnce
<1>1. AuthInit => AuthInv
  BY AuthAssumption
  DEF AuthInit, AuthInv, AuthTypeOK, PoppedAreOld, AcceptedInTime, AcceptedOnce
<1>2. AuthInv /\ [AuthNext]_authVars => AuthInv'
  <2> SUFFICES ASSUME AuthInv, [AuthNext]_authVars PROVE AuthInv'
    OBVIOUS
  <2>1. CASE UNCHANGED authVars
    BY <2>1, AuthStutter
  <2>2. ASSUME NEW request \in Requests, NEW intact \in BOOLEAN, Verify(request, intact)
        PROVE  AuthInv'
    BY <2>2, VerifyStep
  <2>3. CASE AuthRestart
    BY <2>3 DEF AuthRestart, AuthInv, AuthTypeOK, PoppedAreOld, AcceptedInTime, AcceptedOnce
  <2>4. CASE AuthTick
    <3>1. wallClock \in Nat /\ monoClock \in Nat /\ back \in Nat
      BY DEF AuthInv, AuthTypeOK
    <3> QED
      BY <2>4, <3>1, ClockStep DEF AuthTick
  <2>5. ASSUME NEW step \in Steps, SetForward(step) PROVE AuthInv'
    <3>1. wallClock \in Nat /\ monoClock \in Nat /\ back \in Nat /\ step \in Nat
      BY AuthAssumption DEF AuthInv, AuthTypeOK
    <3> QED
      BY <2>5, <3>1, ClockStep DEF SetForward
  <2>6. ASSUME NEW step \in Steps, SetBack(step) PROVE AuthInv'
    <3>1. wallClock \in Nat /\ monoClock \in Nat /\ back \in Nat /\ step \in Nat
      BY AuthAssumption DEF AuthInv, AuthTypeOK
    <3>2. wallClock' \in Nat /\ back' \in Nat /\ back' >= back
      BY <2>6, <3>1 DEF SetBack
    <3> QED
      BY <2>6, <3>1, <3>2, ClockStep DEF SetBack
  <2> QED
    BY <2>1, <2>2, <2>3, <2>4, <2>5, <2>6 DEF AuthNext
<1>3. AuthInv => AcceptedOnce
  BY DEF AuthInv
<1> QED
  BY <1>1, <1>2, <1>3, PTL DEF AuthSpec

----------------------------------------------------------------------------
(* Enroll: the inductive invariant.                                        *)

DeviceRecords == [cred : Creds, name : Names, token : Tokens \cup {NoToken}]
CodeFiles ==
    [code : 1..MaxCodes, name : Names, expires : Int, failures : 0..(MaxGuesses - 1)]
Ceremonies == [cred : Creds, name : Names, started : Int]
Handlers ==
    [op : {"idle", "expire"}] \cup [op : {"strike"}, file : CodeFiles]
    \cup [op : {"save"}, device : DeviceRecords, via : 1..MaxCodes]
    \cup [op : {"clear", "rollback"}, device : DeviceRecords]
Consoles ==
    [op : {"idle"}] \cup [op : {"mint"}, name : Names] \cup [op : {"forget"}, cred : Creds]
    \cup [op : {"write"}, cred : Creds, kept : SUBSET DeviceRecords]

\* What each variable holds, and what is idle while the daemon is not up.
EnrollTyped ==
    /\ wall \in Int
    /\ minted \in 0..MaxCodes /\ challenges \in 0..MaxChallenges
    /\ devices \subseteq DeviceRecords /\ deviceFile \subseteq DeviceRecords
    /\ codeFile \in CodeFiles \cup {None}
    /\ process \in {"down", "loaded", "up"}
    /\ ceremony \in Ceremonies \cup {None}
    /\ handler \in Handlers /\ console \in Consoles
    /\ via \in [Creds -> (1..MaxCodes) \cup {None}]
    /\ wrong \in [1..MaxCodes -> 0..MaxGuesses]
    /\ acked \in [Creds -> Tokens \cup {NoToken}]
    /\ tried \in [Creds -> SUBSET Tokens]
    /\ answered \subseteq Creds /\ forgotten \subseteq Creds
    /\ raced \in BOOLEAN

Quiet ==
    /\ process # "up" => handler = Idle /\ ceremony = None
    /\ process = "down" => devices = {}
    /\ handler.op \in {"save", "clear", "rollback"} => ceremony = None

\* The codes: each is minted once, and its failures are the wrong answers given.
Tallied(file) == file.code <= minted /\ wrong[file.code] = file.failures
Coded ==
    /\ \A k \in 1..MaxCodes : k > minted => wrong[k] = 0
    /\ console.op = "mint" => minted < MaxCodes
    /\ codeFile # None => Tallied(codeFile)
    /\ handler.op = "strike" => Tallied(handler.file)
    /\ handler.op = "save" => handler.via <= minted
    /\ \A c \in Creds : via[c] # None => via[c] <= minted

\* A credential that is still to be made, or to be saved, is nowhere.
Kept == IF console.op = "write" THEN console.kept ELSE {}
Everywhere == devices \cup deviceFile \cup Kept
Unseen(cred) ==
    /\ \A d \in Everywhere : d.cred # cred
    /\ cred \notin answered \cup forgotten
    /\ acked[cred] = NoToken
    /\ console.op = "write" => console.cred # cred
NeverReused ==
    /\ \A c \in Creds : c > challenges => Unseen(c)
    /\ ceremony # None => /\ ceremony.cred \in 1..challenges
                          /\ Unseen(ceremony.cred)
    /\ handler.op \in {"save", "clear", "rollback"} => handler.device.cred \in 1..challenges
    /\ handler.op = "save" => Unseen(handler.device.cred)

\* One name, one credential and one code for a device, in each of the lists.
Apart(c, d) ==
    /\ c.name # d.name /\ c.cred # d.cred
    /\ via[c.cred] = via[d.cred] => via[c.cred] \in cut
EachApart(list) == \A c, d \in list : c # d => Apart(c, d)
OneEach ==
    /\ via[Legacy] = None
    /\ \A d \in Everywhere : d.cred # Legacy => via[d.cred] # None
    /\ EachApart(devices) /\ EachApart(deviceFile) /\ EachApart(Kept)
    /\ handler.op = "save" => \A c \in devices :
          c.name # handler.device.name /\ (via[c.cred] = handler.via => handler.via \in cut)
    /\ handler.op \in {"clear", "rollback"} =>
          /\ via[handler.device.cred] # None
          /\ \A c \in devices : Apart(c, handler.device)
          /\ \A d \in Everywhere : d.cred = handler.device.cred => d = handler.device

\* What a code that is on file, or about to be written back, was used for: a
\* use that was cut short, one that is not over, or one that leaves it good
\* for the name that is taken only.
SpentOn(c, file) ==
    \/ file.code \in cut
    \/ handler.op \in {"clear", "rollback"} /\ c.cred = handler.device.cred
    \/ c.name = file.name /\ (ceremony # None => ceremony.name = file.name)
Spent(file) == \A c \in Everywhere : via[c.cred] = file.code => SpentOn(c, file)
CodesSpent ==
    /\ codeFile # None => Spent(codeFile)
    /\ handler.op = "strike" => Spent(handler.file)

\* The console is busy with `forget`, so no code was minted since the daemon
\* was bound: a ceremony is of the code on file.
NoneMinted ==
    console.op \in {"forget", "write"} =>
        /\ ceremony # None /\ codeFile # None => ceremony.name = codeFile.name
        /\ ceremony # None /\ handler.op = "strike" => ceremony.name = handler.file.name
        /\ handler.op \in {"save", "clear", "rollback"} /\ codeFile # None =>
              handler.device.name = codeFile.name

\* The lists agree while `forget` and the daemon kept apart.
AckedIn(list) == \A d \in list :
    acked[d.cred] # NoToken => d.token \in {acked[d.cred]} \cup tried[d.cred]
Agreed ==
    /\ console.op \in {"forget", "write"} => process = "down"
    /\ console.op = "write" =>
          console.kept = {d \in deviceFile : d.cred # console.cred}
    /\ answered \subseteq CredsOf(deviceFile) \cup forgotten
    /\ process # "down" => answered \subseteq CredsOf(devices) \cup forgotten
    /\ CredsOf(devices) \subseteq CredsOf(deviceFile)
    /\ forgotten \cap CredsOf(deviceFile) = {}
    /\ handler.op = "clear" => handler.device \in deviceFile
    /\ AckedIn(deviceFile) /\ AckedIn(devices)

EnrollInv ==
    /\ EnrollTyped /\ Quiet /\ Coded /\ NeverReused /\ OneEach /\ CodesSpent /\ NoneMinted
    /\ ~raced => Agreed

LEMMA HandlerParts ==
    ASSUME EnrollTyped
    PROVE  /\ handler.op \in {"idle", "expire", "strike", "save", "clear", "rollback"}
           /\ handler.op = "strike" => handler.file \in CodeFiles
           /\ handler.op \in {"save", "clear", "rollback"} => handler.device \in DeviceRecords
           /\ handler.op = "save" => handler.via \in 1..MaxCodes
           /\ console.op \in {"idle", "mint", "forget", "write"}
           /\ console.op = "mint" => console.name \in Names
           /\ console.op \in {"forget", "write"} => console.cred \in Creds
           /\ console.op = "write" => console.kept \subseteq DeviceRecords
BY DEF EnrollTyped, Handlers, Consoles

LEMMA EnrollNumbers ==
    /\ MaxCodes \in Nat /\ MaxChallenges \in Nat /\ MaxGuesses \in Nat \ {0} /\ CodeTTL \in Nat
    /\ Legacy \in Creds /\ Legacy = 0
    /\ Creds = 0..MaxChallenges
    /\ None \notin 1..MaxCodes
BY EnrollAssumption DEF Creds, Legacy


LEMMA StruckFile ==
    ASSUME NEW file \in CodeFiles
    PROVE  /\ Struck(file) # None => /\ Struck(file) \in CodeFiles
                                     /\ Struck(file).code = file.code
                                     /\ Struck(file).name = file.name
                                     /\ Struck(file).failures = file.failures + 1
           /\ Struck(file) \in CodeFiles \cup {None}
           /\ file.failures + 1 \in 0..MaxGuesses
BY EnrollNumbers DEF Struck, CodeFiles

LEMMA RegisteredList ==
    ASSUME devices \subseteq DeviceRecords, EachApart(devices),
           NEW device \in devices, NEW token \in Tokens
    PROVE  /\ Registered(device, token) \subseteq DeviceRecords
           /\ \A d \in Registered(device, token) : \E e \in devices :
                  /\ d.cred = e.cred /\ d.name = e.name
                  /\ d.cred = device.cred => d.token = token
                  /\ d.cred # device.cred => d = e
           /\ \A e \in devices : \E d \in Registered(device, token) : d.cred = e.cred
           /\ \A c, d \in Registered(device, token) : c.cred = d.cred => c = d
<1> DEFINE new == [device EXCEPT !.token = token]
<1>1. new \in DeviceRecords /\ new.cred = device.cred /\ new.name = device.name /\ new.token = token
  BY DEF DeviceRecords
<1>2. \A e \in devices : e.cred = device.cred => e = device
  BY DEF EachApart, Apart
<1>3. Registered(device, token) = (devices \ {device}) \cup {new}
  BY DEF Registered
<1>4. \A e, f \in devices : e.cred = f.cred => e = f
  BY DEF EachApart, Apart
<1> HIDE DEF new
<1>5. \A d \in Registered(device, token) : d = new \/ (d \in devices /\ d.cred # device.cred)
  BY <1>3, <1>2
<1>6. \A c, d \in Registered(device, token) : c.cred = d.cred => c = d
  BY <1>1, <1>4, <1>5
<1>7. \A e \in devices : \E d \in Registered(device, token) : d.cred = e.cred
  <2> SUFFICES ASSUME NEW e \in devices
               PROVE  \E d \in Registered(device, token) : d.cred = e.cred
    OBVIOUS
  <2>1. CASE e = device
    BY <1>1, <1>3, <2>1
  <2>2. CASE e # device
    BY <1>3, <2>2
  <2> QED BY <2>1, <2>2
<1>8. Registered(device, token) \subseteq DeviceRecords
  BY <1>1, <1>5
<1>9. \A d \in Registered(device, token) : \E e \in devices :
         /\ d.cred = e.cred /\ d.name = e.name
         /\ d.cred = device.cred => d.token = token
         /\ d.cred # device.cred => d = e
  BY <1>1, <1>5
<1> QED BY <1>6, <1>7, <1>8, <1>9

LEMMA CheckCodeKeeps ==
    ASSUME EnrollInv, NEW submitted, CheckCode(submitted)
    PROVE  EnrollInv'
<1>1. EnrollTyped'
  BY EnrollNumbers, HandlerParts DEF EnrollInv, EnrollTyped, Quiet, Handlers, Consoles, DeviceRecords, CodeFiles, Ceremonies, CheckCode, Locked, CodeMatches, CodeOpen, Idle, CodeFiles, DeviceRecords,
    diskVars, memoryVars, enrollHistory, enrollBounds
<1>2. Quiet'
  BY EnrollNumbers, HandlerParts DEF EnrollInv, EnrollTyped, Quiet, Handlers, Consoles, DeviceRecords, CodeFiles, Ceremonies, CheckCode, Locked, CodeMatches, CodeOpen, Idle, CodeFiles, DeviceRecords,
    diskVars, memoryVars, enrollHistory, enrollBounds
<1>3. Coded'
  BY EnrollNumbers, HandlerParts DEF EnrollInv, EnrollTyped, Quiet, Coded, Tallied, CheckCode, Locked, CodeMatches, CodeOpen, Idle, CodeFiles, DeviceRecords,
    diskVars, memoryVars, enrollHistory, enrollBounds
<1>4. NeverReused'
  BY EnrollNumbers, HandlerParts DEF EnrollInv, EnrollTyped, Quiet, NeverReused, Unseen, Everywhere, Kept, CheckCode, Locked, CodeMatches, CodeOpen, Idle, CodeFiles, DeviceRecords,
    diskVars, memoryVars, enrollHistory, enrollBounds
<1>5. OneEach'
  BY EnrollNumbers, HandlerParts DEF EnrollInv, EnrollTyped, Quiet, OneEach, EachApart, Apart, Everywhere, Kept, CheckCode, Locked, CodeMatches, CodeOpen, Idle, CodeFiles, DeviceRecords,
    diskVars, memoryVars, enrollHistory, enrollBounds
<1>6. CodesSpent'
  BY EnrollNumbers, HandlerParts DEF EnrollInv, EnrollTyped, Quiet, CodesSpent, Spent, SpentOn, Everywhere, Kept, CheckCode, Locked, CodeMatches, CodeOpen, Idle, CodeFiles, DeviceRecords,
    diskVars, memoryVars, enrollHistory, enrollBounds
<1>7. NoneMinted'
  BY EnrollNumbers, HandlerParts DEF EnrollInv, EnrollTyped, Quiet, NoneMinted, CheckCode, Locked, CodeMatches, CodeOpen, Idle, CodeFiles, DeviceRecords,
    diskVars, memoryVars, enrollHistory, enrollBounds
<1>8. ~raced' => Agreed'
  BY EnrollNumbers, HandlerParts DEF EnrollInv, EnrollTyped, Quiet, OneEach, EachApart, Apart, NeverReused, Unseen, Everywhere, Kept, Agreed, AckedIn, CredsOf, CheckCode, Locked, CodeMatches, CodeOpen, Idle, DeviceRecords,
    diskVars, memoryVars, enrollHistory, enrollBounds
<1> QED BY <1>1, <1>2, <1>3, <1>4, <1>5, <1>6, <1>7, <1>8 DEF EnrollInv

LEMMA StrikeKeeps ==
    ASSUME EnrollInv, Strike
    PROVE  EnrollInv'
<1>0. /\ handler.op = "strike" /\ handler' = Idle /\ handler.file \in CodeFiles
      /\ \/ /\ codeFile' = Struck(handler.file)
            /\ wrong' = [wrong EXCEPT ![handler.file.code] = @ + 1]
         \/ UNCHANGED <<codeFile, wrong>>
      /\ Tallied(handler.file) /\ handler.file.code \in 1..MaxCodes
      /\ wrong[handler.file.code] = handler.file.failures
      /\ UNCHANGED <<wall, deviceFile, process, devices, ceremony, console, minted,
                     challenges, answered, via, forgotten, acked, tried, cut, raced>>
  BY HandlerParts DEF EnrollInv, Strike, Coded, Tallied, CodeFiles
<1>s. handler'.op = "idle"
  BY <1>0 DEF Idle
<1>1. EnrollTyped'
  <2>1. wrong' \in [1..MaxCodes -> 0..MaxGuesses]
    BY <1>0, StruckFile DEF EnrollInv, EnrollTyped
  <2>2. codeFile' \in CodeFiles \cup {None}
    BY <1>0, StruckFile DEF EnrollInv, EnrollTyped
  <2>3. handler' \in Handlers
    BY <1>0 DEF Idle, Handlers
  <2> QED
    BY <1>0, <2>1, <2>2, <2>3 DEF EnrollInv, EnrollTyped
<1>2. Quiet'
  BY EnrollNumbers, HandlerParts DEF EnrollInv, EnrollTyped, Quiet, Handlers, Consoles, DeviceRecords, CodeFiles, Ceremonies, Strike, Struck, WriteOK, WriteFails, Idle, CodeFiles, DeviceRecords,
    diskVars, memoryVars, enrollHistory, enrollBounds
<1>3. Coded'
  <2>1. CASE UNCHANGED <<codeFile, wrong>>
    BY <1>0, <1>s, <2>1 DEF EnrollInv, Coded, Tallied
  <2>2. CASE /\ codeFile' = Struck(handler.file)
             /\ wrong' = [wrong EXCEPT ![handler.file.code] = @ + 1]
    <3>1. handler.file.code <= minted /\ wrong \in [1..MaxCodes -> 0..MaxGuesses] /\ minted \in 0..MaxCodes
      BY <1>0 DEF EnrollInv, EnrollTyped, Tallied
    <3>2. \A k \in 1..MaxCodes : k > minted' => wrong'[k] = 0
      BY <1>0, <2>2, <3>1, EnrollNumbers DEF EnrollInv, Coded
    <3>3. codeFile' # None => Tallied(codeFile)'
      BY <1>0, <2>2, <3>1, StruckFile DEF Tallied
    <3> QED
      BY <1>0, <1>s, <3>2, <3>3 DEF EnrollInv, Coded
  <2> QED
    BY <1>0, <2>1, <2>2
<1>4. NeverReused'
  BY EnrollNumbers, HandlerParts DEF EnrollInv, EnrollTyped, Quiet, NeverReused, Unseen, Everywhere, Kept, Strike, Struck, WriteOK, WriteFails, Idle, CodeFiles, DeviceRecords,
    diskVars, memoryVars, enrollHistory, enrollBounds
<1>5. OneEach'
  BY EnrollNumbers, HandlerParts DEF EnrollInv, EnrollTyped, Quiet, OneEach, EachApart, Apart, Everywhere, Kept, Strike, Struck, WriteOK, WriteFails, Idle, CodeFiles, DeviceRecords,
    diskVars, memoryVars, enrollHistory, enrollBounds
<1>6. CodesSpent'
  <2>1. codeFile' # None => Spent(codeFile)'
    BY <1>0, <1>s, StruckFile DEF EnrollInv, CodesSpent, Spent, SpentOn, Everywhere, Kept
  <2> QED
    BY <1>s, <2>1 DEF CodesSpent
<1>7. NoneMinted'
  BY EnrollNumbers, HandlerParts DEF EnrollInv, EnrollTyped, Quiet, NoneMinted, Strike, Struck, WriteOK, WriteFails, Idle, CodeFiles, DeviceRecords,
    diskVars, memoryVars, enrollHistory, enrollBounds
<1>8. ~raced' => Agreed'
  BY EnrollNumbers, HandlerParts DEF EnrollInv, EnrollTyped, Quiet, OneEach, EachApart, Apart, NeverReused, Unseen, Everywhere, Kept, Agreed, AckedIn, CredsOf, Strike, Struck, WriteOK, WriteFails, Idle, DeviceRecords,
    diskVars, memoryVars, enrollHistory, enrollBounds
<1> QED BY <1>1, <1>2, <1>3, <1>4, <1>5, <1>6, <1>7, <1>8 DEF EnrollInv

LEMMA ExpireKeeps ==
    ASSUME EnrollInv, Expire
    PROVE  EnrollInv'
<1>1. EnrollTyped'
  BY EnrollNumbers, HandlerParts DEF EnrollInv, EnrollTyped, Quiet, Handlers, Consoles, DeviceRecords, CodeFiles, Ceremonies, Expire, Idle, WriteOK, WriteFails, CodeFiles, DeviceRecords,
    diskVars, memoryVars, enrollHistory, enrollBounds
<1>2. Quiet'
  BY EnrollNumbers, HandlerParts DEF EnrollInv, EnrollTyped, Quiet, Handlers, Consoles, DeviceRecords, CodeFiles, Ceremonies, Expire, Idle, WriteOK, WriteFails, CodeFiles, DeviceRecords,
    diskVars, memoryVars, enrollHistory, enrollBounds
<1>3. Coded'
  BY EnrollNumbers, HandlerParts DEF EnrollInv, EnrollTyped, Quiet, Coded, Tallied, Expire, Idle, WriteOK, WriteFails, CodeFiles, DeviceRecords,
    diskVars, memoryVars, enrollHistory, enrollBounds
<1>4. NeverReused'
  BY EnrollNumbers, HandlerParts DEF EnrollInv, EnrollTyped, Quiet, NeverReused, Unseen, Everywhere, Kept, Expire, Idle, WriteOK, WriteFails, CodeFiles, DeviceRecords,
    diskVars, memoryVars, enrollHistory, enrollBounds
<1>5. OneEach'
  BY EnrollNumbers, HandlerParts DEF EnrollInv, EnrollTyped, Quiet, OneEach, EachApart, Apart, Everywhere, Kept, Expire, Idle, WriteOK, WriteFails, CodeFiles, DeviceRecords,
    diskVars, memoryVars, enrollHistory, enrollBounds
<1>6. CodesSpent'
  BY EnrollNumbers, HandlerParts DEF EnrollInv, EnrollTyped, Quiet, CodesSpent, Spent, SpentOn, Everywhere, Kept, Expire, Idle, WriteOK, WriteFails, CodeFiles, DeviceRecords,
    diskVars, memoryVars, enrollHistory, enrollBounds
<1>7. NoneMinted'
  BY EnrollNumbers, HandlerParts DEF EnrollInv, EnrollTyped, Quiet, NoneMinted, Expire, Idle, WriteOK, WriteFails, CodeFiles, DeviceRecords,
    diskVars, memoryVars, enrollHistory, enrollBounds
<1>8. ~raced' => Agreed'
  BY EnrollNumbers, HandlerParts DEF EnrollInv, EnrollTyped, Quiet, OneEach, EachApart, Apart, NeverReused, Unseen, Everywhere, Kept, Agreed, AckedIn, CredsOf, Expire, Idle, WriteOK, WriteFails, DeviceRecords,
    diskVars, memoryVars, enrollHistory, enrollBounds
<1> QED BY <1>1, <1>2, <1>3, <1>4, <1>5, <1>6, <1>7, <1>8 DEF EnrollInv

LEMMA EnrollStartKeeps ==
    ASSUME EnrollInv, NEW submitted, EnrollStart(submitted)
    PROVE  EnrollInv'
<1>0. /\ codeFile \in CodeFiles /\ codeFile.name \in Names /\ challenges + 1 \in Creds
      /\ challenges \in Nat /\ wall \in Int
  BY EnrollNumbers DEF EnrollInv, EnrollTyped, EnrollStart, CodeMatches, CodeOpen, CodeFiles
<1>1. EnrollTyped'
  BY <1>0, EnrollNumbers
  DEF EnrollInv, EnrollTyped, EnrollStart, Ceremonies, diskVars, enrollHistory
<1>2. Quiet'
  BY EnrollNumbers, HandlerParts DEF EnrollInv, EnrollTyped, Quiet, Handlers, Consoles, DeviceRecords, CodeFiles, Ceremonies, EnrollStart, Locked, CodeMatches, CodeOpen, Idle, CodeFiles, DeviceRecords,
    diskVars, memoryVars, enrollHistory, enrollBounds
<1>3. Coded'
  BY EnrollNumbers, HandlerParts DEF EnrollInv, EnrollTyped, Quiet, Coded, Tallied, EnrollStart, Locked, CodeMatches, CodeOpen, Idle, CodeFiles, DeviceRecords,
    diskVars, memoryVars, enrollHistory, enrollBounds
<1>4. NeverReused'
  <2>1. ceremony'.cred = challenges + 1 /\ challenges' = challenges + 1
    BY DEF EnrollStart
  <2>2. \A c \in Creds : c \in Int
    BY EnrollNumbers
  <2>3. \A c \in Creds : Unseen(c)' <=> Unseen(c)
    BY DEF EnrollStart, Unseen, Everywhere, Kept, diskVars, enrollHistory
  <2>4. handler' = handler /\ handler.op = "idle"
    BY DEF EnrollStart, Locked, Idle
  <2>5. \A c \in Creds : c > challenges => Unseen(c)
    BY DEF EnrollInv, NeverReused
  <2>6. Unseen(challenges + 1)
    BY <1>0, <2>5
  <2>7. \A c \in Creds : c > challenges' => Unseen(c)'
    BY <1>0, <2>1, <2>2, <2>3, <2>5
  <2>8. ceremony'.cred \in 1..challenges'
    BY <1>0, <2>1
  <2>9. Unseen(ceremony.cred)'
    BY <2>1, <2>6 DEF EnrollStart, Unseen, Everywhere, Kept, diskVars, enrollHistory
  <2> QED
    BY <2>4, <2>7, <2>8, <2>9 DEF NeverReused
<1>5. OneEach'
  BY EnrollNumbers, HandlerParts DEF EnrollInv, EnrollTyped, Quiet, OneEach, EachApart, Apart, Everywhere, Kept, EnrollStart, Locked, CodeMatches, CodeOpen, Idle, CodeFiles, DeviceRecords,
    diskVars, memoryVars, enrollHistory, enrollBounds
<1>6. CodesSpent'
  BY EnrollNumbers, HandlerParts DEF EnrollInv, EnrollTyped, Quiet, CodesSpent, Spent, SpentOn, Everywhere, Kept, EnrollStart, Locked, CodeMatches, CodeOpen, Idle, CodeFiles, DeviceRecords,
    diskVars, memoryVars, enrollHistory, enrollBounds
<1>7. NoneMinted'
  BY EnrollNumbers, HandlerParts DEF EnrollInv, EnrollTyped, Quiet, NoneMinted, EnrollStart, Locked, CodeMatches, CodeOpen, Idle, CodeFiles, DeviceRecords,
    diskVars, memoryVars, enrollHistory, enrollBounds
<1>8. ~raced' => Agreed'
  BY EnrollNumbers, HandlerParts DEF EnrollInv, EnrollTyped, Quiet, OneEach, EachApart, Apart, NeverReused, Unseen, Everywhere, Kept, Agreed, AckedIn, CredsOf, EnrollStart, Locked, CodeMatches, CodeOpen, Idle, DeviceRecords,
    diskVars, memoryVars, enrollHistory, enrollBounds
<1> QED BY <1>1, <1>2, <1>3, <1>4, <1>5, <1>6, <1>7, <1>8 DEF EnrollInv

LEMMA EnrollFinishKeeps ==
    ASSUME EnrollInv, NEW submitted, NEW cred, NEW synced, EnrollFinish(submitted, cred, synced)
    PROVE  EnrollInv'
<1>1. EnrollTyped'
  BY EnrollNumbers, HandlerParts DEF EnrollInv, EnrollTyped, Quiet, Handlers, Consoles, DeviceRecords, CodeFiles, Ceremonies, EnrollFinish, Locked, CodeMatches, CodeOpen, Enrollable, NameIsFree, Device, Idle, CodeFiles, DeviceRecords,
    diskVars, memoryVars, enrollHistory, enrollBounds
<1>2. Quiet'
  BY EnrollNumbers, HandlerParts DEF EnrollInv, EnrollTyped, Quiet, Handlers, Consoles, DeviceRecords, CodeFiles, Ceremonies, EnrollFinish, Locked, CodeMatches, CodeOpen, Enrollable, NameIsFree, Device, Idle, CodeFiles, DeviceRecords,
    diskVars, memoryVars, enrollHistory, enrollBounds
<1>3. Coded'
  BY EnrollNumbers, HandlerParts DEF EnrollInv, EnrollTyped, Quiet, Coded, Tallied, EnrollFinish, Locked, CodeMatches, CodeOpen, Enrollable, NameIsFree, Device, Idle, CodeFiles, DeviceRecords,
    diskVars, memoryVars, enrollHistory, enrollBounds
<1>4. NeverReused'
  BY EnrollNumbers, HandlerParts DEF EnrollInv, EnrollTyped, Quiet, NeverReused, Unseen, Everywhere, Kept, EnrollFinish, Locked, CodeMatches, CodeOpen, Enrollable, NameIsFree, Device, Idle, CodeFiles, DeviceRecords,
    diskVars, memoryVars, enrollHistory, enrollBounds
<1>5. OneEach'
  <2>1. CASE ~Enrollable(cred, synced)
    BY <2>1 DEF EnrollInv, EnrollFinish, Locked, Idle, OneEach, EachApart, Apart, Everywhere, Kept,
       diskVars, enrollHistory
  <2>2. CASE Enrollable(cred, synced)
    <3>1. handler' = [op |-> "save", device |-> Device(cred, ceremony.name), via |-> submitted]
      BY <2>2 DEF EnrollFinish
    <3>2. handler'.op = "save" /\ handler'.device.name = ceremony.name /\ handler'.via = submitted
      BY <3>1 DEF Device
    <3>3. /\ codeFile # None /\ codeFile.code = submitted /\ handler.op = "idle"
          /\ ceremony # None
          /\ UNCHANGED <<devices, deviceFile, console, via, cut>>
      BY <2>2 DEF EnrollFinish, CodeMatches, CodeOpen, Locked, Idle, Enrollable, diskVars, enrollHistory
    <3>4. \A c \in devices : c.name # ceremony.name /\ (via[c.cred] = submitted => submitted \in cut)
      BY <2>2, <3>3 DEF EnrollInv, Enrollable, NameIsFree, CodesSpent, Spent, SpentOn, Everywhere
    <3> QED
      BY <3>2, <3>3, <3>4 DEF EnrollInv, OneEach, EachApart, Apart, Everywhere, Kept
  <2> QED
    BY <2>1, <2>2
<1>6. CodesSpent'
  BY EnrollNumbers, HandlerParts DEF EnrollInv, EnrollTyped, Quiet, CodesSpent, Spent, SpentOn, Everywhere, Kept, EnrollFinish, Locked, CodeMatches, CodeOpen, Enrollable, NameIsFree, Device, Idle, CodeFiles, DeviceRecords,
    diskVars, memoryVars, enrollHistory, enrollBounds
<1>7. NoneMinted'
  BY EnrollNumbers, HandlerParts DEF EnrollInv, EnrollTyped, Quiet, NoneMinted, EnrollFinish, Locked, CodeMatches, CodeOpen, Enrollable, NameIsFree, Device, Idle, CodeFiles, DeviceRecords,
    diskVars, memoryVars, enrollHistory, enrollBounds
<1>8. ~raced' => Agreed'
  BY EnrollNumbers, HandlerParts DEF EnrollInv, EnrollTyped, Quiet, OneEach, EachApart, Apart, NeverReused, Unseen, Everywhere, Kept, Agreed, AckedIn, CredsOf, EnrollFinish, Locked, CodeMatches, CodeOpen, Enrollable, NameIsFree, Device, Idle, DeviceRecords,
    diskVars, memoryVars, enrollHistory, enrollBounds
<1> QED BY <1>1, <1>2, <1>3, <1>4, <1>5, <1>6, <1>7, <1>8 DEF EnrollInv

LEMMA SaveDeviceKeeps ==
    ASSUME EnrollInv, SaveDevice
    PROVE  EnrollInv'
<1>0. /\ handler.op = "save" /\ handler.device \in DeviceRecords /\ handler.via \in 1..MaxCodes
      /\ handler.device.cred \in Creds /\ handler.device.cred # Legacy
      /\ handler.via <= minted /\ Unseen(handler.device.cred) /\ ceremony = None
      /\ devices' = devices
      /\ UNCHANGED <<wall, codeFile, process, ceremony, console, minted, challenges,
                     answered, wrong, forgotten, acked, tried, cut, raced>>
      /\ \/ /\ deviceFile' = devices \cup {handler.device}
            /\ via' = [via EXCEPT ![handler.device.cred] = handler.via]
            /\ handler' = [op |-> "clear", device |-> handler.device]
         \/ handler' = Idle /\ UNCHANGED <<deviceFile, via>>
  BY HandlerParts, EnrollNumbers
  DEF EnrollInv, SaveDevice, DevicesAtSave, Quiet, NeverReused, Coded, DeviceRecords
<1>f. CASE handler' = Idle /\ UNCHANGED <<deviceFile, via>>
  <2>1. handler'.op = "idle" /\ handler' \in Handlers
    BY <1>f DEF Idle, Handlers
  <2> QED
    BY <1>0, <1>f, <2>1 DEF EnrollInv, EnrollTyped, Quiet, Coded, Tallied, NeverReused, Unseen, OneEach,
       EachApart, Apart, CodesSpent, Spent, SpentOn, Everywhere, Kept, NoneMinted, Agreed,
       AckedIn, CredsOf
<1> SUFFICES ASSUME /\ deviceFile' = devices \cup {handler.device}
                    /\ via' = [via EXCEPT ![handler.device.cred] = handler.via]
                    /\ handler' = [op |-> "clear", device |-> handler.device]
             PROVE  EnrollInv'
  BY <1>0, <1>f
<1>s. /\ handler'.op = "clear" /\ handler'.device = handler.device /\ handler' \in Handlers
      /\ via \in [Creds -> (1..MaxCodes) \cup {None}]
      /\ via'[handler.device.cred] = handler.via /\ handler.via # None
      /\ \A c \in Creds : c # handler.device.cred => via'[c] = via[c]
      /\ devices \subseteq DeviceRecords /\ deviceFile \subseteq DeviceRecords
      /\ Kept \subseteq DeviceRecords /\ Kept' = Kept
      /\ \A d \in Everywhere : d.cred # handler.device.cred
      /\ \A d \in DeviceRecords : d.cred \in Creds
  BY <1>0, EnrollNumbers, HandlerParts DEF EnrollInv, EnrollTyped, Handlers, Kept, Unseen, DeviceRecords
<1>t. /\ Everywhere \subseteq DeviceRecords
      /\ Everywhere' \subseteq Everywhere \cup {handler.device}
      /\ \A d \in Everywhere : via'[d.cred] = via[d.cred]
  BY <1>0, <1>s DEF Everywhere
<1>1. EnrollTyped'
  <2>1. via' \in [Creds -> (1..MaxCodes) \cup {None}]
    BY <1>0, <1>s
  <2> QED
    BY <1>0, <1>s, <2>1 DEF EnrollInv, EnrollTyped
<1>2. Quiet'
  BY EnrollNumbers, HandlerParts DEF EnrollInv, EnrollTyped, Quiet, Handlers, Consoles, DeviceRecords, CodeFiles, Ceremonies, SaveDevice, DevicesAtSave, WriteOK, WriteFails, Idle, CodeFiles, DeviceRecords,
    diskVars, memoryVars, enrollHistory, enrollBounds
<1>3. Coded'
  <2>1. \A c \in Creds : via'[c] # None => via'[c] <= minted'
    BY <1>0, <1>s DEF EnrollInv, Coded
  <2> QED
    BY <1>0, <1>s, <2>1 DEF EnrollInv, Coded, Tallied
<1>4. NeverReused'
  <2>1. \A c \in Creds : c # handler.device.cred /\ Unseen(c) => Unseen(c)'
    BY <1>0, <1>s, <1>t DEF Unseen, Kept
  <2>2. handler.device.cred \in 1..challenges /\ \A c \in Creds : c \in Int
    BY <1>0, EnrollNumbers DEF EnrollInv, NeverReused
  <2>3. \A c \in Creds : c > challenges => c # handler.device.cred
    BY <2>2 DEF EnrollInv, EnrollTyped
  <2> QED
    BY <1>0, <1>s, <2>1, <2>2, <2>3 DEF EnrollInv, NeverReused
<1>5. OneEach'
  <2>1. \A c \in devices : c \in Everywhere /\ Apart(c, handler.device)'
    BY <1>0, <1>s, <1>t DEF EnrollInv, OneEach, Apart, Everywhere
  <2>2. \A c \in devices : Apart(handler.device, c)'
    BY <2>1 DEF Apart
  <2>3. \A list : list \subseteq Everywhere /\ EachApart(list) => EachApart(list)'
    BY <1>0, <1>t DEF EachApart, Apart
  <2>4. EachApart(devices)' /\ EachApart(Kept)'
    <3>1. EachApart(devices) /\ EachApart(Kept) /\ devices \subseteq Everywhere /\ Kept \subseteq Everywhere
      BY DEF EnrollInv, OneEach, Everywhere
    <3> QED BY <1>0, <1>s, <1>t, <3>1 DEF EachApart, Apart
  <2>5. EachApart(deviceFile)'
    BY <1>0, <2>1, <2>2, <2>4 DEF EachApart
  <2>6. /\ via'[Legacy] = None
        /\ \A d \in Everywhere' : d.cred # Legacy => via'[d.cred] # None
        /\ \A d \in Everywhere' : d.cred = handler.device.cred => d = handler.device
    BY <1>0, <1>s, <1>t, EnrollNumbers DEF EnrollInv, OneEach
  <2> QED
    BY <1>0, <1>s, <2>1, <2>4, <2>5, <2>6 DEF OneEach
<1>6. CodesSpent'
  <2> SUFFICES ASSUME codeFile # None, NEW c \in Everywhere',
                      via'[c.cred] = codeFile.code
               PROVE  SpentOn(c, codeFile)'
    BY <1>0, <1>s DEF CodesSpent, Spent
  <2>1. CASE c \in Everywhere
    BY <1>0, <1>s, <1>t, <2>1 DEF EnrollInv, CodesSpent, Spent, SpentOn
  <2>2. CASE c = handler.device
    BY <1>s, <2>2 DEF SpentOn
  <2> QED BY <1>t, <2>1, <2>2
<1>7. NoneMinted'
  BY <1>0, <1>s DEF EnrollInv, NoneMinted
<1>8. ~raced' => Agreed'
  <2> SUFFICES ASSUME ~raced PROVE Agreed'
    BY <1>0
  <2>1. Agreed
    BY DEF EnrollInv
  <2>2. process = "up"
    BY <1>0 DEF EnrollInv, Quiet, Idle
  <2>3. console.op \notin {"forget", "write"}
    BY <2>1, <2>2 DEF Agreed
  <2>4. /\ CredsOf(deviceFile)' = CredsOf(devices) \cup {handler.device.cred}
        /\ CredsOf(devices)' = CredsOf(devices)
    BY <1>0 DEF CredsOf
  <2>5. handler.device.cred \notin forgotten /\ acked[handler.device.cred] = NoToken
    BY <1>0 DEF Unseen
  <2>6. AckedIn(deviceFile)' /\ AckedIn(devices)'
    BY <1>0, <2>1, <2>5 DEF Agreed, AckedIn
  <2>7. /\ handler'.op = "clear" /\ handler'.device \in deviceFile'
        /\ UNCHANGED <<process, answered, forgotten, console>>
    BY <1>0, <1>s
  <2> QED
    BY <2>1, <2>2, <2>3, <2>4, <2>5, <2>6, <2>7 DEF Agreed
<1> QED BY <1>1, <1>2, <1>3, <1>4, <1>5, <1>6, <1>7, <1>8 DEF EnrollInv

LEMMA ClearCodeKeeps ==
    ASSUME EnrollInv, ClearCode
    PROVE  EnrollInv'
<1>0. /\ handler.op = "clear" /\ handler.device \in DeviceRecords /\ handler.device.cred \in Creds
      /\ process = "up" /\ ceremony = None /\ handler.device.cred \in 1..challenges
      /\ UNCHANGED <<wall, deviceFile, process, ceremony, console, minted, challenges,
                     via, wrong, forgotten, acked, tried, cut, raced>>
      /\ \/ /\ codeFile' = None
            /\ devices' = devices \cup {handler.device}
            /\ answered' = answered \cup {handler.device.cred}
            /\ handler' = Idle
         \/ /\ handler' = [op |-> "rollback", device |-> handler.device]
            /\ UNCHANGED <<codeFile, devices, answered>>
  BY HandlerParts, EnrollNumbers
  DEF EnrollInv, ClearCode, CodeCleared, Quiet, DeviceRecords, Idle, NeverReused
<1>f. CASE /\ handler' = [op |-> "rollback", device |-> handler.device]
           /\ UNCHANGED <<codeFile, devices, answered>>
  <2>1. handler'.op = "rollback" /\ handler'.device = handler.device /\ handler' \in Handlers
    BY <1>0, <1>f DEF Handlers
  <2>2. EnrollTyped' /\ Quiet' /\ Coded' /\ NeverReused'
    BY <1>0, <1>f, <2>1 DEF EnrollInv, EnrollTyped, Quiet, Coded, Tallied, NeverReused, Unseen, Everywhere, Kept
  <2>3. OneEach' /\ CodesSpent' /\ NoneMinted'
    BY <1>0, <1>f, <2>1 DEF EnrollInv, OneEach, EachApart, Apart, CodesSpent, Spent, SpentOn,
       Everywhere, Kept, NoneMinted
  <2>4. ~raced' => Agreed'
    BY <1>0, <1>f, <2>1 DEF EnrollInv, Agreed, AckedIn, CredsOf
  <2> QED
    BY <2>2, <2>3, <2>4 DEF EnrollInv
<1> SUFFICES ASSUME /\ codeFile' = None
                    /\ devices' = devices \cup {handler.device}
                    /\ answered' = answered \cup {handler.device.cred}
                    /\ handler' = Idle
             PROVE  EnrollInv'
  BY <1>0, <1>f
<1>s. handler'.op = "idle" /\ handler' \in Handlers
  BY DEF Idle, Handlers
<1>1. EnrollTyped'
  BY <1>0, <1>s DEF EnrollInv, EnrollTyped
<1>2. Quiet'
  BY <1>0, <1>s DEF EnrollInv, Quiet
<1>3. Coded'
  BY <1>0, <1>s DEF EnrollInv, Coded, Tallied
<1>4. NeverReused'
  <2>1. \A c \in Creds : c > challenges => c # handler.device.cred
    BY <1>0, EnrollNumbers DEF EnrollInv, EnrollTyped
  <2> QED
    BY <1>0, <1>s, <2>1 DEF EnrollInv, NeverReused, Unseen, Everywhere, Kept
<1>5. OneEach'
  <2>1. \A c \in devices : Apart(c, handler.device) /\ Apart(handler.device, c)
    BY <1>0 DEF EnrollInv, OneEach, Apart
  <2>2. EachApart(devices \cup {handler.device})
    BY <2>1 DEF EnrollInv, OneEach, EachApart
  <2>3. EachApart(devices)' /\ EachApart(deviceFile)' /\ EachApart(Kept)'
    BY <1>0, <2>2 DEF EnrollInv, OneEach, EachApart, Apart, Kept
  <2> QED
    BY <1>0, <1>s, <2>3 DEF EnrollInv, OneEach, Everywhere, Kept
<1>6. CodesSpent'
  BY <1>0, <1>s DEF CodesSpent
<1>7. NoneMinted'
  BY <1>0, <1>s DEF NoneMinted
<1>8. ~raced' => Agreed'
  <2> SUFFICES ASSUME ~raced PROVE Agreed'
    BY <1>0
  <2>1. CredsOf(devices)' = CredsOf(devices) \cup {handler.device.cred}
    BY DEF CredsOf
  <2>2. Agreed /\ handler.device \in deviceFile /\ CredsOf(deviceFile)' = CredsOf(deviceFile)
    BY <1>0 DEF EnrollInv, Agreed, CredsOf
  <2>3. handler.device.cred \in CredsOf(deviceFile)
    BY <2>2 DEF CredsOf
  <2>4. AckedIn(deviceFile)' /\ AckedIn(devices)'
    BY <1>0, <2>2 DEF Agreed, AckedIn
  <2> QED
    BY <1>0, <1>s, <2>1, <2>2, <2>3, <2>4 DEF Agreed
<1> QED BY <1>1, <1>2, <1>3, <1>4, <1>5, <1>6, <1>7, <1>8 DEF EnrollInv

LEMMA RollbackKeeps ==
    ASSUME EnrollInv, Rollback
    PROVE  EnrollInv'
<1>0. /\ handler.op = "rollback" /\ handler.device \in DeviceRecords /\ handler' = Idle
      /\ process = "up" /\ ceremony = None /\ devices \subseteq Everywhere
      /\ UNCHANGED <<wall, codeFile, process, devices, ceremony, console, minted, challenges,
                     answered, via, wrong, forgotten, acked, tried, raced>>
      /\ \/ deviceFile' = devices /\ UNCHANGED cut
         \/ cut' = cut \cup {via[handler.device.cred]} /\ UNCHANGED deviceFile
  BY HandlerParts DEF EnrollInv, Rollback, Quiet, Idle, Everywhere
<1>s. handler'.op = "idle" /\ handler' \in Handlers
  BY <1>0 DEF Idle, Handlers
<1>t. Everywhere' \subseteq Everywhere /\ Kept' = Kept /\ Kept \subseteq Everywhere
  BY <1>0 DEF Everywhere, Kept
<1>1. EnrollTyped'
  BY EnrollNumbers, HandlerParts DEF EnrollInv, EnrollTyped, Quiet, Handlers, Consoles, DeviceRecords, CodeFiles, Ceremonies, Rollback, WriteOK, WriteFails, Idle, CodeFiles, DeviceRecords,
    diskVars, memoryVars, enrollHistory, enrollBounds
<1>2. Quiet'
  BY EnrollNumbers, HandlerParts DEF EnrollInv, EnrollTyped, Quiet, Handlers, Consoles, DeviceRecords, CodeFiles, Ceremonies, Rollback, WriteOK, WriteFails, Idle, CodeFiles, DeviceRecords,
    diskVars, memoryVars, enrollHistory, enrollBounds
<1>3. Coded'
  BY EnrollNumbers, HandlerParts DEF EnrollInv, EnrollTyped, Quiet, Coded, Tallied, Rollback, WriteOK, WriteFails, Idle, CodeFiles, DeviceRecords,
    diskVars, memoryVars, enrollHistory, enrollBounds
<1>4. NeverReused'
  BY EnrollNumbers, HandlerParts DEF EnrollInv, EnrollTyped, Quiet, NeverReused, Unseen, Everywhere, Kept, Rollback, WriteOK, WriteFails, Idle, CodeFiles, DeviceRecords,
    diskVars, memoryVars, enrollHistory, enrollBounds
<1>5. OneEach'
  BY EnrollNumbers, HandlerParts DEF EnrollInv, EnrollTyped, Quiet, OneEach, EachApart, Apart, Everywhere, Kept, Rollback, WriteOK, WriteFails, Idle, CodeFiles, DeviceRecords,
    diskVars, memoryVars, enrollHistory, enrollBounds
<1>6. CodesSpent'
  <2> SUFFICES ASSUME codeFile # None, NEW c \in Everywhere',
                      via[c.cred] = codeFile.code
               PROVE  SpentOn(c, codeFile)'
    BY <1>0, <1>s DEF CodesSpent, Spent
  <2>1. c \in Everywhere /\ SpentOn(c, codeFile)
    BY <1>0, <1>t DEF EnrollInv, CodesSpent, Spent
  <2>2. CASE c.cred # handler.device.cred
    BY <1>0, <1>s, <2>1, <2>2 DEF SpentOn
  <2>3. CASE c.cred = handler.device.cred
    <3>1. c = handler.device /\ c \notin devices
      BY <1>0, <2>1, <2>3 DEF EnrollInv, OneEach, Apart
    <3>2. CASE deviceFile' = devices /\ UNCHANGED cut
      <4>1. console.op = "write"
        BY <1>0, <3>1, <3>2 DEF Everywhere, Kept
      <4> QED
        BY <1>0, <4>1, <3>1 DEF EnrollInv, NoneMinted, SpentOn
    <3>3. CASE cut' = cut \cup {via[handler.device.cred]} /\ UNCHANGED deviceFile
      BY <2>3, <3>3, <1>0 DEF SpentOn
    <3> QED BY <1>0, <3>2, <3>3
  <2> QED BY <2>2, <2>3
<1>7. NoneMinted'
  BY EnrollNumbers, HandlerParts DEF EnrollInv, EnrollTyped, Quiet, NoneMinted, Rollback, WriteOK, WriteFails, Idle, CodeFiles, DeviceRecords,
    diskVars, memoryVars, enrollHistory, enrollBounds
<1>8. ~raced' => Agreed'
  <2> SUFFICES ASSUME ~raced PROVE Agreed'
    BY <1>0
  <2>1. Agreed /\ console.op \notin {"forget", "write"}
    BY <1>0 DEF EnrollInv, Agreed
  <2>2. /\ CredsOf(devices)' = CredsOf(devices)
        /\ CredsOf(deviceFile)' = CredsOf(devices) \/ CredsOf(deviceFile)' = CredsOf(deviceFile)
    BY <1>0 DEF CredsOf
  <2>3. AckedIn(deviceFile)' /\ AckedIn(devices)'
    BY <1>0, <2>1 DEF Agreed, AckedIn
  <2> QED
    BY <1>0, <1>s, <2>1, <2>2, <2>3 DEF Agreed
<1> QED BY <1>1, <1>2, <1>3, <1>4, <1>5, <1>6, <1>7, <1>8 DEF EnrollInv

LEMMA PushRegisterKeeps ==
    ASSUME EnrollInv, NEW device \in devices, NEW token \in Tokens, PushRegister(device, token)
    PROVE  EnrollInv'
<1> DEFINE list == Registered(device, token)
<1>0. /\ process = "up" /\ handler = Idle /\ handler.op = "idle" /\ device \in DeviceRecords
      /\ device.cred \in Creds /\ device.cred # Legacy /\ device.name \in Names
      /\ devices' = list /\ EachApart(devices) /\ devices \subseteq DeviceRecords
      /\ UNCHANGED <<wall, codeFile, process, ceremony, handler, console, minted,
                     challenges, answered, via, wrong, forgotten, cut, raced>>
      /\ \/ /\ deviceFile' = list
            /\ acked' = [acked EXCEPT ![device.cred] = token]
            /\ tried' = [tried EXCEPT ![device.cred] = {}]
         \/ /\ tried' = [tried EXCEPT ![device.cred] = @ \cup {token}]
            /\ UNCHANGED <<deviceFile, acked>>
  BY DEF EnrollInv, EnrollTyped, PushRegister, SavedList, Locked, Idle, OneEach, DeviceRecords
<1>1r. /\ list \subseteq DeviceRecords
       /\ \A d \in list : \E e \in devices :
              /\ d.cred = e.cred /\ d.name = e.name
              /\ d.cred = device.cred => d.token = token
              /\ d.cred # device.cred => d = e
       /\ \A e \in devices : \E d \in list : d.cred = e.cred
       /\ \A c, d \in list : c.cred = d.cred => c = d
  BY <1>0, RegisteredList
<1> HIDE DEF list
<1>t. /\ \A d \in Everywhere' : \E e \in Everywhere : d.cred = e.cred /\ d.name = e.name
      /\ Kept' = Kept
  <2>1. \A d \in Everywhere' : d \in list \/ d \in Everywhere
    BY <1>0 DEF Everywhere, Kept
  <2>2. devices \subseteq Everywhere /\ Kept' = Kept
    BY <1>0 DEF Everywhere, Kept
  <2> QED BY <1>1r, <2>1, <2>2
<1>1. EnrollTyped'
  <2>1. acked' \in [Creds -> Tokens \cup {NoToken}] /\ tried' \in [Creds -> SUBSET Tokens]
    BY <1>0 DEF EnrollInv, EnrollTyped
  <2> QED
    BY <1>0, <1>1r, <2>1 DEF EnrollInv, EnrollTyped
<1>2. Quiet'
  BY EnrollNumbers, HandlerParts DEF EnrollInv, EnrollTyped, Quiet, Handlers, Consoles, DeviceRecords, CodeFiles, Ceremonies, PushRegister, Locked, Registered, SavedList, Idle, WriteOK, WriteFails, CodeFiles, DeviceRecords,
    diskVars, memoryVars, enrollHistory, enrollBounds
<1>3. Coded'
  BY EnrollNumbers, HandlerParts DEF EnrollInv, EnrollTyped, Quiet, Coded, Tallied, PushRegister, Locked, Registered, SavedList, Idle, WriteOK, WriteFails, CodeFiles, DeviceRecords,
    diskVars, memoryVars, enrollHistory, enrollBounds
<1>4. NeverReused'
  <2>1. device \in Everywhere
    BY DEF Everywhere
  <2>2. \A c \in Creds : Unseen(c) => Unseen(c)'
    <3> SUFFICES ASSUME NEW c \in Creds, Unseen(c) PROVE Unseen(c)'
      OBVIOUS
    <3>1. c # device.cred
      BY <2>1 DEF Unseen
    <3>2. \A d \in Everywhere' : d.cred # c
      BY <1>t DEF Unseen
    <3>3. acked'[c] = NoToken
      BY <1>0, <3>1 DEF Unseen, EnrollInv, EnrollTyped
    <3> QED BY <1>0, <3>2, <3>3 DEF Unseen
  <2>3. ceremony # None => ceremony.cred \in Creds
    BY DEF EnrollInv, EnrollTyped, Ceremonies
  <2>4. ceremony # None => Unseen(ceremony.cred)'
    <3> SUFFICES ASSUME ceremony # None PROVE Unseen(ceremony.cred)'
      OBVIOUS
    <3> DEFINE c == ceremony.cred
    <3>1. c \in Creds /\ Unseen(c)
      BY <2>3 DEF EnrollInv, NeverReused
    <3>2. Unseen(c)'
      <4> HIDE DEF c
      <4>1. c' = c
        BY <1>0 DEF c
      <4>2. \A x \in Creds : Unseen(x) => Unseen(x)'
        BY <2>2
      <4> QED BY <4>1, <4>2, <3>1
    <3> QED BY <3>2
  <2> QED
    BY <1>0, <2>2, <2>4 DEF EnrollInv, NeverReused
<1>5. OneEach'
  <2>1. /\ via[Legacy] = None
        /\ \A d \in Everywhere' : d.cred # Legacy => via[d.cred] # None
    BY <1>t DEF EnrollInv, OneEach
  <2>2. \A c, d \in list : c # d => Apart(c, d)
    <3> SUFFICES ASSUME NEW c \in list, NEW d \in list, c # d PROVE Apart(c, d)
      OBVIOUS
    <3>1. PICK x \in devices : x.cred = c.cred /\ x.name = c.name
      BY <1>1r
    <3>2. PICK y \in devices : y.cred = d.cred /\ y.name = d.name
      BY <1>1r
    <3>3. x # y
      BY <1>1r, <3>1, <3>2
    <3> QED
      BY <1>0, <3>1, <3>2, <3>3 DEF EachApart, Apart
  <2>3. EachApart(devices)' /\ EachApart(deviceFile)' /\ EachApart(Kept)'
    BY <1>0, <1>t, <2>2 DEF EnrollInv, OneEach, EachApart, Apart
  <2> QED
    BY <1>0, <2>1, <2>3 DEF OneEach
<1>6. CodesSpent'
  <2> SUFFICES ASSUME codeFile # None, NEW c \in Everywhere',
                      via[c.cred] = codeFile.code
               PROVE  SpentOn(c, codeFile)'
    BY <1>0 DEF CodesSpent, Spent
  <2>1. PICK e \in Everywhere : c.cred = e.cred /\ c.name = e.name
    BY <1>t
  <2>2. SpentOn(e, codeFile)
    BY <2>1 DEF EnrollInv, CodesSpent, Spent
  <2> QED
    BY <1>0, <2>1, <2>2 DEF SpentOn
<1>7. NoneMinted'
  BY EnrollNumbers, HandlerParts DEF EnrollInv, EnrollTyped, Quiet, NoneMinted, PushRegister, Locked, Registered, SavedList, Idle, WriteOK, WriteFails, CodeFiles, DeviceRecords,
    diskVars, memoryVars, enrollHistory, enrollBounds
<1>8. ~raced' => Agreed'
  <2> SUFFICES ASSUME ~raced PROVE Agreed'
    BY <1>0
  <2>1. Agreed /\ console.op \notin {"forget", "write"}
    BY <1>0 DEF EnrollInv, Agreed
  <2>2. /\ CredsOf(devices)' = CredsOf(devices)
        /\ CredsOf(deviceFile)' = CredsOf(devices) \/ CredsOf(deviceFile)' = CredsOf(deviceFile)
    <3>1. CredsOf(list) = CredsOf(devices)
      BY <1>1r DEF CredsOf
    <3> QED BY <1>0, <3>1 DEF CredsOf
  <2>3. /\ acked \in [Creds -> Tokens \cup {NoToken}] /\ tried \in [Creds -> SUBSET Tokens]
        /\ \A d \in DeviceRecords : d.cred \in Creds
        /\ deviceFile \subseteq DeviceRecords
    BY DEF EnrollInv, EnrollTyped, DeviceRecords
  <2>4. \A d \in list :
           acked'[d.cred] # NoToken => d.token \in {acked'[d.cred]} \cup tried'[d.cred]
    <3> SUFFICES ASSUME NEW d \in list, acked'[d.cred] # NoToken
                 PROVE  d.token \in {acked'[d.cred]} \cup tried'[d.cred]
      OBVIOUS
    <3>1. d.cred \in Creds
      BY <1>1r, <2>3
    <3>2. CASE d.cred = device.cred
      BY <1>0, <1>1r, <2>3, <3>2
    <3>3. CASE d.cred # device.cred
      <4>1. d \in devices
        BY <1>1r, <3>3
      <4>2. acked'[d.cred] = acked[d.cred] /\ tried'[d.cred] = tried[d.cred]
        BY <1>0, <2>3, <3>1, <3>3
      <4> QED
        BY <2>1, <4>1, <4>2 DEF Agreed, AckedIn
    <3> QED BY <3>2, <3>3
  <2>5. CASE UNCHANGED <<deviceFile, acked>> /\ tried' = [tried EXCEPT ![device.cred] = @ \cup {token}]
    <3>1. \A c \in Creds : tried[c] \subseteq tried'[c]
      BY <2>3, <2>5
    <3>2. AckedIn(devices)' /\ AckedIn(deviceFile)'
      BY <1>0, <2>1, <2>3, <2>4, <2>5, <3>1 DEF Agreed, AckedIn
    <3>3. CredsOf(deviceFile)' = CredsOf(deviceFile)
      BY <2>5
    <3> QED
      BY <1>0, <2>1, <2>2, <2>5, <3>2, <3>3 DEF Agreed
  <2>6. CASE deviceFile' = list
    <3>1. AckedIn(devices)' /\ AckedIn(deviceFile)'
      BY <1>0, <2>4, <2>6 DEF AckedIn
    <3>2. CredsOf(deviceFile)' = CredsOf(devices)
      BY <1>0, <2>2, <2>6
    <3> QED
      BY <1>0, <2>1, <2>2, <3>1, <3>2 DEF Agreed
  <2> QED
    BY <1>0, <2>5, <2>6
<1> QED BY <1>1, <1>2, <1>3, <1>4, <1>5, <1>6, <1>7, <1>8 DEF EnrollInv

LEMMA LoadKeeps ==
    ASSUME EnrollInv, Load
    PROVE  EnrollInv'
<1>1. EnrollTyped'
  BY EnrollNumbers, HandlerParts DEF EnrollInv, EnrollTyped, Quiet, Handlers, Consoles, DeviceRecords, CodeFiles, Ceremonies, Load, CodeFiles, DeviceRecords,
    diskVars, memoryVars, enrollHistory, enrollBounds
<1>2. Quiet'
  BY EnrollNumbers, HandlerParts DEF EnrollInv, EnrollTyped, Quiet, Handlers, Consoles, DeviceRecords, CodeFiles, Ceremonies, Load, CodeFiles, DeviceRecords,
    diskVars, memoryVars, enrollHistory, enrollBounds
<1>3. Coded'
  BY EnrollNumbers, HandlerParts DEF EnrollInv, EnrollTyped, Quiet, Coded, Tallied, Load, CodeFiles, DeviceRecords,
    diskVars, memoryVars, enrollHistory, enrollBounds
<1>4. NeverReused'
  BY EnrollNumbers, HandlerParts DEF EnrollInv, EnrollTyped, Quiet, NeverReused, Unseen, Everywhere, Kept, Load, CodeFiles, DeviceRecords,
    diskVars, memoryVars, enrollHistory, enrollBounds
<1>5. OneEach'
  <2>1. handler = Idle /\ handler.op = "idle" /\ Everywhere' \subseteq Everywhere /\ Kept' = Kept
    BY DEF EnrollInv, Quiet, Load, Idle, Everywhere, Kept, diskVars
  <2> QED
    BY <2>1 DEF EnrollInv, Load, OneEach, EachApart, Apart, diskVars
<1>6. CodesSpent'
  BY EnrollNumbers, HandlerParts DEF EnrollInv, EnrollTyped, Quiet, CodesSpent, Spent, SpentOn, Everywhere, Kept, Load, CodeFiles, DeviceRecords,
    diskVars, memoryVars, enrollHistory, enrollBounds
<1>7. NoneMinted'
  BY EnrollNumbers, HandlerParts DEF EnrollInv, EnrollTyped, Quiet, NoneMinted, Load, CodeFiles, DeviceRecords,
    diskVars, memoryVars, enrollHistory, enrollBounds
<1>8. ~raced' => Agreed'
  BY EnrollNumbers, HandlerParts DEF EnrollInv, EnrollTyped, Quiet, OneEach, EachApart, Apart, NeverReused, Unseen, Everywhere, Kept, Agreed, AckedIn, CredsOf, Load, DeviceRecords,
    diskVars, memoryVars, enrollHistory, enrollBounds
<1> QED BY <1>1, <1>2, <1>3, <1>4, <1>5, <1>6, <1>7, <1>8 DEF EnrollInv

LEMMA BindKeeps ==
    ASSUME EnrollInv, Bind
    PROVE  EnrollInv'
<1>1. EnrollTyped'
  BY EnrollNumbers, HandlerParts DEF EnrollInv, EnrollTyped, Quiet, Handlers, Consoles, DeviceRecords, CodeFiles, Ceremonies, Bind, CodeFiles, DeviceRecords,
    diskVars, memoryVars, enrollHistory, enrollBounds
<1>2. Quiet'
  BY EnrollNumbers, HandlerParts DEF EnrollInv, EnrollTyped, Quiet, Handlers, Consoles, DeviceRecords, CodeFiles, Ceremonies, Bind, CodeFiles, DeviceRecords,
    diskVars, memoryVars, enrollHistory, enrollBounds
<1>3. Coded'
  BY EnrollNumbers, HandlerParts DEF EnrollInv, EnrollTyped, Quiet, Coded, Tallied, Bind, CodeFiles, DeviceRecords,
    diskVars, memoryVars, enrollHistory, enrollBounds
<1>4. NeverReused'
  BY EnrollNumbers, HandlerParts DEF EnrollInv, EnrollTyped, Quiet, NeverReused, Unseen, Everywhere, Kept, Bind, CodeFiles, DeviceRecords,
    diskVars, memoryVars, enrollHistory, enrollBounds
<1>5. OneEach'
  BY EnrollNumbers, HandlerParts DEF EnrollInv, EnrollTyped, Quiet, OneEach, EachApart, Apart, Everywhere, Kept, Bind, CodeFiles, DeviceRecords,
    diskVars, memoryVars, enrollHistory, enrollBounds
<1>6. CodesSpent'
  BY EnrollNumbers, HandlerParts DEF EnrollInv, EnrollTyped, Quiet, CodesSpent, Spent, SpentOn, Everywhere, Kept, Bind, CodeFiles, DeviceRecords,
    diskVars, memoryVars, enrollHistory, enrollBounds
<1>7. NoneMinted'
  BY EnrollNumbers, HandlerParts DEF EnrollInv, EnrollTyped, Quiet, NoneMinted, Bind, CodeFiles, DeviceRecords,
    diskVars, memoryVars, enrollHistory, enrollBounds
<1>8. ~raced' => Agreed'
  BY EnrollNumbers, HandlerParts DEF EnrollInv, EnrollTyped, Quiet, OneEach, EachApart, Apart, NeverReused, Unseen, Everywhere, Kept, Agreed, AckedIn, CredsOf, Bind, DeviceRecords,
    diskVars, memoryVars, enrollHistory, enrollBounds
<1> QED BY <1>1, <1>2, <1>3, <1>4, <1>5, <1>6, <1>7, <1>8 DEF EnrollInv

LEMMA StopKeeps ==
    ASSUME EnrollInv, Stop
    PROVE  EnrollInv'
<1>1. EnrollTyped'
  BY EnrollNumbers, HandlerParts DEF EnrollInv, EnrollTyped, Quiet, Handlers, Consoles, DeviceRecords, CodeFiles, Ceremonies, Stop, Idle, CodeFiles, DeviceRecords,
    diskVars, memoryVars, enrollHistory, enrollBounds
<1>2. Quiet'
  BY EnrollNumbers, HandlerParts DEF EnrollInv, EnrollTyped, Quiet, Handlers, Consoles, DeviceRecords, CodeFiles, Ceremonies, Stop, Idle, CodeFiles, DeviceRecords,
    diskVars, memoryVars, enrollHistory, enrollBounds
<1>3. Coded'
  BY EnrollNumbers, HandlerParts DEF EnrollInv, EnrollTyped, Quiet, Coded, Tallied, Stop, Idle, CodeFiles, DeviceRecords,
    diskVars, memoryVars, enrollHistory, enrollBounds
<1>4. NeverReused'
  BY EnrollNumbers, HandlerParts DEF EnrollInv, EnrollTyped, Quiet, NeverReused, Unseen, Everywhere, Kept, Stop, Idle, CodeFiles, DeviceRecords,
    diskVars, memoryVars, enrollHistory, enrollBounds
<1>5. OneEach'
  BY EnrollNumbers, HandlerParts DEF EnrollInv, EnrollTyped, Quiet, OneEach, EachApart, Apart, Everywhere, Kept, Stop, Idle, CodeFiles, DeviceRecords,
    diskVars, memoryVars, enrollHistory, enrollBounds
<1>6. CodesSpent'
  BY EnrollNumbers, HandlerParts DEF EnrollInv, EnrollTyped, Quiet, CodesSpent, Spent, SpentOn, Everywhere, Kept, Stop, Idle, CodeFiles, DeviceRecords,
    diskVars, memoryVars, enrollHistory, enrollBounds
<1>7. NoneMinted'
  BY EnrollNumbers, HandlerParts DEF EnrollInv, EnrollTyped, Quiet, NoneMinted, Stop, Idle, CodeFiles, DeviceRecords,
    diskVars, memoryVars, enrollHistory, enrollBounds
<1>8. ~raced' => Agreed'
  BY EnrollNumbers, HandlerParts DEF EnrollInv, EnrollTyped, Quiet, OneEach, EachApart, Apart, NeverReused, Unseen, Everywhere, Kept, Agreed, AckedIn, CredsOf, Stop, Idle, DeviceRecords,
    diskVars, memoryVars, enrollHistory, enrollBounds
<1> QED BY <1>1, <1>2, <1>3, <1>4, <1>5, <1>6, <1>7, <1>8 DEF EnrollInv

LEMMA ConsoleEnrollKeeps ==
    ASSUME EnrollInv, NEW name \in Names, ConsoleEnroll(name)
    PROVE  EnrollInv'
<1>1. EnrollTyped'
  BY EnrollNumbers, HandlerParts DEF EnrollInv, EnrollTyped, Quiet, Handlers, Consoles, DeviceRecords, CodeFiles, Ceremonies, ConsoleEnroll, Idle, CodeFiles, DeviceRecords,
    diskVars, memoryVars, enrollHistory, enrollBounds
<1>2. Quiet'
  BY EnrollNumbers, HandlerParts DEF EnrollInv, EnrollTyped, Quiet, Handlers, Consoles, DeviceRecords, CodeFiles, Ceremonies, ConsoleEnroll, Idle, CodeFiles, DeviceRecords,
    diskVars, memoryVars, enrollHistory, enrollBounds
<1>3. Coded'
  BY EnrollNumbers, HandlerParts DEF EnrollInv, EnrollTyped, Quiet, Coded, Tallied, ConsoleEnroll, Idle, CodeFiles, DeviceRecords,
    diskVars, memoryVars, enrollHistory, enrollBounds
<1>4. NeverReused'
  BY EnrollNumbers, HandlerParts DEF EnrollInv, EnrollTyped, Quiet, NeverReused, Unseen, Everywhere, Kept, ConsoleEnroll, Idle, CodeFiles, DeviceRecords,
    diskVars, memoryVars, enrollHistory, enrollBounds
<1>5. OneEach'
  BY EnrollNumbers, HandlerParts DEF EnrollInv, EnrollTyped, Quiet, OneEach, EachApart, Apart, Everywhere, Kept, ConsoleEnroll, Idle, CodeFiles, DeviceRecords,
    diskVars, memoryVars, enrollHistory, enrollBounds
<1>6. CodesSpent'
  BY EnrollNumbers, HandlerParts DEF EnrollInv, EnrollTyped, Quiet, CodesSpent, Spent, SpentOn, Everywhere, Kept, ConsoleEnroll, Idle, CodeFiles, DeviceRecords,
    diskVars, memoryVars, enrollHistory, enrollBounds
<1>7. NoneMinted'
  BY EnrollNumbers, HandlerParts DEF EnrollInv, EnrollTyped, Quiet, NoneMinted, ConsoleEnroll, Idle, CodeFiles, DeviceRecords,
    diskVars, memoryVars, enrollHistory, enrollBounds
<1>8. ~raced' => Agreed'
  BY EnrollNumbers, HandlerParts DEF EnrollInv, EnrollTyped, Quiet, OneEach, EachApart, Apart, NeverReused, Unseen, Everywhere, Kept, Agreed, AckedIn, CredsOf, ConsoleEnroll, Idle, DeviceRecords,
    diskVars, memoryVars, enrollHistory, enrollBounds
<1> QED BY <1>1, <1>2, <1>3, <1>4, <1>5, <1>6, <1>7, <1>8 DEF EnrollInv

LEMMA ConsoleMintKeeps ==
    ASSUME EnrollInv, ConsoleMint
    PROVE  EnrollInv'
<1>1. EnrollTyped'
  <2>1. minted + 1 \in 1..MaxCodes /\ console.name \in Names /\ wall + CodeTTL \in Int
        /\ minted < MaxCodes
    BY EnrollNumbers, HandlerParts DEF EnrollInv, EnrollTyped, Coded, ConsoleMint
  <2>2. Code(minted + 1, console.name, 0) \in CodeFiles
    BY <2>1, EnrollNumbers DEF Code, CodeFiles
  <2>3. codeFile' \in CodeFiles \cup {None} /\ minted' \in 0..MaxCodes
    BY <2>1, <2>2, EnrollNumbers DEF EnrollInv, EnrollTyped, ConsoleMint
  <2>4. console' \in Consoles
    BY DEF ConsoleMint, Consoles, Idle
  <2> QED
    BY <2>3, <2>4 DEF EnrollInv, EnrollTyped, ConsoleMint, memoryVars, enrollHistory
<1>2. Quiet'
  BY EnrollNumbers, HandlerParts DEF EnrollInv, EnrollTyped, Quiet, Handlers, Consoles, DeviceRecords, CodeFiles, Ceremonies, ConsoleMint, Code, WriteOK, WriteFails, Idle, CodeFiles, DeviceRecords,
    diskVars, memoryVars, enrollHistory, enrollBounds
<1>3. Coded'
  <2>1. /\ minted \in Nat /\ minted < MaxCodes /\ MaxCodes \in Nat /\ console'.op = "idle"
        /\ UNCHANGED <<wrong, via, handler>>
    BY EnrollNumbers DEF EnrollInv, EnrollTyped, Coded, ConsoleMint, Idle, memoryVars, enrollHistory
  <2>2. CASE UNCHANGED <<minted, codeFile>>
    BY <2>1, <2>2 DEF EnrollInv, Coded, Tallied
  <2>3. CASE minted' = minted + 1 /\ codeFile' = Code(minted + 1, console.name, 0)
    <3>1. wrong[minted + 1] = 0
      BY <2>1 DEF EnrollInv, Coded
    <3>2. codeFile'.code = minted' /\ codeFile'.failures = wrong'[codeFile'.code]
      BY <2>1, <2>3, <3>1 DEF Code
    <3>3. handler.op = "strike" => handler.file.code \in Nat
      BY HandlerParts, EnrollNumbers DEF EnrollInv, CodeFiles
    <3>4. handler.op = "save" => handler.via \in Nat
      BY HandlerParts, EnrollNumbers DEF EnrollInv
    <3>5. \A c \in Creds : via[c] # None => via[c] \in Nat
      BY EnrollNumbers DEF EnrollInv, EnrollTyped
    <3> QED
      BY <2>1, <2>3, <3>2, <3>3, <3>4, <3>5 DEF EnrollInv, Coded, Tallied
  <2> QED  BY <2>2, <2>3 DEF ConsoleMint
<1>4. NeverReused'
  BY EnrollNumbers, HandlerParts DEF EnrollInv, EnrollTyped, Quiet, NeverReused, Unseen, Everywhere, Kept, ConsoleMint, Code, WriteOK, WriteFails, Idle, CodeFiles, DeviceRecords,
    diskVars, memoryVars, enrollHistory, enrollBounds
<1>5. OneEach'
  BY EnrollNumbers, HandlerParts DEF EnrollInv, EnrollTyped, Quiet, OneEach, EachApart, Apart, Everywhere, Kept, ConsoleMint, Code, WriteOK, WriteFails, Idle, CodeFiles, DeviceRecords,
    diskVars, memoryVars, enrollHistory, enrollBounds
<1>6. CodesSpent'
  <2>1. /\ Everywhere' \subseteq Everywhere
        /\ UNCHANGED <<handler, ceremony, via, cut>>
        /\ codeFile' = Code(minted + 1, console.name, 0) \/ codeFile' = codeFile
    BY DEF ConsoleMint, Everywhere, Kept, Idle, memoryVars, enrollHistory
  <2>2. \A c \in Everywhere : via[c.cred] # minted + 1
    <3>1. \A c \in Everywhere : c.cred \in Creds
      BY HandlerParts DEF EnrollInv, EnrollTyped, Everywhere, Kept, DeviceRecords
    <3>2. \A c \in Creds : via[c] # None => via[c] <= minted /\ via[c] \in Nat
      BY DEF EnrollInv, EnrollTyped, Coded
    <3>3. minted < MaxCodes /\ minted + 1 # None /\ minted \in Nat
      BY EnrollNumbers DEF EnrollInv, EnrollTyped, Coded, ConsoleMint
    <3> QED BY <3>1, <3>2, <3>3
  <2>3. Code(minted + 1, console.name, 0).code = minted + 1
    BY DEF Code
  <2> QED
    BY <2>1, <2>2, <2>3 DEF EnrollInv, CodesSpent, Spent, SpentOn
<1>7. NoneMinted'
  BY EnrollNumbers, HandlerParts DEF EnrollInv, EnrollTyped, Quiet, NoneMinted, ConsoleMint, Code, WriteOK, WriteFails, Idle, CodeFiles, DeviceRecords,
    diskVars, memoryVars, enrollHistory, enrollBounds
<1>8. ~raced' => Agreed'
  BY EnrollNumbers, HandlerParts DEF EnrollInv, EnrollTyped, Quiet, OneEach, EachApart, Apart, NeverReused, Unseen, Everywhere, Kept, Agreed, AckedIn, CredsOf, ConsoleMint, Code, WriteOK, WriteFails, Idle, DeviceRecords,
    diskVars, memoryVars, enrollHistory, enrollBounds
<1> QED BY <1>1, <1>2, <1>3, <1>4, <1>5, <1>6, <1>7, <1>8 DEF EnrollInv

LEMMA ConsoleForgetKeeps ==
    ASSUME EnrollInv, NEW target, ConsoleForget(target)
    PROVE  EnrollInv'
<1>1. EnrollTyped'
  <2> DEFINE d == CHOOSE d \in Matching(target) : TRUE
  <2>1. Matching(target) # {}
    BY FS_EmptySet DEF ConsoleForget
  <2>2. d \in deviceFile
    BY <2>1 DEF Matching
  <2>3. console' \in Consoles
    BY <2>2 DEF EnrollInv, EnrollTyped, ConsoleForget, Consoles, DeviceRecords
  <2>4. raced' \in BOOLEAN
    BY DEF EnrollInv, EnrollTyped, ConsoleForget
  <2> QED
    BY <2>3, <2>4 DEF EnrollInv, EnrollTyped, ConsoleForget, diskVars, memoryVars, enrollBounds
<1>2. Quiet'
  BY EnrollNumbers, HandlerParts DEF EnrollInv, EnrollTyped, Quiet, Handlers, Consoles, DeviceRecords, CodeFiles, Ceremonies, ConsoleForget, Idle, Listening, CodeFiles, DeviceRecords,
    diskVars, memoryVars, enrollHistory, enrollBounds
<1>3. Coded'
  BY EnrollNumbers, HandlerParts DEF EnrollInv, EnrollTyped, Quiet, Coded, Tallied, ConsoleForget, Idle, Listening, CodeFiles, DeviceRecords,
    diskVars, memoryVars, enrollHistory, enrollBounds
<1>4. NeverReused'
  BY EnrollNumbers, HandlerParts DEF EnrollInv, EnrollTyped, Quiet, NeverReused, Unseen, Everywhere, Kept, ConsoleForget, Idle, Listening, CodeFiles, DeviceRecords,
    diskVars, memoryVars, enrollHistory, enrollBounds
<1>5. OneEach'
  BY EnrollNumbers, HandlerParts DEF EnrollInv, EnrollTyped, Quiet, OneEach, EachApart, Apart, Everywhere, Kept, ConsoleForget, Idle, Listening, CodeFiles, DeviceRecords,
    diskVars, memoryVars, enrollHistory, enrollBounds
<1>6. CodesSpent'
  BY EnrollNumbers, HandlerParts DEF EnrollInv, EnrollTyped, Quiet, CodesSpent, Spent, SpentOn, Everywhere, Kept, ConsoleForget, Idle, Listening, CodeFiles, DeviceRecords,
    diskVars, memoryVars, enrollHistory, enrollBounds
<1>7. NoneMinted'
  BY EnrollNumbers, HandlerParts DEF EnrollInv, EnrollTyped, Quiet, NoneMinted, ConsoleForget, Idle, Listening, CodeFiles, DeviceRecords,
    diskVars, memoryVars, enrollHistory, enrollBounds
<1>8. ~raced' => Agreed'
  BY EnrollNumbers, HandlerParts DEF EnrollInv, EnrollTyped, Quiet, OneEach, EachApart, Apart, NeverReused, Unseen, Everywhere, Kept, Agreed, AckedIn, CredsOf, ConsoleForget, Idle, Listening, DeviceRecords,
    diskVars, memoryVars, enrollHistory, enrollBounds
<1> QED BY <1>1, <1>2, <1>3, <1>4, <1>5, <1>6, <1>7, <1>8 DEF EnrollInv

LEMMA ForgetReadKeeps ==
    ASSUME EnrollInv, ForgetRead
    PROVE  EnrollInv'
<1>1. EnrollTyped'
  BY EnrollNumbers, HandlerParts DEF EnrollInv, EnrollTyped, Quiet, Handlers, Consoles, DeviceRecords, CodeFiles, Ceremonies, ForgetRead, CredsOf, Idle, CodeFiles, DeviceRecords,
    diskVars, memoryVars, enrollHistory, enrollBounds
<1>2. Quiet'
  BY EnrollNumbers, HandlerParts DEF EnrollInv, EnrollTyped, Quiet, Handlers, Consoles, DeviceRecords, CodeFiles, Ceremonies, ForgetRead, CredsOf, Idle, CodeFiles, DeviceRecords,
    diskVars, memoryVars, enrollHistory, enrollBounds
<1>3. Coded'
  BY EnrollNumbers, HandlerParts DEF EnrollInv, EnrollTyped, Quiet, Coded, Tallied, ForgetRead, CredsOf, Idle, CodeFiles, DeviceRecords,
    diskVars, memoryVars, enrollHistory, enrollBounds
<1>4. NeverReused'
  <2>1. \A c \in Creds : Unseen(c) => Unseen(c)'
    <3> SUFFICES ASSUME NEW c \in Creds, Unseen(c) PROVE Unseen(c)'
      OBVIOUS
    <3>1. /\ console'.op = "write" => console'.kept \subseteq deviceFile /\ console'.cred \in CredsOf(deviceFile)
          /\ UNCHANGED <<devices, deviceFile, answered, forgotten, acked>>
      BY DEF ForgetRead, Idle, diskVars, memoryVars, enrollHistory
    <3>2. \A d \in deviceFile : d.cred # c
      BY DEF Unseen, Everywhere
    <3>3. Everywhere' \subseteq Everywhere
      BY <3>1 DEF Everywhere, Kept
    <3> QED BY <3>1, <3>2, <3>3 DEF Unseen, CredsOf
  <2>2. /\ ceremony # None => ceremony.cred \in Creds
        /\ handler.op = "save" => handler.device.cred \in Creds
        /\ UNCHANGED <<ceremony, handler, challenges>>
    BY HandlerParts DEF EnrollInv, EnrollTyped, Ceremonies, DeviceRecords, ForgetRead, memoryVars, enrollBounds
  <2>3. \A c : c' = c /\ c \in Creds /\ Unseen(c) => Unseen(c)'
    BY <2>1
  <2> QED
    BY <2>1, <2>2 DEF EnrollInv, NeverReused
<1>5. OneEach'
  BY EnrollNumbers, HandlerParts DEF EnrollInv, EnrollTyped, Quiet, OneEach, EachApart, Apart, Everywhere, Kept, ForgetRead, CredsOf, Idle, CodeFiles, DeviceRecords,
    diskVars, memoryVars, enrollHistory, enrollBounds
<1>6. CodesSpent'
  BY EnrollNumbers, HandlerParts DEF EnrollInv, EnrollTyped, Quiet, CodesSpent, Spent, SpentOn, Everywhere, Kept, ForgetRead, CredsOf, Idle, CodeFiles, DeviceRecords,
    diskVars, memoryVars, enrollHistory, enrollBounds
<1>7. NoneMinted'
  BY EnrollNumbers, HandlerParts DEF EnrollInv, EnrollTyped, Quiet, NoneMinted, ForgetRead, CredsOf, Idle, CodeFiles, DeviceRecords,
    diskVars, memoryVars, enrollHistory, enrollBounds
<1>8. ~raced' => Agreed'
  BY EnrollNumbers, HandlerParts DEF EnrollInv, EnrollTyped, Quiet, OneEach, EachApart, Apart, NeverReused, Unseen, Everywhere, Kept, Agreed, AckedIn, CredsOf, ForgetRead, CredsOf, Idle, DeviceRecords,
    diskVars, memoryVars, enrollHistory, enrollBounds
<1> QED BY <1>1, <1>2, <1>3, <1>4, <1>5, <1>6, <1>7, <1>8 DEF EnrollInv

LEMMA ForgetWriteKeeps ==
    ASSUME EnrollInv, ForgetWrite
    PROVE  EnrollInv'
<1>1. EnrollTyped'
  BY EnrollNumbers, HandlerParts DEF EnrollInv, EnrollTyped, Quiet, Handlers, Consoles, DeviceRecords, CodeFiles, Ceremonies, ForgetWrite, WriteOK, WriteFails, Idle, CodeFiles, DeviceRecords,
    diskVars, memoryVars, enrollHistory, enrollBounds
<1>2. Quiet'
  BY EnrollNumbers, HandlerParts DEF EnrollInv, EnrollTyped, Quiet, Handlers, Consoles, DeviceRecords, CodeFiles, Ceremonies, ForgetWrite, WriteOK, WriteFails, Idle, CodeFiles, DeviceRecords,
    diskVars, memoryVars, enrollHistory, enrollBounds
<1>3. Coded'
  BY EnrollNumbers, HandlerParts DEF EnrollInv, EnrollTyped, Quiet, Coded, Tallied, ForgetWrite, WriteOK, WriteFails, Idle, CodeFiles, DeviceRecords,
    diskVars, memoryVars, enrollHistory, enrollBounds
<1>4. NeverReused'
  BY EnrollNumbers, HandlerParts DEF EnrollInv, EnrollTyped, Quiet, NeverReused, Unseen, Everywhere, Kept, ForgetWrite, WriteOK, WriteFails, Idle, CodeFiles, DeviceRecords,
    diskVars, memoryVars, enrollHistory, enrollBounds
<1>5. OneEach'
  BY EnrollNumbers, HandlerParts DEF EnrollInv, EnrollTyped, Quiet, OneEach, EachApart, Apart, Everywhere, Kept, ForgetWrite, WriteOK, WriteFails, Idle, CodeFiles, DeviceRecords,
    diskVars, memoryVars, enrollHistory, enrollBounds
<1>6. CodesSpent'
  BY EnrollNumbers, HandlerParts DEF EnrollInv, EnrollTyped, Quiet, CodesSpent, Spent, SpentOn, Everywhere, Kept, ForgetWrite, WriteOK, WriteFails, Idle, CodeFiles, DeviceRecords,
    diskVars, memoryVars, enrollHistory, enrollBounds
<1>7. NoneMinted'
  BY EnrollNumbers, HandlerParts DEF EnrollInv, EnrollTyped, Quiet, NoneMinted, ForgetWrite, WriteOK, WriteFails, Idle, CodeFiles, DeviceRecords,
    diskVars, memoryVars, enrollHistory, enrollBounds
<1>8. ~raced' => Agreed'
  <2> SUFFICES ASSUME ~raced PROVE Agreed'
    BY DEF ForgetWrite
  <2>1. Agreed /\ process = "down" /\ devices = {} /\ handler = Idle
    BY DEF EnrollInv, ForgetWrite, Agreed, Quiet
  <2>2. /\ console.op = "write" /\ console'.op = "idle" /\ handler.op = "idle"
        /\ console.kept = {d \in deviceFile : d.cred # console.cred}
        /\ UNCHANGED <<process, devices, handler, answered, acked, tried>>
        /\ \/ deviceFile' = console.kept /\ forgotten' = forgotten \cup {console.cred}
           \/ UNCHANGED <<deviceFile, forgotten>>
    BY <2>1 DEF ForgetWrite, Agreed, Idle, memoryVars
  <2> QED
    BY <2>1, <2>2 DEF Agreed, AckedIn, CredsOf
<1> QED BY <1>1, <1>2, <1>3, <1>4, <1>5, <1>6, <1>7, <1>8 DEF EnrollInv

LEMMA EnrollTickKeeps ==
    ASSUME EnrollInv, EnrollTick
    PROVE  EnrollInv'
<1>1. EnrollTyped'
  BY DEF EnrollInv, EnrollTyped, EnrollTick, diskVars, memoryVars, enrollHistory, enrollBounds
<1>2. Quiet'
  BY EnrollNumbers, HandlerParts DEF EnrollInv, EnrollTyped, Quiet, Handlers, Consoles, DeviceRecords, CodeFiles, Ceremonies, EnrollTick, CodeFiles, DeviceRecords,
    diskVars, memoryVars, enrollHistory, enrollBounds
<1>3. Coded'
  BY EnrollNumbers, HandlerParts DEF EnrollInv, EnrollTyped, Quiet, Coded, Tallied, EnrollTick, CodeFiles, DeviceRecords,
    diskVars, memoryVars, enrollHistory, enrollBounds
<1>4. NeverReused'
  BY EnrollNumbers, HandlerParts DEF EnrollInv, EnrollTyped, Quiet, NeverReused, Unseen, Everywhere, Kept, EnrollTick, CodeFiles, DeviceRecords,
    diskVars, memoryVars, enrollHistory, enrollBounds
<1>5. OneEach'
  BY EnrollNumbers, HandlerParts DEF EnrollInv, EnrollTyped, Quiet, OneEach, EachApart, Apart, Everywhere, Kept, EnrollTick, CodeFiles, DeviceRecords,
    diskVars, memoryVars, enrollHistory, enrollBounds
<1>6. CodesSpent'
  BY EnrollNumbers, HandlerParts DEF EnrollInv, EnrollTyped, Quiet, CodesSpent, Spent, SpentOn, Everywhere, Kept, EnrollTick, CodeFiles, DeviceRecords,
    diskVars, memoryVars, enrollHistory, enrollBounds
<1>7. NoneMinted'
  BY EnrollNumbers, HandlerParts DEF EnrollInv, EnrollTyped, Quiet, NoneMinted, EnrollTick, CodeFiles, DeviceRecords,
    diskVars, memoryVars, enrollHistory, enrollBounds
<1>8. ~raced' => Agreed'
  BY EnrollNumbers, HandlerParts DEF EnrollInv, EnrollTyped, Quiet, OneEach, EachApart, Apart, NeverReused, Unseen, Everywhere, Kept, Agreed, AckedIn, CredsOf, EnrollTick, DeviceRecords,
    diskVars, memoryVars, enrollHistory, enrollBounds
<1> QED BY <1>1, <1>2, <1>3, <1>4, <1>5, <1>6, <1>7, <1>8 DEF EnrollInv

LEMMA EnrollStarts == EnrollInit => EnrollInv
<1> SUFFICES ASSUME EnrollInit PROVE EnrollInv
  OBVIOUS
<1>1. /\ handler.op = "idle" /\ handler \in Handlers
      /\ console.op = "idle" /\ console \in Consoles
  BY DEF EnrollInit, Idle, Handlers, Consoles
<1>2. deviceFile = {} \/ \E name \in Names : deviceFile = {Device(Legacy, name)}
  BY EnrollAssumption DEF EnrollInit
<1>3. \A name \in Names : /\ Device(Legacy, name) \in DeviceRecords
                           /\ Device(Legacy, name).cred = Legacy
  BY EnrollNumbers DEF Device, DeviceRecords
<1>4. /\ deviceFile \subseteq DeviceRecords
      /\ \A d \in deviceFile : d.cred = Legacy
      /\ \A c, d \in deviceFile : c = d
  BY <1>2, <1>3
<1>5. EnrollTyped /\ Quiet
  <2>1. /\ via \in [Creds -> (1..MaxCodes) \cup {None}]
        /\ wrong \in [1..MaxCodes -> 0..MaxGuesses]
        /\ acked \in [Creds -> Tokens \cup {NoToken}]
        /\ tried \in [Creds -> SUBSET Tokens]
    BY EnrollNumbers DEF EnrollInit
  <2>2. minted \in 0..MaxCodes /\ challenges \in 0..MaxChallenges
    BY EnrollNumbers DEF EnrollInit
  <2>3. Quiet
    BY <1>1 DEF EnrollInit, Quiet
  <2>4. codeFile \in CodeFiles \cup {None} /\ ceremony \in Ceremonies \cup {None}
    BY DEF EnrollInit
  <2>5. wall \in Int /\ process \in {"down", "loaded", "up"}
    BY DEF EnrollInit
  <2>7. raced \in BOOLEAN
    BY DEF EnrollInit
  <2>6. devices \subseteq DeviceRecords /\ answered \subseteq Creds /\ forgotten \subseteq Creds
    BY DEF EnrollInit
  <2> QED
    BY <1>1, <1>4, <2>1, <2>2, <2>3, <2>4, <2>5, <2>6, <2>7 DEF EnrollTyped
<1>6. Everywhere = deviceFile /\ Kept = {}
  BY <1>1 DEF EnrollInit, Everywhere, Kept
<1>7. Coded
  BY <1>1, EnrollNumbers DEF EnrollInit, Coded
<1>8. NeverReused
  BY <1>1, <1>4, <1>6, EnrollNumbers DEF EnrollInit, NeverReused, Unseen
<1>9. OneEach
  BY <1>1, <1>4, <1>6, EnrollNumbers DEF EnrollInit, OneEach, EachApart
<1>10. CodesSpent /\ NoneMinted
  BY <1>1 DEF EnrollInit, CodesSpent, NoneMinted
<1>11. Agreed
  BY <1>1, <1>4, EnrollNumbers DEF EnrollInit, Agreed, AckedIn, CredsOf
<1> QED
  BY <1>5, <1>7, <1>8, <1>9, <1>10, <1>11 DEF EnrollInv

LEMMA EnrollStutters == EnrollInv /\ UNCHANGED enrollVars => EnrollInv'
<1> SUFFICES ASSUME EnrollInv, UNCHANGED enrollVars PROVE EnrollInv'
  OBVIOUS
<1> USE DEF enrollVars, diskVars, memoryVars, enrollHistory, enrollBounds
<1>1. EnrollTyped' /\ Quiet' /\ Coded' /\ NoneMinted'
  BY DEF EnrollInv, EnrollTyped, Quiet, Coded, Tallied, NoneMinted
<1>2. NeverReused' /\ OneEach' /\ CodesSpent'
  BY DEF EnrollInv, NeverReused, Unseen, OneEach, EachApart, Apart, CodesSpent, Spent, SpentOn,
     Everywhere, Kept
<1>3. ~raced' => Agreed'
  BY DEF EnrollInv, Agreed, AckedIn, CredsOf
<1> QED
  BY <1>1, <1>2, <1>3 DEF EnrollInv

LEMMA EnrollStepKeeps == EnrollInv /\ [EnrollNext]_enrollVars => EnrollInv'
<1> SUFFICES ASSUME EnrollInv, [EnrollNext]_enrollVars PROVE EnrollInv'
  OBVIOUS
<1>1. ASSUME NEW submitted \in 0..minted, CheckCode(submitted) \/ EnrollStart(submitted)
      PROVE  EnrollInv'
  BY <1>1, CheckCodeKeeps, EnrollStartKeeps
<1>2. ASSUME NEW submitted \in 1..minted, NEW cred \in 1..challenges, NEW synced \in BOOLEAN,
             EnrollFinish(submitted, cred, synced)
      PROVE  EnrollInv'
  BY <1>2, EnrollFinishKeeps
<1>3. CASE Strike \/ Expire \/ SaveDevice \/ ClearCode \/ Rollback
  BY <1>3, StrikeKeeps, ExpireKeeps, SaveDeviceKeeps, ClearCodeKeeps, RollbackKeeps
<1>4. ASSUME NEW device \in devices, NEW token \in Tokens, PushRegister(device, token)
      PROVE  EnrollInv'
  BY <1>4, PushRegisterKeeps
<1>5. CASE Load \/ Bind \/ Stop
  BY <1>5, LoadKeeps, BindKeeps, StopKeeps
<1>6. ASSUME NEW name \in Names, ConsoleEnroll(name) PROVE EnrollInv'
  BY <1>6, ConsoleEnrollKeeps
<1>7. ASSUME NEW target \in Names \cup Creds, ConsoleForget(target) PROVE EnrollInv'
  BY <1>7, ConsoleForgetKeeps
<1>8. CASE ConsoleMint \/ ForgetRead \/ ForgetWrite \/ EnrollTick
  BY <1>8, ConsoleMintKeeps, ForgetReadKeeps, ForgetWriteKeeps, EnrollTickKeeps
<1>9. CASE UNCHANGED enrollVars
  BY <1>9, EnrollStutters
<1> QED
  BY <1>1, <1>2, <1>3, <1>4, <1>5, <1>6, <1>7, <1>8, <1>9 DEF EnrollNext

\* What the three properties take from the invariant.
LEMMA EnrollInvShows ==
    ASSUME EnrollInv
    PROVE  DeviceListsAgree /\ CodesAreOneTime /\ AckedTokensSurvive
<1>1. DeviceListsAgree
  BY DEF EnrollInv, Agreed, DeviceListsAgree, DevicesAreDurable, ForgottenStayGone,
     EnrollTyped, Quiet
<1>2. OneDevicePerCode
  BY DEF EnrollInv, OneEach, EachApart, Apart, OneDevicePerCode
<1>3. GuessesAreBounded
  BY EnrollNumbers DEF EnrollInv, EnrollTyped, GuessesAreBounded
<1>4. AckedTokensSurvive
  BY DEF EnrollInv, Agreed, AckedIn, AckedTokensSurvive
<1> QED
  BY <1>1, <1>2, <1>3, <1>4 DEF CodesAreOneTime

LEMMA EnrollInvariant == EnrollSpec => []EnrollInv
<1> QED
  BY EnrollStarts, EnrollStepKeeps, PTL DEF EnrollSpec

\* The daemon's list and the file agree on who may approve, over every crash
\* and failed write, unless `forget` and a start of the daemon overlapped.
THEOREM ListsAgree == EnrollSpec => []DeviceListsAgree
<1> QED
  BY EnrollInvariant, EnrollInvShows, PTL

\* A code is good for one device and for MAX_FAILURES wrong guesses, over
\* restarts, failed writes and a console that writes the same files.
THEOREM CodesStayOneTime == EnrollSpec => []CodesAreOneTime
<1> QED
  BY EnrollInvariant, EnrollInvShows, PTL

\* A push token that was answered for is on file until a later call.
THEOREM TokensSurvive == EnrollSpec => []AckedTokensSurvive
<1> QED
  BY EnrollInvariant, EnrollInvShows, PTL

----------------------------------------------------------------------------
(* Review: the diff tells the candidate.                                   *)

\* None is neither a file nor a tree, whatever a file holds and whatever a tree
\* has for files.
NoneApart ==
    /\ \A x, d : Missing # [exec |-> x, data |-> d]
    /\ \A S, T : NoTree \notin [S -> T]

FileRecord(f) == f = [exec |-> f.exec, data |-> f.data]
\* A tree: a function from paths to files.
Tree(t) == t \in [DOMAIN t -> {t[p] : p \in DOMAIN t}] /\ \A p \in DOMAIN t : FileRecord(t[p])

\* What a tree has at a path is a file there, or nothing.
LEMMA OfTree ==
    ASSUME NoneApart, NEW t, Tree(t), NEW p
    PROVE  /\ p \in DOMAIN t => Of(t, p) = t[p] /\ t[p] # Missing
           /\ p \notin DOMAIN t => Of(t, p) = Missing
           /\ Of(t, p) # Missing => FileRecord(Of(t, p))
<1>1. t # NoTree
  BY DEF NoneApart, Tree
<1>2. p \in DOMAIN t => t[p] # Missing /\ FileRecord(t[p])
  BY Zenon DEF NoneApart, Tree, FileRecord
<1> QED  BY <1>1, <1>2 DEF Of

\* Two trees that have the same at every path are one.
LEMMA SameTree ==
    ASSUME NoneApart, NEW t, NEW u, Tree(t), Tree(u), \A p : Of(t, p) = Of(u, p)
    PROVE  t = u
<1>1. DOMAIN t = DOMAIN u
  BY OfTree
<1>2. \A p \in DOMAIN t : t[p] = u[p]
  BY <1>1, OfTree
<1> QED  BY <1>1, <1>2 DEF Tree

\* A chunk gives the new file to one who has the old.
LEMMA ChunkTells ==
    ASSUME NEW o, NEW n, NEW m, Chunk(o, n) = Chunk(o, m),
           Changed(o, n), Changed(o, m),
           n # Missing => FileRecord(n), m # Missing => FileRecord(m)
    PROVE  n = m
<1>1. Chunk(o, n).mode = Chunk(o, m).mode /\ Chunk(o, n).body = Chunk(o, m).body
  OBVIOUS
<1>2. CASE o = Missing
  <2>1. n # Missing /\ m # Missing
    BY <1>2 DEF Changed
  <2>2. Chunk(o, n).mode = <<"new", n.exec>> /\ Chunk(o, n).body = <<n.data>>
    BY <1>2, <2>1 DEF Chunk
  <2>3. Chunk(o, m).mode = <<"new", m.exec>> /\ Chunk(o, m).body = <<m.data>>
    BY <1>2, <2>1 DEF Chunk
  <2>4. <<"new", n.exec>> = <<"new", m.exec>> /\ <<n.data>> = <<m.data>>
    BY <1>1, <2>2, <2>3, Zenon
  <2>5. n.exec = m.exec /\ n.data = m.data
    BY <2>4
  <2> QED  BY <2>1, <2>5 DEF FileRecord
<1>3. CASE o # Missing
  <2> DEFINE mode(x) == IF x = Missing THEN <<"deleted", o.exec>>
                        ELSE IF o.exec # x.exec THEN <<"old", o.exec, x.exec>> ELSE <<>>
             body(x) == IF x = Missing THEN <<o.data>>
                        ELSE IF o.data # x.data THEN <<o.data, x.data>> ELSE <<>>
  <2>1. ASSUME NEW x PROVE Chunk(o, x).mode = mode(x) /\ Chunk(o, x).body = body(x)
    <3>1. CASE x = Missing
      BY <1>3, <3>1 DEF Chunk
    <3>2. CASE x # Missing
      BY <1>3, <3>2 DEF Chunk
    <3> QED  BY <3>1, <3>2
  <2>2. mode(n) = mode(m) /\ body(n) = body(m)
    <3> HIDE DEF mode, body
    <3> QED  BY <1>1, <2>1, Zenon
  <2>3. n = Missing <=> m = Missing
    BY <2>2
  <2>4. CASE n # Missing
    BY <2>2, <2>3, <2>4 DEF FileRecord
  <2> QED  BY <2>3, <2>4
<1> QED  BY <1>2, <1>3

\* Two trees with one diff from the same tree are one.
LEMMA RenderedTells ==
    ASSUME NoneApart, NEW base, NEW t, NEW u, Tree(t), Tree(u),
           Rendered(base, t) = Rendered(base, u)
    PROVE  t = u
<1> SUFFICES ASSUME NEW p PROVE Of(t, p) = Of(u, p)
  BY SameTree
<1> DEFINE o == Of(base, p)
<1>1. ASSUME NEW c, Tree(c)
      PROVE  /\ p \in DOMAIN Rendered(base, c) <=> Changed(o, Of(c, p))
             /\ p \in DOMAIN Rendered(base, c) => Rendered(base, c)[p] = Chunk(o, Of(c, p))
  <2>1. p \notin DOMAIN c \cup (IF base = NoTree THEN {} ELSE DOMAIN base)
        => o = Missing /\ Of(c, p) = Missing
    BY <1>1, OfTree DEF Of
  <2>2. DOMAIN Rendered(base, c) =
            {q \in DOMAIN c \cup (IF base = NoTree THEN {} ELSE DOMAIN base) :
                Changed(Of(base, q), Of(c, q))}
    BY DEF Rendered
  <2>3. p \in DOMAIN Rendered(base, c) <=> Changed(o, Of(c, p))
    BY <2>1, <2>2 DEF Changed
  <2>4. p \in DOMAIN Rendered(base, c) => Rendered(base, c)[p] = Chunk(o, Of(c, p))
    BY DEF Rendered
  <2> QED  BY <2>3, <2>4
<1>2. CASE p \notin DOMAIN Rendered(base, t)
  BY <1>1, <1>2 DEF Changed
<1>3. CASE p \in DOMAIN Rendered(base, t)
  <2>1. /\ Chunk(o, Of(t, p)) = Chunk(o, Of(u, p))
        /\ Changed(o, Of(t, p)) /\ Changed(o, Of(u, p))
    BY <1>1, <1>3
  <2>2. \A c : Tree(c) /\ Of(c, p) # Missing => FileRecord(Of(c, p))
    BY OfTree
  <2> HIDE DEF o
  <2> QED  BY <2>1, <2>2, ChunkTells
<1> QED  BY <1>2, <1>3

\* The input stays a tree, and what is done is the review of it.
ReviewedInv ==
    /\ Tree(files)
    /\ stage = "done" => /\ outcome.diff = Rendered(baseline, files)
                         /\ baseline # NoTree => DOMAIN outcome.diff # {}

LEMMA ReviewStarts == ReviewInit => ReviewedInv
<1> SUFFICES ASSUME ReviewInit PROVE ReviewedInv
  OBVIOUS
<1>1. DOMAIN files = {} /\ files \in [{} -> {}]
  BY DEF ReviewInit
<1> QED  BY <1>1 DEF ReviewInit, ReviewedInv, Tree

\* What lies below a directory are files.
LEMMA WalkedFiles ==
    ASSUME NEW D, NEW M, NEW dir, Walked(D, M, dir) # Refused
    PROVE  \A p \in DOMAIN Walked(D, M, dir) : FileRecord(Walked(D, M, dir)[p])
BY DEF Walked, FileRecord

\* They are added to the input.
LEMMA TreeGrows ==
    ASSUME NEW t, Tree(t), NEW more, \A p \in DOMAIN more : FileRecord(more[p]), NEW u,
           u = [p \in DOMAIN t \cup DOMAIN more |-> IF p \in DOMAIN t THEN t[p] ELSE more[p]]
    PROVE  Tree(u)
<1>1. \A p \in DOMAIN u : FileRecord(u[p])
  BY DEF Tree
<1> QED  BY <1>1 DEF Tree

LEMMA CollectKeeps == ASSUME ReviewedInv, Collect PROVE ReviewedInv'
<1>1. stage = "collect" /\ stage' \in {"collect", "refused"}
  BY DEF Collect
<1>2. CASE UNCHANGED files
  BY <1>1, <1>2 DEF ReviewedInv
<1>3. CASE files' # files
  <2> DEFINE more == Walked(disk, modes, Last(queue))
  <2>1. /\ more # Refused
        /\ files' = [p \in DOMAIN files \cup DOMAIN more |->
                         IF p \in DOMAIN files THEN files[p] ELSE more[p]]
    BY <1>3 DEF Collect, collectVars
  <2>2. \A p \in DOMAIN more : FileRecord(more[p])
    BY <2>1, WalkedFiles
  <2> HIDE DEF more
  <2>3. Tree(files')
    BY <2>1, <2>2, TreeGrows DEF ReviewedInv
  <2> QED  BY <1>1, <2>3 DEF ReviewedInv
<1> QED  BY <1>2, <1>3

LEMMA ReviewedKeeps == ASSUME ReviewedInv, Reviewed PROVE ReviewedInv'
<1>1. UNCHANGED <<files, baseline>>
  BY DEF Reviewed, collectVars
<1>2. CASE outcome' = Refused
  BY <1>1, <1>2 DEF Reviewed, ReviewedInv
<1>3. CASE outcome' # Refused
  <2>1. outcome' = ReviewOf(baseline, files)
    BY DEF Reviewed
  <2>2. /\ outcome'.diff = Rendered(baseline, files)
        /\ ~(baseline # NoTree /\ DOMAIN Rendered(baseline, files) = {})
    BY <1>3, <2>1 DEF ReviewOf
  <2> QED  BY <1>1, <2>2 DEF ReviewedInv
<1> QED  BY <1>2, <1>3

LEMMA ReviewStepKeeps == ReviewedInv /\ [ReviewNext]_reviewVars => ReviewedInv'
<1> SUFFICES ASSUME ReviewedInv, [ReviewNext]_reviewVars PROVE ReviewedInv'
  OBVIOUS
<1>1. ASSUME UNCHANGED <<files, baseline, outcome>>, stage' # "done" \/ stage' = stage
      PROVE  ReviewedInv'
  BY <1>1 DEF ReviewedInv
<1>2. ASSUME NEW e \in Entries, Unpack(e) PROVE ReviewedInv'
  <2>1. UNCHANGED <<files, baseline, outcome>> /\ stage' \in {stage, "refused"}
    BY <1>2 DEF Unpack, Stops, collectVars
  <2> QED  BY <1>1, <2>1
<1>3. CASE UnpackFails \/ Unpacked
  <2>1. UNCHANGED <<files, baseline, outcome>> /\ stage' # "done"
    BY <1>3 DEF UnpackFails, Unpacked, Stops, collectVars
  <2> QED  BY <1>1, <2>1
<1>4. CASE UNCHANGED reviewVars
  BY <1>1, <1>4 DEF reviewVars, collectVars
<1> QED  BY <1>2, <1>3, <1>4, CollectKeeps, ReviewedKeeps DEF ReviewNext

\* A tree one file away is a tree.
LEMMA EditedTree ==
    ASSUME NEW t, Tree(t), NEW p, NEW f, f # Missing => FileRecord(f)
    PROVE  Tree(Edited(t, p, f))
<1>1. CASE f = Missing
  BY <1>1 DEF Tree, Edited
<1>2. CASE f # Missing
  <2>1. \A q \in DOMAIN With(t, p, f) : FileRecord(With(t, p, f)[q])
    BY <1>2 DEF With, Tree
  <2>2. Tree(With(t, p, f))
    BY <2>1 DEF Tree, With
  <2> QED  BY <1>2, <2>2 DEF Edited
<1> QED  BY <1>1, <1>2

\* Whatever the archive, the baseline and the bounds: no other tree, near or far,
\* has the diff an approver was shown against the same baseline, and a candidate
\* the review lets through is not the baseline (review.rs render and review).
THEOREM DiffTells == ASSUME NoneApart PROVE ReviewSpec => []DiffTellsAll
<1>1. ReviewedInv => DiffTellsAll
  <2> SUFFICES ASSUME ReviewedInv, stage = "done" PROVE DiffTellsAll
    BY DEF DiffTellsAll
  <2>1. files # baseline
    <3>1. CASE baseline = NoTree
      BY <3>1 DEF ReviewedInv, Tree, NoneApart
    <3>2. CASE baseline # NoTree
      <4>1. PICK p \in DOMAIN Rendered(baseline, files) : TRUE
        BY <3>2 DEF ReviewedInv
      <4>2. Changed(Of(baseline, p), Of(files, p))
        BY <4>1 DEF Rendered
      <4> QED  BY <4>2 DEF Changed
    <3> QED  BY <3>1, <3>2
  <2>2. ASSUME NEW p, NEW f \in [exec : BOOLEAN, data : Data] \cup {Missing},
               Rendered(baseline, Edited(files, p, f)) = outcome.diff
        PROVE  Edited(files, p, f) = files
    <3>1. f # Missing => FileRecord(f)
      BY DEF FileRecord
    <3>2. Tree(files) /\ outcome.diff = Rendered(baseline, files)
      BY DEF ReviewedInv
    <3> QED  BY <2>2, <3>1, <3>2, EditedTree, RenderedTells
  <2> QED  BY <2>1, <2>2 DEF DiffTellsAll
<1> QED  BY <1>1, ReviewStarts, ReviewStepKeeps, PTL DEF ReviewSpec

----------------------------------------------------------------------------
(* Presented: what is applied is what was shown.                           *)

\* Until the context is replaced Terraform works in the one recorded, and one
\* replacement is there to be found.
WorkedSince ==
    /\ replaced \in Nat
    /\ at = "start" => workedIn = {} /\ recorded = Absent /\ replaced = 0
    /\ at = "init" \/ workedIn # {} =>
          /\ replaced = 0 => context = recorded /\ workedIn \subseteq {recorded}
          /\ replaced = 1 => context # recorded

\* What each stage of an apply job knows of the stages before it.
OfApply == at \in {"submit", "accepted", "apply"} /\ scope.kind = "apply"
StagesStand ==
    /\ at \in {"plan", "copy", "show", "present"} \/ OfApply => workedIn # {}
    /\ at = "present" \/ OfApply => summary = Summarize(sha)
    /\ OfApply => scope.plan = sha
    /\ at = "apply" => OfApply /\ (replaced < 2 => workedIn = {recorded})
    /\ applied # Absent => at = "done" /\ AppliedIsShown

ShowingInv == WorkedSince /\ StagesStand

LEMMA ShowingStarts == PresentedInit => ShowingInv
BY DEF PresentedInit, ShowingInv, WorkedSince, StagesStand, OfApply

\* Terraform runs once more, now.
LEMMA WorksOn ==
    ASSUME WorkedSince, at = "init" \/ workedIn # {}, at' # "start", Runs,
           UNCHANGED <<context, recorded, replaced>>
    PROVE  WorkedSince' /\ workedIn' # {}
BY DEF WorkedSince, Runs

\* Nothing runs, and the context stays.
LEMMA WorksNoMore ==
    ASSUME WorkedSince, UNCHANGED <<context, workedIn, recorded, replaced>>,
           at' = at \/ at' \notin {"start", "init"}
    PROVE  WorkedSince'
BY DEF WorkedSince

\* A job that goes on to a stage of which nothing has to be known.
LEMMA Unshown ==
    ASSUME StagesStand, at # "done",
           at' \in {"init", "refused", "inconsistent"}, UNCHANGED applied
    PROVE  StagesStand'
BY DEF StagesStand, OfApply

LEMMA ValidatedShows ==
    ASSUME ShowingInv, NEW text, NEW manifest, Validated(text, manifest)
    PROVE  ShowingInv'
<1>1. StagesStand'
  <2>1. at # "done" /\ at' \in {"init", "refused"} /\ UNCHANGED applied
    BY DEF Validated, Goes
  <2> QED  BY <2>1, Unshown DEF ShowingInv
<1>2. WorkedSince'
  BY DEF ShowingInv, WorkedSince, StagesStand, Validated, Goes
<1> QED  BY <1>1, <1>2 DEF ShowingInv

LEMMA InitShows == ASSUME ShowingInv, RunInit PROVE ShowingInv'
<1>1. /\ at = "init" /\ at' \in {"plan", "refused"} /\ Runs
      /\ UNCHANGED <<context, recorded, replaced, applied>>
  BY DEF RunInit, contextVars, Goes, PlanStops
<1>2. WorkedSince' /\ workedIn' # {}
  BY <1>1, WorksOn DEF ShowingInv
<1>3. StagesStand'
  BY <1>1, <1>2 DEF ShowingInv, StagesStand, OfApply
<1> QED  BY <1>2, <1>3 DEF ShowingInv

LEMMA PlanShows == ASSUME ShowingInv, NEW plan, RunPlan(plan) PROVE ShowingInv'
<1>1. /\ at = "plan" /\ at' \in {"copy", "refused"} /\ Runs
      /\ UNCHANGED <<context, recorded, replaced, applied>>
  BY DEF RunPlan, contextVars, Goes, PlanStops
<1>2. WorkedSince' /\ workedIn' # {}
  BY <1>1, WorksOn DEF ShowingInv, StagesStand
<1>3. StagesStand'
  BY <1>1, <1>2 DEF ShowingInv, StagesStand, OfApply
<1> QED  BY <1>2, <1>3 DEF ShowingInv

LEMMA CopyShows == ASSUME ShowingInv, CopyPlan PROVE ShowingInv'
<1>1. /\ at = "copy" /\ at' \in {"show", "refused"}
      /\ UNCHANGED <<context, recorded, replaced, workedIn, applied>>
  BY DEF CopyPlan, contextVars, Goes, PlanStops
<1>2. WorkedSince'
  BY <1>1, WorksNoMore DEF ShowingInv
<1>3. StagesStand'
  BY <1>1 DEF ShowingInv, StagesStand, OfApply
<1> QED  BY <1>2, <1>3 DEF ShowingInv

\* What is shown is what open_verified found: the copy with the digest's bytes.
LEMMA ShowShows == ASSUME ShowingInv, ShowPlan PROVE ShowingInv'
<1>1. /\ at = "show" /\ at' \in {"present", "refused"} /\ Runs
      /\ UNCHANGED <<context, recorded, replaced, sha, applied>>
  BY DEF ShowPlan, contextVars, Goes, PlanStops
<1>2. WorkedSince' /\ workedIn' # {}
  BY <1>1, WorksOn DEF ShowingInv, StagesStand
<1>3. at' = "present" => summary' = Summarize(sha)
  <2> SUFFICES ASSUME at' = "present" PROVE summary' = Summarize(sha)
    OBVIOUS
  <2>1. summary' # Rejected
    BY DEF ShowPlan, contextVars, Goes, PlanStops
  <2>2. summary' = IF Verified = Absent THEN Rejected ELSE Summarize(Verified)
    BY DEF ShowPlan
  <2> QED  BY <2>1, <2>2 DEF Verified
<1>4. StagesStand'
  BY <1>1, <1>2, <1>3 DEF ShowingInv, StagesStand, OfApply
<1> QED  BY <1>2, <1>4 DEF ShowingInv

LEMMA PresentApplyShows ==
    ASSUME ShowingInv, NEW allow, NEW base, PresentApply(allow, base)
    PROVE  ShowingInv'
<1>1. /\ at = "present" /\ at' \in {"submit", "refused"}
      /\ UNCHANGED <<context, recorded, replaced, workedIn, sha, summary, applied>>
      /\ at' = "submit" => scope'.plan = sha
  BY DEF PresentApply, contextVars, Goes, PlanStops
<1>2. WorkedSince'
  BY <1>1, WorksNoMore DEF ShowingInv
<1>3. StagesStand'
  BY <1>1 DEF ShowingInv, StagesStand, OfApply
<1> QED  BY <1>2, <1>3 DEF ShowingInv

LEMMA PresentTrustShows ==
    ASSUME ShowingInv, NEW own, NEW worker, PresentTrust(own, worker)
    PROVE  ShowingInv'
<1>1. /\ at = "start" /\ at' \in {"submit", "refused"}
      /\ UNCHANGED <<context, recorded, replaced, workedIn, applied>>
  BY DEF PresentTrust, contextVars, Goes
<1>2. WorkedSince'
  BY <1>1, WorksNoMore DEF ShowingInv
<1>3. at' = "submit" => scope'.kind = "trust"
  BY DEF PresentTrust, contextVars, Goes
<1>4. StagesStand'
  BY <1>1, <1>3 DEF ShowingInv, StagesStand, OfApply
<1> QED  BY <1>2, <1>4 DEF ShowingInv

LEMMA SubmittedShows == ASSUME ShowingInv, Submitted PROVE ShowingInv'
<1>1. /\ at = "submit" /\ at' \in {"accepted", "inconsistent"}
      /\ UNCHANGED <<context, recorded, replaced, workedIn, sha, summary, scope, applied>>
  BY DEF Submitted, contextVars, Goes, planVars, shownVars
<1>2. WorkedSince'
  BY <1>1, WorksNoMore DEF ShowingInv
<1>3. StagesStand'
  BY <1>1 DEF ShowingInv, StagesStand, OfApply
<1> QED  BY <1>2, <1>3 DEF ShowingInv

\* The context is the one recorded: it was not replaced, or put back.
LEMMA ClaimedShows == ASSUME ShowingInv, Claimed PROVE ShowingInv'
<1>1. /\ at = "accepted" /\ scope.kind = "apply" /\ at' \in {"apply", "refused"}
      /\ UNCHANGED <<context, recorded, replaced, workedIn, sha, summary, scope, applied>>
      /\ at' = "apply" => context = recorded
  BY DEF Claimed, contextVars, Goes, PlanStops, Pinned, shownVars
<1>2. WorkedSince'
  BY <1>1, WorksNoMore DEF ShowingInv
<1>3. at' = "apply" /\ replaced < 2 => workedIn = {recorded}
  BY <1>1 DEF ShowingInv, StagesStand, OfApply, WorkedSince
<1>4. StagesStand'
  BY <1>1, <1>3 DEF ShowingInv, StagesStand, OfApply
<1> QED  BY <1>2, <1>4 DEF ShowingInv

LEMMA ApplyShows == ASSUME ShowingInv, ApplyPlan PROVE ShowingInv'
<1>1. /\ at = "apply" /\ at' \in {"done", "refused"}
      /\ UNCHANGED <<context, recorded, replaced, workedIn, sha, summary, scope>>
      /\ at' = "done" => applied' = Verified /\ Verified # Absent
      /\ at' = "refused" => applied' = applied
  BY DEF ApplyPlan, contextVars, Goes, PlanStops, shownVars
<1>2. WorkedSince'
  BY <1>1, WorksNoMore DEF ShowingInv
<1>3. Verified # Absent => Verified = sha
  BY DEF Verified
<1>4. StagesStand'
  BY <1>1, <1>3 DEF ShowingInv, StagesStand, OfApply, AppliedIsShown
<1> QED  BY <1>2, <1>4 DEF ShowingInv

LEMMA MeddleShows == ASSUME ShowingInv, NEW plan, Meddle(plan) PROVE ShowingInv'
<1>1. UNCHANGED <<at, context, recorded, replaced, workedIn, sha, summary, scope, applied>>
  BY DEF Meddle, contextVars, shownVars
<1> QED
  BY <1>1 DEF ShowingInv, WorkedSince, StagesStand, OfApply, AppliedIsShown

LEMMA ContextShows == ASSUME ShowingInv, ContextChanges PROVE ShowingInv'
<1>1. /\ UNCHANGED <<at, recorded, workedIn, sha, summary, scope, applied>>
      /\ recorded # Absent /\ context' # context /\ replaced' = replaced + 1
  BY DEF ContextChanges, planVars, shownVars
<1>2. WorkedSince'
  BY <1>1 DEF ShowingInv, WorkedSince
<1>3. replaced' < 2 => replaced < 2
  BY <1>1 DEF ShowingInv, WorkedSince
<1>4. StagesStand'
  BY <1>1, <1>3 DEF ShowingInv, StagesStand, OfApply, AppliedIsShown
<1> QED  BY <1>2, <1>4 DEF ShowingInv

LEMMA StepShows == ASSUME ShowingInv, [PresentedNext]_presentedVars PROVE ShowingInv'
<1>1. CASE UNCHANGED presentedVars
  BY <1>1 DEF ShowingInv, WorkedSince, StagesStand, OfApply, AppliedIsShown,
              presentedVars, planVars, shownVars
<1>2. CASE PresentedNext
  BY <1>2, ValidatedShows, InitShows, PlanShows, CopyShows, ShowShows, PresentApplyShows,
     PresentTrustShows, SubmittedShows, ClaimedShows, ApplyShows, MeddleShows, ContextShows,
     Zenon DEF PresentedNext
<1> QED  BY <1>1, <1>2

\* The plan Terraform applies is the one whose digest and summary were signed,
\* whatever Terraform's user writes to the job's directory, made with the
\* Terraform, plugins and config recorded for it unless those were replaced and
\* put back before the claim (exec.rs open_verified, run.rs check_context), for
\* any schemas, plans and contexts.
THEOREM PlanAppliedIsShown == PresentedSpec => []AppliedIsShown
<1>1. ShowingInv => AppliedIsShown
  BY DEF ShowingInv, StagesStand, AppliedIsShown
<1> QED  BY <1>1, ShowingStarts, StepShows, PTL DEF PresentedSpec

----------------------------------------------------------------------------
(* Presented: equal manifests have one canonical text.                     *)

\* A value in the canonical text: a number's form follows from what it is.
Settled(v) ==
    /\ v.form # "number"
    /\ v.form \in Numeric =>
          /\ v.n \in Int /\ Safe(v)
          /\ v = [form |-> IF Whole(v) THEN "int" ELSE "float", n |-> v.n]

LEMMA NormalizedSettles ==
    ASSUME NEW w, ParsedValue(w), NEW kind, Fits(kind, Normalized(w))
    PROVE  Settled(Normalized(w))
<1>1. CASE w.form \notin Numeric
  BY <1>1 DEF ParsedValue, Settled, Normalized, Numeric
<1>2. CASE w.form \in Numeric
  <2>1. /\ w = [form |-> w.form, n |-> w.n] /\ w.n \in Int
        /\ w.form # "float" => Whole(w)
    BY <1>2 DEF ParsedValue
  <2>2. Normalized(w) = [form |-> Normalized(w).form, n |-> w.n]
    BY <2>1 DEF Normalized
  <2>3. /\ Normalized(w).form \in Numeric
        /\ ~Safe(w) => Normalized(w) = w
        /\ Safe(w) => Normalized(w).form = IF Whole(w) THEN "int" ELSE "float"
    BY <1>2, <2>1 DEF Normalized, Numeric
  <2>4. Safe(Normalized(w))
    BY <2>3 DEF Fits, Numeric
  <2>5. Safe(w) /\ Whole(Normalized(w)) = Whole(w)
    BY <2>2, <2>4 DEF Safe, Whole
  <2> QED  BY <2>1, <2>2, <2>3, <2>4, <2>5 DEF Settled, Numeric
<1> QED  BY <1>1, <1>2

LEMMA ReadBackSettled ==
    ASSUME MaxSafe \in Nat, NEW v, Settled(v)
    PROVE  Normalized(ReadBack(v)) = v
<1>1. CASE v.form \notin Numeric
  BY <1>1 DEF ReadBack, Normalized, Numeric
<1>2. CASE v.form = "float"
  BY <1>2 DEF Settled, ReadBack, Normalized, Numeric, Safe, Whole
<1>3. CASE v.form = "int"
  BY <1>3 DEF Settled, ReadBack, Normalized, Numeric, Safe, Whole
<1>4. v.form # "uint"
  BY DEF Settled, Numeric
<1> QED  BY <1>1, <1>2, <1>3, <1>4 DEF Numeric

\* A value, as Meaning has it.
Means(v) == IF v.form \in Numeric THEN [form |-> "number", n |-> v.n] ELSE v
LEMMA MeaningSettles ==
    ASSUME NEW v, NEW w, Settled(v), Settled(w), Means(v) = Means(w)
    PROVE  v = w
<1>1. v.form \in Numeric <=> w.form \in Numeric
  BY DEF Settled, Means
<1>2. CASE v.form \in Numeric
  <2>1. v.n = w.n
    BY <1>1, <1>2 DEF Means
  <2> QED  BY <1>1, <1>2, <2>1 DEF Settled, Whole
<1>3. CASE v.form \notin Numeric
  BY <1>1, <1>3 DEF Means
<1> QED  BY <1>2, <1>3

\* What validate accepts, name by name.
LEMMA ValidatedParts ==
    ASSUME NEW sch, NEW manifest, Validate(sch, manifest) # Rejected
    PROVE  /\ Validate(sch, manifest) = [name \in DOMAIN sch |-> ValueOf(sch, manifest, name)]
           /\ \A name \in DOMAIN sch : /\ ValueOf(sch, manifest, name) # Absent
                                       /\ Fits(sch[name].kind, ValueOf(sch, manifest, name))
BY DEF Validate

\* Every value is a parsed one, normalized: the manifest's or the default.
LEMMA ValuesSettle ==
    ASSUME NEW text \in Schemas, NEW manifest \in Manifests, NEW sch,
           sch = ParseSchema(text), sch # Rejected, Validate(sch, manifest) # Rejected
    PROVE  /\ DOMAIN sch = DOMAIN text
           /\ \A name \in DOMAIN sch : Settled(ValueOf(sch, manifest, name))
<1>1. /\ DOMAIN sch = DOMAIN text
      /\ \A name \in DOMAIN text : sch[name].default = Default(text[name])
  BY DEF ParseSchema
<1>2. ASSUME NEW name \in DOMAIN sch
      PROVE  Settled(ValueOf(sch, manifest, name))
  <2>1. /\ ValueOf(sch, manifest, name) # Absent
        /\ Fits(sch[name].kind, ValueOf(sch, manifest, name))
    BY ValidatedParts
  <2>2. CASE name \in Given(manifest)
    <3> DEFINE i == CHOOSE k \in DOMAIN manifest : manifest[k][1] = name
    <3>1. i \in DOMAIN manifest
      BY <2>2 DEF Given
    <3>2. ParsedValue(manifest[i][2])
      BY <3>1, InputsParsed
    <3>3. ValueOf(sch, manifest, name) = Normalized(manifest[i][2])
      BY <2>2 DEF ValueOf
    <3> QED  BY <2>1, <3>2, <3>3, NormalizedSettles
  <2>3. CASE name \notin Given(manifest)
    <3>1. ValueOf(sch, manifest, name) = Default(text[name])
      BY <1>1, <2>3 DEF ValueOf
    <3>2. ParsedValue(text[name].default) /\ Default(text[name]) = Normalized(text[name].default)
      BY <1>1, <2>1, <3>1, InputsParsed DEF Default
    <3> QED  BY <2>1, <3>1, <3>2, NormalizedSettles
  <2> QED  BY <2>2, <2>3
<1> QED  BY <1>1, <1>2

\* A finite set in a sequence: each member once.
LEMMA SetToSeqHasAll ==
    ASSUME NEW S, IsFiniteSet(S)
    PROVE  /\ DOMAIN SetToSeq(S) = 1..Cardinality(S) /\ Len(SetToSeq(S)) = Cardinality(S)
           /\ \A x \in S : \E i \in DOMAIN SetToSeq(S) : SetToSeq(S)[i] = x
           /\ \A i \in DOMAIN SetToSeq(S) : SetToSeq(S)[i] \in S
<1> DEFINE n == Cardinality(S)
<1>1. n \in Nat /\ Bijection(1..n, S) # {}
  BY FS_CardinalityType DEF ExistsBijection
<1>2. \E f \in [1..n -> S] : IsInjective(f)
  BY <1>1 DEF Bijection, Injection
<1>3. SetToSeq(S) \in Injection(1..n, S)
  BY <1>2 DEF SetToSeq, Injection
<1>4. IsFiniteSet(1..n) /\ Cardinality(1..n) = n
  BY <1>1, FS_Interval
<1>5. SetToSeq(S) \in Surjection(1..n, S)
  BY <1>3, <1>4, FS_Injection
<1> QED  BY <1>1, <1>3, <1>5 DEF Injection, Surjection

\* Read again, a text is a manifest that gives each of its names once.
LEMMA ReadAgain ==
    ASSUME NEW text, IsFiniteSet(DOMAIN text)
    PROVE  LET m == AsManifest(text)
           IN  /\ Len(m) = Cardinality(DOMAIN text) /\ Given(m) = DOMAIN text
               /\ \A i \in DOMAIN m : m[i][1] \in DOMAIN text /\ m[i][2] = ReadBack(text[m[i][1]])
<1> DEFINE pair(name) == <<name, ReadBack(text[name])>>
           S == {pair(name) : name \in DOMAIN text}
           f == [name \in DOMAIN text |-> pair(name)]
           m == SetToSeq(S)
<1>1. f \in Bijection(DOMAIN text, S)
  <2>1. f \in [DOMAIN text -> S]
    OBVIOUS
  <2>2. IsInjective(f)
    BY DEF IsInjective
  <2>3. \A t \in S : \E name \in DOMAIN text : f[name] = t
    OBVIOUS
  <2> QED  BY <2>1, <2>2, <2>3 DEF Bijection, Injection, Surjection
<1>2. IsFiniteSet(S) /\ Cardinality(S) = Cardinality(DOMAIN text)
  BY <1>1, FS_Bijection DEF ExistsBijection
<1>3. m = AsManifest(text)
  BY DEF AsManifest
<1>4. /\ Len(m) = Cardinality(DOMAIN text)
      /\ \A x \in S : \E i \in DOMAIN m : m[i] = x
      /\ \A i \in DOMAIN m : m[i] \in S
  BY <1>2, SetToSeqHasAll
<1>5. \A i \in DOMAIN m : m[i][1] \in DOMAIN text /\ m[i] = pair(m[i][1])
  <2> SUFFICES ASSUME NEW i \in DOMAIN m
               PROVE  m[i][1] \in DOMAIN text /\ m[i] = pair(m[i][1])
    OBVIOUS
  <2>1. PICK name \in DOMAIN text : m[i] = pair(name)
    BY <1>4
  <2> QED  BY <2>1
<1>6. ASSUME NEW name \in DOMAIN text PROVE \E i \in DOMAIN m : m[i][1] = name
  <2>1. pair(name) \in S
    OBVIOUS
  <2> HIDE DEF m, S
  <2>2. PICK i \in DOMAIN m : m[i] = pair(name)
    BY <1>4, <2>1
  <2> QED  BY <2>2
<1>7. Given(m) = DOMAIN text
  BY <1>5, <1>6 DEF Given
<1> QED  BY <1>3, <1>4, <1>5, <1>7

\* Validated again, a canonical text is itself.
LEMMA ValidatedAgain ==
    ASSUME NEW text \in Schemas, NEW manifest \in Manifests, NEW sch,
           sch = ParseSchema(text), sch # Rejected, Validate(sch, manifest) # Rejected,
           Cardinality(DOMAIN Validate(sch, manifest)) <= MaxEntries
    PROVE  Validate(sch, AsManifest(Validate(sch, manifest))) = Validate(sch, manifest)
<1> DEFINE c == Validate(sch, manifest)
           m == AsManifest(c)
<1>1. /\ c = [name \in DOMAIN sch |-> ValueOf(sch, manifest, name)]
      /\ \A name \in DOMAIN sch : c[name] # Absent /\ Fits(sch[name].kind, c[name])
  BY ValidatedParts
<1>2. /\ DOMAIN sch = DOMAIN text
      /\ \A name \in DOMAIN sch : Settled(c[name])
  BY <1>1, ValuesSettle
<1>3. /\ IsFiniteSet(DOMAIN c) /\ DOMAIN c = DOMAIN sch
      /\ Cardinality(DOMAIN c) <= MaxEntries /\ Cardinality(DOMAIN c) \in Nat
  BY <1>1, <1>2, FS_CardinalityType, InputsParsed
<1> HIDE DEF c
<1>4. /\ Len(m) = Cardinality(DOMAIN c) /\ Given(m) = DOMAIN c
      /\ \A i \in DOMAIN m : m[i][1] \in DOMAIN c /\ m[i][2] = ReadBack(c[m[i][1]])
  BY <1>3, ReadAgain
<1> HIDE DEF m
<1>5. ASSUME NEW name \in DOMAIN sch PROVE ValueOf(sch, m, name) = c[name]
  <2> DEFINE i == CHOOSE k \in DOMAIN m : m[k][1] = name
  <2>1. i \in DOMAIN m /\ m[i][1] = name
    BY <1>3, <1>4 DEF Given
  <2>2. ValueOf(sch, m, name) = Normalized(m[i][2])
    BY <1>3, <1>4 DEF ValueOf
  <2>3. m[i][2] = ReadBack(c[name])
    BY <1>4, <2>1
  <2> QED  BY <1>2, <2>2, <2>3, ReadBackSettled, InputsParsed
<1>6. Validate(sch, m) = [name \in DOMAIN sch |-> ValueOf(sch, m, name)]
  BY <1>1, <1>3, <1>4, <1>5, InputsParsed DEF Validate
<1>7. c = [name \in DOMAIN sch |-> c[name]]
  BY <1>1
<1>8. Validate(sch, m) = c
  BY <1>5, <1>6, <1>7
<1> QED  BY <1>8 DEF m, c

\* Two manifests that mean the same have one canonical text.
LEMMA MeansTheSame ==
    ASSUME NEW text \in Schemas, NEW sch, sch = ParseSchema(text), sch # Rejected,
           NEW one \in Manifests, Validate(sch, one) # Rejected,
           NEW other \in Manifests, Validate(sch, other) # Rejected,
           Meaning(Validate(sch, other)) = Meaning(Validate(sch, one))
    PROVE  Validate(sch, other) = Validate(sch, one)
<1> DEFINE c == Validate(sch, one)
           d == Validate(sch, other)
<1>1. /\ c = [name \in DOMAIN sch |-> ValueOf(sch, one, name)]
      /\ d = [name \in DOMAIN sch |-> ValueOf(sch, other, name)]
  BY ValidatedParts
<1>2. \A name \in DOMAIN sch : Settled(c[name]) /\ Settled(d[name])
  BY <1>1, ValuesSettle
<1>3. /\ Meaning(c) = [name \in DOMAIN sch |-> Means(c[name])]
      /\ Meaning(d) = [name \in DOMAIN sch |-> Means(d[name])]
  BY <1>1 DEF Meaning, Means
<1>4. \A name \in DOMAIN sch : Means(c[name]) = Means(d[name])
  BY <1>3
<1>5. \A name \in DOMAIN sch : c[name] = d[name]
  BY <1>2, <1>4, MeaningSettles
<1> QED  BY <1>1, <1>5

\* The canonical text is a validated manifest's.
CanonicalOfManifest ==
    canonical # Rejected =>
        /\ schema # Rejected
        /\ \E text \in Schemas, manifest \in Manifests :
              schema = ParseSchema(text) /\ canonical = Validate(schema, manifest)

LEMMA CanonicalKeeps ==
    CanonicalOfManifest /\ [PresentedNext]_presentedVars => CanonicalOfManifest'
<1> SUFFICES ASSUME CanonicalOfManifest, [PresentedNext]_presentedVars
             PROVE  CanonicalOfManifest'
  OBVIOUS
<1>1. ASSUME NEW text \in Schemas, NEW manifest \in Manifests, Validated(text, manifest)
      PROVE  CanonicalOfManifest'
  BY <1>1 DEF Validated, CanonicalOfManifest
<1>2. ASSUME UNCHANGED <<schema, canonical>> PROVE CanonicalOfManifest'
  BY <1>2 DEF CanonicalOfManifest
<1>3. ASSUME NEW plan, RunPlan(plan) \/ Meddle(plan) PROVE UNCHANGED <<schema, canonical>>
  BY <1>3 DEF RunPlan, Meddle
<1>4. ASSUME NEW a, NEW b, PresentApply(a, b) \/ PresentTrust(a, b)
      PROVE  UNCHANGED <<schema, canonical>>
  BY <1>4 DEF PresentApply, PresentTrust
<1>5. CASE RunInit \/ CopyPlan \/ ShowPlan \/ Submitted \/ Claimed \/ ApplyPlan \/ ContextChanges
  BY <1>2, <1>5 DEF RunInit, CopyPlan, ShowPlan, Submitted, Claimed, ApplyPlan, ContextChanges
<1>6. CASE UNCHANGED presentedVars
  BY <1>2, <1>6 DEF presentedVars
<1> QED  BY <1>1, <1>2, <1>3, <1>4, <1>5, <1>6, Zenon DEF PresentedNext

\* Whatever the schemas and the manifests: a canonical text is its own
\* canonical text, unless too long to be read, and the only one of all the
\* manifests that mean the same (schema.rs validate, normalize, render).
THEOREM CanonicalIsOne == PresentedSpec => []CanonicalIsFixed
<1>1. PresentedInit => CanonicalOfManifest
  BY DEF PresentedInit, CanonicalOfManifest
<1>2. CanonicalOfManifest => CanonicalIsFixed
  <2> SUFFICES ASSUME CanonicalOfManifest, canonical # Rejected PROVE CanonicalIsFixed
    BY DEF CanonicalIsFixed
  <2>1. PICK text \in Schemas, one \in Manifests :
            schema = ParseSchema(text) /\ canonical = Validate(schema, one)
    BY DEF CanonicalOfManifest
  <2>2. schema # Rejected
    BY DEF CanonicalOfManifest
  <2>3. Cardinality(DOMAIN canonical) <= MaxEntries =>
            Validate(schema, AsManifest(canonical)) = canonical
    BY <2>1, <2>2, ValidatedAgain
  <2>4. ASSUME NEW other \in Manifests, Validate(schema, other) # Rejected,
               Meaning(Validate(schema, other)) = Meaning(canonical)
        PROVE  Validate(schema, other) = canonical
    BY <2>1, <2>2, <2>4, MeansTheSame
  <2> QED  BY <2>3, <2>4 DEF CanonicalIsFixed
<1> QED  BY <1>1, <1>2, CanonicalKeeps, PTL DEF PresentedSpec

----------------------------------------------------------------------------
(* Presented: a trust job shows root's own review.                         *)

\* A warning the daemon takes.
WarningStands(x) ==
    LET steers == x.kind = "schema_variable_steers"
    IN  /\ x.kind \in WarningKinds
        /\ steers = (x.variable # Absent /\ x.into # Absent)
        /\ ~steers => x.variable = Absent /\ x.into = Absent
        /\ x.into # Absent => x.into \in WarningIntos

LEMMA WarningNames ==
    /\ \A k \in DOMAIN OwnWarning : OwnWarning[k] \in WarningKinds
                                    /\ OwnWarning[k] # "schema_variable_steers"
    /\ \A k \in DOMAIN Steered : Steered[k] \in WarningIntos
    /\ "secret_selector" \in WarningIntos /\ "schema_variable_steers" \in WarningKinds
<1>1. \A k \in DOMAIN OwnWarning : OwnWarning[k] \in Range(OwnWarning)
  BY DEF Range
<1>2. \A k \in DOMAIN Steered : Steered[k] \in Range(Steered)
  BY DEF Range
<1>3. \A k \in DOMAIN OwnWarning : OwnWarning[k] # "schema_variable_steers"
  BY DEF OwnWarning
<1> QED  BY <1>1, <1>2, <1>3 DEF WarningKinds, WarningIntos

LEMMA ScannedStand ==
    ASSUME NEW constructs, NEW names, Absent \notin names, Absent \notin WarningIntos,
           NEW x \in Scanned(constructs, names)
    PROVE  WarningStands(x)
<1>1. CASE x \in {[kind |-> OwnWarning[c.what], file |-> c.file,
                   variable |-> Absent, into |-> Absent] :
                      c \in {y \in constructs : y.what \in DOMAIN OwnWarning}}
  BY <1>1, WarningNames DEF WarningStands
<1>2. ASSUME NEW c \in constructs, x \in Steers(c, names)
      PROVE  WarningStands(x)
  <2>1. PICK v \in c.vars \cap names,
             i \in (IF c.what \in DOMAIN Steered THEN {Steered[c.what]} ELSE {})
                   \cup (IF c.onePassword THEN {"secret_selector"} ELSE {}) :
               x = [kind |-> "schema_variable_steers", file |-> c.file, variable |-> v, into |-> i]
    BY <1>2 DEF Steers
  <2>2. i \in WarningIntos /\ v # Absent
    BY <2>1, WarningNames
  <2> QED  BY <2>1, <2>2, WarningNames DEF WarningStands
<1>3. x \in UNION {Steers(c, names) : c \in constructs} \/
      x \in {[kind |-> OwnWarning[c.what], file |-> c.file,
              variable |-> Absent, into |-> Absent] :
                 c \in {y \in constructs : y.what \in DOMAIN OwnWarning}}
  BY DEF Scanned
<1> QED  BY <1>1, <1>2, <1>3

LEMMA SetToSeqIsASeq ==
    ASSUME NEW S, IsFiniteSet(S)
    PROVE  /\ SetToSeq(S) \in Seq(S)
           /\ Len(SetToSeq(S)) = Cardinality(S)
<1>1. Cardinality(S) \in Nat /\ ExistsBijection(1..Cardinality(S), S)
  BY FS_CardinalityType
<1>2. \E f \in [1..Cardinality(S) -> S] : IsInjective(f)
  BY <1>1 DEF ExistsBijection, Bijection, Injection, IsInjective
<1>3. SetToSeq(S) \in [1..Cardinality(S) -> S]
  BY <1>2 DEF SetToSeq
<1> QED
  BY <1>1, <1>3

\* However many there are, what is displayed of them is taken.
LEMMA DisplayedStand ==
    ASSUME MaxWarnings \in Nat, NEW warnings, IsFiniteSet(warnings),
           \A x \in warnings : WarningStands(x)
    PROVE  WarningsStand(DisplayWarnings(warnings))
<1> DEFINE all == SetToSeq(warnings)
           w == DisplayWarnings(warnings)
<1>1. /\ all \in Seq(warnings)
      /\ Len(all) \in Nat /\ DOMAIN all = 1..Len(all)
      /\ \A i \in DOMAIN all : WarningStands(all[i])
  BY SetToSeqHasAll, FS_CardinalityType, SetToSeqIsASeq
<1>2. \A x \in Seq(warnings) : \A i \in DOMAIN x : WarningStands(x[i])
  OBVIOUS
<1>3. w = IF Len(all) <= MaxWarnings THEN [shown |-> all, omitted |-> 0]
          ELSE [shown |-> SubSeq(all, 1, MaxWarnings), omitted |-> Len(all) - MaxWarnings]
  BY DEF DisplayWarnings
<1> HIDE DEF all, w
<1>4. /\ w.shown \in Seq(warnings) /\ Len(w.shown) <= MaxWarnings
      /\ w.omitted > 0 => Len(w.shown) = MaxWarnings
  BY <1>1, <1>3
<1>5. \A i \in DOMAIN w.shown : WarningStands(w.shown[i])
  BY <1>2, <1>4
<1>6. WarningsStand(w)
  BY <1>4, <1>5 DEF WarningsStand, WarningStands
<1> QED  BY <1>6 DEF w

\* Root's own review: its candidate, and its diff or the command that makes it.
RootsOwn ==
    /\ scope.candidate = root.scope.candidate
    /\ IF display.external THEN root.diff = Absent /\ display.verify = root.verify
       ELSE display.diff = root.scope.diff
TrustShown ==
    at \in {"submit", "accepted", "inconsistent"} /\ scope.kind = "trust" =>
        at # "inconsistent" /\ TrustConsistent(scope, display) /\ RootsOwn

LEMMA PresentTrustTells ==
    ASSUME NEW own \in Reviews, NEW worker, PresentTrust(own, worker)
    PROVE  TrustShown'
<1>1. CASE at' = "refused"
  BY <1>1 DEF TrustShown
<1>2. CASE at' # "refused"
  <2>1. /\ worker.scope = own.scope /\ ShownAgrees(worker, own)
        /\ root' = own
        /\ scope' = [kind |-> "trust", candidate |-> worker.scope.candidate,
                     diff |-> worker.scope.diff]
        /\ display' = [NoDisplay EXCEPT
                           !.diff = worker.diff, !.external = worker.diff = Absent,
                           !.verify = IF worker.diff = Absent THEN worker.verify ELSE Absent,
                           !.warnings = DisplayWarnings(Scanned(own.constructs, own.names))]
        /\ at' = "submit"
    BY <1>2 DEF PresentTrust, Goes
  <2>2. /\ display'.manifest = Absent /\ display'.baseline = Absent /\ display'.text = Absent
        /\ display'.diff = worker.diff /\ display'.external = (worker.diff = Absent)
        /\ display'.verify = IF worker.diff = Absent THEN worker.verify ELSE Absent
        /\ display'.warnings = DisplayWarnings(Scanned(own.constructs, own.names))
    BY <2>1 DEF NoDisplay
  <2>3. WarningsStand(display'.warnings)
    BY <2>2, ScannedStand, DisplayedStand, ReviewsTell
  <2>4. TrustConsistent(scope', display')
    BY <2>1, <2>2, <2>3, ReviewsTell DEF TrustConsistent, ShownAgrees
  <2>5. RootsOwn'
    BY <2>1, <2>2 DEF RootsOwn, ShownAgrees
  <2> QED  BY <2>1, <2>4, <2>5 DEF TrustShown
<1> QED  BY <1>1, <1>2

LEMMA TrustStays ==
    ASSUME TrustShown, [PresentedNext]_presentedVars
    PROVE  TrustShown'
<1> DEFINE past == {"submit", "accepted", "inconsistent"}
<1>1. ASSUME at' \notin past \/ scope'.kind # "trust" PROVE TrustShown'
  BY <1>1 DEF TrustShown
<1>2. ASSUME at' = at, UNCHANGED shownVars PROVE TrustShown'
  BY <1>2 DEF TrustShown, RootsOwn, shownVars
<1>3. ASSUME NEW text, NEW manifest, Validated(text, manifest) PROVE TrustShown'
  BY <1>1, <1>3 DEF Validated, Goes
<1>4. CASE RunInit \/ CopyPlan \/ ShowPlan \/ Claimed \/ ApplyPlan
  BY <1>1, <1>4 DEF RunInit, CopyPlan, ShowPlan, Claimed, ApplyPlan, Goes, PlanStops
<1>5. ASSUME NEW plan, RunPlan(plan) PROVE TrustShown'
  BY <1>1, <1>5 DEF RunPlan, Goes, PlanStops
<1>6. ASSUME NEW plan, Meddle(plan) PROVE TrustShown'
  BY <1>2, <1>6 DEF Meddle
<1>7. ASSUME NEW a, NEW b, PresentApply(a, b) PROVE TrustShown'
  BY <1>1, <1>7 DEF PresentApply, Goes, PlanStops
<1>8. CASE Submitted
  <2>1. UNCHANGED shownVars
    BY <1>8 DEF Submitted
  <2>2. CASE scope.kind = "trust"
    <3>1. at = "submit" /\ Consistent(scope, display) => at' = "accepted"
      BY <1>8 DEF Submitted, Goes
    <3>2. at = "submit" /\ TrustConsistent(scope, display)
      BY <1>8, <2>2 DEF Submitted, TrustShown
    <3>3. at' = "accepted"
      BY <2>2, <3>1, <3>2 DEF Consistent
    <3> QED  BY <2>1, <2>2, <3>2, <3>3 DEF TrustShown, RootsOwn, shownVars
  <2>3. CASE scope.kind # "trust"
    BY <1>1, <2>1, <2>3 DEF shownVars
  <2> QED  BY <2>2, <2>3
<1>9. CASE ContextChanges
  BY <1>2, <1>9 DEF ContextChanges
<1>10. CASE UNCHANGED presentedVars
  BY <1>2, <1>10 DEF presentedVars, shownVars
<1>11. ASSUME NEW own \in Reviews, NEW worker, PresentTrust(own, worker) PROVE TrustShown'
  BY <1>11, PresentTrustTells
<1> HIDE DEF past
<1> QED  BY <1>3, <1>4, <1>5, <1>6, <1>7, <1>8, <1>9, <1>10, <1>11, Zenon DEF PresentedNext

\* However many warnings a review finds and whatever the worker says in its
\* place, a trust job shows root's candidate and root's diff, or the command that
\* makes it, and the daemon takes it (run.rs plan_trust, review.rs
\* display_warnings, server.rs check_consistency): "advisory warnings must never
\* block a trust".
THEOREM TrustIsShown == PresentedSpec => []TrustShown
<1>1. PresentedInit => TrustShown
  BY DEF PresentedInit, TrustShown
<1> QED  BY <1>1, TrustStays, PTL DEF PresentedSpec
=============================================================================
