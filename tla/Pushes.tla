------------------------------- MODULE Pushes -------------------------------
(***************************************************************************)
(* What the phones are told (src/notify.rs; src/server.rs,                 *)
(* drain_and_append to dispatch_activity_ends, push_activity, the reaper). *)
(* A call collects its pushes and the tokens of closed windows' Live       *)
(* Activities under the lock, lets go, and hands them to tasks of their    *)
(* own, which run side by side with later calls, may fail, and never try   *)
(* again.  What the grants and the jobs decide is modelled elsewhere; here *)
(* a call asks, approves, declines, issues or kills.                       *)
(***************************************************************************)
EXTENDS Integers, Sequences, FiniteSets, SequencesExt

CONSTANTS
    Phones,        \* devices with an APNs token
    Topic,         \* the ntfy topic of NotifyConfig
    Wants,         \* push_kinds: the kinds each phone asked for
    MaxWindows,    \* bound: windows opened
    MaxAlerts,     \* bound: pushes sent
    MaxRestarts    \* bound: restarts

VARIABLES
    asking,        \* whether a request waits for the person
    open,          \* Grants::windows as it was last ticked, by id
    ended,         \* those of them whose end the clock has passed
    activities,    \* Inner::activities: one registered card a window
    failed,        \* Inner::ledger_failed
    tasks,         \* the deliveries each task still has to make
    inbox,         \* the alerts a phone, or the topic, shows
    cards,         \* the Live Activities on the phones' lock screens
    windowCount, alertCount, restarts,
    recorded,      \* history: the alerts whose event is in the ledger
    delivered,     \* history: the alerts that reached a phone or the topic
    gaveUp         \* history: the cards whose end push failed

pushVars == <<asking, open, ended, activities, failed, tasks, inbox, cards,
              windowCount, alertCount, restarts, recorded, delivered, gaveUp>>

Kinds == {"waiting", "opened", "issued", "declined", "killed"}
Places == Phones \cup {Topic}

ASSUME PushesAssumption ==
    /\ Topic \notin Phones
    /\ IsFiniteSet(Phones)
    /\ Wants \in [Phones -> SUBSET Kinds]
    /\ {MaxWindows, MaxAlerts, MaxRestarts} \subseteq Nat

\* Push::is_record: everything but what waits on the person.
IsRecord(kind) == kind # "waiting"

\* Apns::collapse_id: the latest of what waits replaces the one before.
Collapses(alert, place) == place # Topic /\ ~IsRecord(alert.kind)

\* Grants::windows ticks first: a window that has ended is no longer open.
StillOpen == open \ ended

\* The deliveries of one alert: the topic's, which spawn_blocking makes, and
\* the phones', one after the other, for those that want its kind.
Deliveries(alert) ==
    LET wanting == SetToSeq({p \in Phones : alert.kind \in Wants[p]})
    IN  {<<[place |-> Topic, alert |-> alert]>>,
         [i \in 1..Len(wanting) |-> [place |-> wanting[i], alert |-> alert]]} \ {<<>>}

\* reap_activities, and the task dispatch_activity_ends starts for the result.
Closed(windows) == {c \in activities : c.window \notin windows}
EndsOf(gone) ==
    IF gone = {} THEN {} ELSE {SetToSeq({[place |-> c.phone, ends |-> c] : c \in gone})}

----------------------------------------------------------------------------
(* A call, in one hold of the lock.                                        *)

Limits(kind) == alertCount < MaxAlerts

\* audited_or_undo: the pushes of a call that is answered with
\* ledger_unavailable are dropped; `with` sends them whatever the append did.
SentUnrecorded(audited, written) == TRUE   \* wrong: sent although not recorded
Sent(audited, written) == written \/ ~audited

Announce(kind, audited, windows) ==
    \E written \in BOOLEAN :
        LET alert == [n |-> alertCount + 1, kind |-> kind]
            gone == Closed(windows)
        IN  /\ audited => ~failed
            /\ Limits(kind)
            /\ alertCount' = alertCount + 1
            /\ failed' = (failed \/ ~written)
            /\ recorded' = IF written THEN recorded \cup {alert} ELSE recorded
            /\ open' = windows /\ ended' = {}
            /\ activities' = activities \ gone
            /\ tasks' = tasks \cup EndsOf(gone)
                        \cup (IF Sent(audited, written) THEN Deliveries(alert) ELSE {})
            /\ UNCHANGED <<inbox, cards, restarts, delivered, gaveUp>>

\* request: one thing at a time waits on the person.
AskPerson ==
    /\ ~asking
    /\ asking' = TRUE
    /\ Announce("waiting", TRUE, StillOpen)
    /\ UNCHANGED windowCount

\* approve_finish opens a window.
Approve ==
    /\ asking
    /\ windowCount < MaxWindows
    /\ asking' = FALSE
    /\ windowCount' = windowCount + 1
    /\ Announce("opened", TRUE,
                StillOpen \cup {windowCount + 1})

Decline ==
    /\ asking
    /\ asking' = FALSE
    /\ Announce("declined", FALSE, StillOpen)
    /\ UNCHANGED windowCount

Issue ==
    /\ StillOpen # {}
    /\ Announce("issued", TRUE, StillOpen)
    /\ UNCHANGED <<asking, windowCount>>

Kill ==
    /\ StillOpen # {}
    /\ \E w \in StillOpen : Announce("killed", FALSE, StillOpen \ {w})
    /\ UNCHANGED <<asking, windowCount>>

\* push_activity: the app hands over the card it started for an open window,
\* in the place of any card registered for that window before.
PushActivity(card) ==
    /\ card \in cards
    /\ card.window \in StillOpen
    /\ open' = StillOpen /\ ended' = {}
    /\ activities' = {c \in activities \ Closed(StillOpen) : c.window # card.window}
                     \cup {card}
    /\ tasks' = tasks \cup EndsOf(Closed(StillOpen))
    /\ UNCHANGED <<asking, failed, inbox, cards, windowCount, alertCount,
                   restarts, recorded, delivered, gaveUp>>

\* reap_expired, every REAP_INTERVAL.
ReapedNothing == {}   \* wrong: the timer looks, and takes nothing
Reaped == Closed(StillOpen)
Reap ==
    /\ Closed(StillOpen) # {}
    /\ open' = StillOpen /\ ended' = {}
    /\ activities' = activities \ Reaped
    /\ tasks' = tasks \cup EndsOf(Reaped)
    /\ UNCHANGED <<asking, failed, inbox, cards, windowCount, alertCount,
                   restarts, recorded, delivered, gaveUp>>

----------------------------------------------------------------------------
(* The tasks, the phones and the process.                                  *)

\* One delivery of a task, which arrives or fails; the next one follows.
Shown(alert, place) ==
    {a \in inbox[place] : Collapses(alert, place) => ~Collapses(a, place)} \cup {alert}
Deliver(task) ==
    LET d == Head(task)
    IN  /\ tasks' = (tasks \ {task}) \cup ({Tail(task)} \ {<<>>})
        /\ \/ /\ "alert" \in DOMAIN d
              /\ inbox' = [inbox EXCEPT ![d.place] = Shown(d.alert, d.place)]
              /\ delivered' = delivered \cup {<<d.place, d.alert>>}
              /\ UNCHANGED <<cards, gaveUp>>
           \/ /\ "ends" \in DOMAIN d
              /\ cards' = cards \ {d.ends}
              /\ UNCHANGED <<inbox, delivered, gaveUp>>
           \/ /\ gaveUp' = gaveUp \cup (IF "ends" \in DOMAIN d THEN {d.ends} ELSE {})
              /\ UNCHANGED <<inbox, delivered, cards>>
    /\ UNCHANGED <<asking, open, ended, activities, failed, windowCount, alertCount,
                   restarts, recorded>>

\* The app, in front, starts a card for a window it sees.
StartCard(phone, window) ==
    /\ window \in StillOpen
    /\ cards' = cards \cup {[window |-> window, phone |-> phone]}
    /\ UNCHANGED <<asking, open, ended, activities, failed, tasks, inbox, windowCount,
                   alertCount, restarts, recorded, delivered, gaveUp>>

\* Windows, card tokens and tasks live in memory.
Restart ==
    /\ restarts < MaxRestarts
    /\ restarts' = restarts + 1
    /\ asking' = FALSE /\ open' = {} /\ ended' = {} /\ activities' = {}
    /\ failed' = FALSE /\ tasks' = {}
    /\ UNCHANGED <<inbox, cards, windowCount, alertCount, recorded, delivered, gaveUp>>

\* The clock passes a window's end.
Lapse ==
    /\ StillOpen # {}
    /\ \E w \in StillOpen : ended' = ended \cup {w}
    /\ UNCHANGED <<asking, open, activities, failed, tasks, inbox, cards, windowCount,
                   alertCount, restarts, recorded, delivered, gaveUp>>

PushInit ==
    /\ asking = FALSE /\ open = {} /\ ended = {} /\ activities = {} /\ failed = FALSE
    /\ tasks = {} /\ inbox = [p \in Places |-> {}] /\ cards = {}
    /\ windowCount = 0 /\ alertCount = 0 /\ restarts = 0
    /\ recorded = {} /\ delivered = {} /\ gaveUp = {}

PushNext ==
    \/ AskPerson \/ Approve \/ Decline \/ Issue \/ Kill
    \/ \E card \in cards : PushActivity(card)
    \/ Reap
    \/ \E task \in tasks : Deliver(task)
    \/ \E phone \in Phones, window \in open : StartCard(phone, window)
    \/ Restart \/ Lapse

\* The runtime runs the reaper and the tasks; time goes on.
PushFairness ==
    /\ WF_pushVars(Reap)
    /\ WF_pushVars(\E task \in tasks : Deliver(task))
    /\ WF_pushVars(Lapse)
PushSpec == PushInit /\ [][PushNext]_pushVars /\ PushFairness

----------------------------------------------------------------------------
(* Properties.                                                             *)

\* audited_or_undo: "the ledger holds no line for them [...], so the phone is
\* not told": nobody is told of a request, a window or a certificate that is
\* not in the ledger, in whatever order the tasks run.
ToldIsRecorded ==
    \A d \in delivered : d[2].kind \in {"waiting", "opened", "issued"} => d[2] \in recorded

\* "a push already delivered stays on the phone": no later push, delivered in
\* whatever order, takes a record off it.
RecordsStay ==
    \A d \in delivered : IsRecord(d[2].kind) => d[2] \in inbox[d[1]]

\* What the phones are told of can be shown, and goes on being told.
ToldAndKept == ToldIsRecorded /\ RecordsStay

\* reap_activities and the reaper: a card registered for a window is taken off
\* the lock screen once the window has closed, if its push does not fail, no
\* other card was registered in its place, and the daemon is not restarted.
CardsEnd ==
    \A phone \in Phones, id \in 1..MaxWindows :
        LET card == [window |-> id, phone |-> phone]
        IN  [](card \in activities =>
               <>(card \notin cards \/ card \in gaveUp \/ restarts > 0
                  \/ \E c \in activities : c.window = id /\ c # card))
============================================================================
