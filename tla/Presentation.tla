----------------------------- MODULE Presentation -----------------------------
(***************************************************************************)
(* The result of a run on the user's screen (tui.ts, with                  *)
(* orchestration/presentation.ts, presentation-reconcile.ts and            *)
(* summary-presentation.ts).  The server leaves a durable notice in the    *)
(* session's inbox and sends one event, which may be lost.  The TUI        *)
(* presents what the event brings, and an interval presents what the inbox *)
(* holds and nobody has presented; the two meet in seen and inflight.      *)
(* A presentation looks a summary up, then tries to render until it is on  *)
(* screen, it does not belong there, or its window is over.                *)
(***************************************************************************)
EXTENDS Integers, Sequences, FiniteSets

CONSTANTS
  Results,         \* runs that end with a notice
  Old,             \* those that had ended when the TUI started
  Rooms,           \* sessions the user can open
  ParentRooms,     \* those that are neither internal nor a subagent's
  RoomOf,          \* each run's session
  SeenCap,         \* SEEN_CAP
  MaxRefreshes,    \* TOAST_REFRESH_MAX
  MaxSteps         \* bound: moves of the user and changes of the session's state

NoRoom == "none"
Waits  == "waits"   \* in reconciling.room: the interval waits for a presentation

ASSUME PresentationAssumption ==
  /\ Rooms \cap {NoRoom, Waits} = {}
  /\ Old \subseteq Results /\ ParentRooms \subseteq Rooms
  /\ RoomOf \in [Results -> Rooms]
  /\ SeenCap \in Nat \ {0} /\ MaxRefreshes \in Nat /\ MaxSteps \in Nat

VARIABLES
  room,        \* ctx.ui.router.current()
  idle,        \* whether the session on screen is idle
  inbox,       \* runs whose notice is in its session's inbox
  events,      \* events on their way
  seen,        \* runs presented or old, in the order they were added
  presenting,  \* presentations under way of each run, by what they wait for; inflight
  refreshes,   \* refreshTimers: each run's
  baselined,
  misread,     \* history: sessions whose first look found an answer that is no list
  reconciling, \* the interval's turn: its session and the notices it has left
  toast,       \* the last result on screen: its run
  shown,       \* history: how often each run's result was presented
  disposed,
  steps

presentationVars == <<room, idle, inbox, events, seen, presenting, refreshes, baselined,
                      misread, reconciling, toast, shown, disposed, steps>>

-----------------------------------------------------------------------------

NoRun   == "none"
NoneUnderWay == [looking |-> 0, rendering |-> 0]
NotNow  == [on |-> FALSE, room |-> NoRoom, todo |-> <<>>]

Has(run)  == \E i \in DOMAIN seen : seen[i] = run
InRoom(r) == {run \in inbox : RoomOf[run] = r}

PresentationInit ==
  /\ room = NoRoom /\ idle = TRUE
  /\ inbox = Old /\ events = {}
  /\ seen = <<>>
  /\ presenting = [run \in Results |-> NoneUnderWay]
  /\ refreshes = [run \in Results |-> 0]
  /\ baselined = {} /\ misread = {}
  /\ reconciling = NotNow
  /\ toast = NoRun /\ shown = [run \in Results |-> 0]
  /\ disposed = FALSE
  /\ steps = 0

-----------------------------------------------------------------------------
(* The user, the host and the server *)

Opens(to) ==
  /\ steps < MaxSteps
  /\ to # room /\ room' = to
  /\ steps' = steps + 1
  /\ UNCHANGED <<idle, inbox, events, seen, presenting, refreshes, baselined, misread, reconciling,
                 toast, shown, disposed>>

StatusChanges ==
  /\ steps < MaxSteps
  /\ idle' = ~idle
  /\ steps' = steps + 1
  /\ UNCHANGED <<room, inbox, events, seen, presenting, refreshes, baselined, misread, reconciling,
                 toast, shown, disposed>>

\* publish leaves the notice, and notify sends the event.
ResultComes(run) ==
  /\ run \notin inbox
  /\ inbox' = inbox \cup {run}
  /\ events' = events \cup {run}
  /\ UNCHANGED <<room, idle, seen, presenting, refreshes, baselined, misread, reconciling, toast,
                 shown, disposed, steps>>

EventLost(run) ==
  /\ run \in events
  /\ events' = events \ {run}
  /\ UNCHANGED <<room, idle, inbox, seen, presenting, refreshes, baselined, misread, reconciling,
                 toast, shown, disposed, steps>>

-----------------------------------------------------------------------------
(* present *)

\* Mutant of MayPresent: a presentation under way does not keep a second one from starting
MayPresentAgain(run) == ~disposed /\ ~Has(run)

MayPresent(run) == ~disposed /\ ~Has(run) /\ presenting[run] = NoneUnderWay

Presents(run) == presenting' = [presenting EXCEPT ![run].looking = @ + 1]

\* A presentation that was rendering is over.
Over(run) == presenting' = [presenting EXCEPT ![run].rendering = @ - 1]

EventArrives(run) ==
  /\ run \in events /\ ~disposed
  /\ events' = events \ {run}
  /\ IF MayPresent(run) THEN Presents(run) ELSE UNCHANGED presenting
  /\ UNCHANGED <<room, idle, inbox, seen, refreshes, baselined, misread, reconciling, toast, shown,
                 disposed, steps>>

\* The summary is looked up, or cannot be: the notice is presented all the same.
LookedUp(run) ==
  /\ presenting[run].looking > 0
  /\ presenting' = [presenting EXCEPT ![run] =
       [looking |-> @.looking - 1, rendering |-> @.rendering + IF disposed THEN 0 ELSE 1]]
  /\ UNCHANGED <<room, idle, inbox, events, seen, refreshes, baselined, misread, reconciling, toast,
                 shown, disposed, steps>>

\* renderOnce: on screen, and isPresentableSession.
Belongs(run) == room = RoomOf[run] /\ room \in ParentRooms

Skips(run) == disposed \/ (room # NoRoom /\ ~Belongs(run))

\* markSeen: the first one added makes room.
Marked(run) ==
  LET kept == IF Len(seen) >= SeenCap THEN Tail(seen) ELSE seen
  IN  IF \E i \in DOMAIN kept : kept[i] = run THEN kept ELSE Append(kept, run)

Rendered(run) ==
  /\ presenting[run].rendering > 0
  /\ ~Skips(run) /\ Belongs(run) /\ idle
  /\ toast' = run
  /\ shown' = [shown EXCEPT ![run] = @ + 1]
  /\ refreshes' = [refreshes EXCEPT ![run] = MaxRefreshes]
  /\ seen' = Marked(run)
  /\ Over(run)
  /\ UNCHANGED <<room, idle, inbox, events, baselined, misread, reconciling, disposed, steps>>

RenderSkipped(run) ==
  /\ presenting[run].rendering > 0
  /\ Skips(run)
  /\ Over(run)
  /\ UNCHANGED <<room, idle, inbox, events, seen, refreshes, baselined, misread, reconciling, toast,
                 shown, disposed, steps>>

\* No session is on screen, or it is busy, until the window is over.
WindowOver(run) ==
  /\ presenting[run].rendering > 0
  /\ ~Skips(run) /\ (room = NoRoom \/ ~idle)
  /\ Over(run)
  /\ UNCHANGED <<room, idle, inbox, events, seen, refreshes, baselined, misread, reconciling, toast,
                 shown, disposed, steps>>

\* The same notice once more, while its session is still there.
Refresh(run) ==
  /\ refreshes[run] > 0
  /\ refreshes' = [refreshes EXCEPT ![run] = @ - 1]
  /\ toast' = IF ~disposed /\ room = RoomOf[run] /\ idle THEN run ELSE toast
  /\ UNCHANGED <<room, idle, inbox, events, seen, presenting, baselined, misread, reconciling,
                 shown, disposed, steps>>

-----------------------------------------------------------------------------
(* The interval *)

\* Mutant of Fresh: the first look at an inbox takes all of it for history
FreshNone(runs) == {}

\* Those that came after the TUI started.
Fresh(runs) == runs \ Old

\* pending.list of a session; an answer that is no list counts as an empty one.
Listed(r, usable) == IF usable THEN InRoom(r) ELSE {}

\* selectUnpresentedNotices.  The first look at a session's inbox takes what is older than
\* the TUI, of what is listed, as seen.
Unseen(r, usable) == {run \in Listed(r, usable) : ~Has(run)}

Turns(runs) == {order \in [1..Cardinality(runs) -> runs] : \A run \in runs :
                  \E i \in DOMAIN order : order[i] = run}

FirstLook(r, usable) ==
  LET new == Unseen(r, usable) IN
    /\ r \notin baselined
    /\ baselined' = baselined \cup {r}
    /\ misread' = IF usable THEN misread ELSE misread \cup {r}
    /\ \E order \in Turns(new \ Fresh(new)) : seen' = seen \o order
    /\ \E order \in Turns(Fresh(new)) : reconciling' = [on |-> TRUE, room |-> r, todo |-> order]

LaterLook(r, usable) ==
  /\ r \in baselined
  /\ \E order \in Turns(Unseen(r, usable)) :
       reconciling' = [on |-> TRUE, room |-> r, todo |-> order]
  /\ UNCHANGED <<seen, baselined, misread>>

\* A look whose read throws changes nothing.
Look(usable) ==
  /\ ~disposed /\ ~reconciling.on
  /\ room # NoRoom
  /\ FirstLook(room, usable) \/ LaterLook(room, usable)
  /\ UNCHANGED <<room, idle, inbox, events, presenting, refreshes, toast, shown, disposed, steps>>

\* The next notice, unless the TUI is closed or the user has left.
NoticesLeft(todo) == reconciling' = [reconciling EXCEPT !.todo = todo]

NextNotice ==
  /\ reconciling.on /\ reconciling.todo # <<>>
  /\ ~disposed /\ room = reconciling.room
  /\ LET run == Head(reconciling.todo) IN
       IF MayPresent(run)
         THEN /\ Presents(run)
              /\ reconciling' = [reconciling EXCEPT !.on = TRUE, !.room = Waits]
         ELSE NoticesLeft(Tail(reconciling.todo)) /\ UNCHANGED presenting
  /\ UNCHANGED <<room, idle, inbox, events, seen, refreshes, baselined, misread, toast, shown,
                 disposed, steps>>

\* Its presentation is over.
NoticeOver ==
  /\ reconciling.on /\ reconciling.room = Waits
  /\ presenting[Head(reconciling.todo)] = NoneUnderWay
  /\ reconciling' = [reconciling EXCEPT !.room = RoomOf[Head(reconciling.todo)],
                                        !.todo = Tail(reconciling.todo)]
  /\ UNCHANGED <<room, idle, inbox, events, seen, presenting, refreshes, baselined, misread, toast,
                 shown, disposed, steps>>

LookOver ==
  /\ reconciling.on /\ reconciling.room # Waits
  /\ reconciling.todo = <<>> \/ disposed \/ room # reconciling.room
  /\ reconciling' = NotNow
  /\ UNCHANGED <<room, idle, inbox, events, seen, presenting, refreshes, baselined, misread, toast,
                 shown, disposed, steps>>

Dispose ==
  /\ ~disposed
  /\ disposed' = TRUE
  /\ refreshes' = [run \in Results |-> 0]
  /\ UNCHANGED <<room, idle, inbox, events, seen, presenting, baselined, misread, reconciling,
                 toast, shown, steps>>

PresentationNext ==
  \/ \E to \in Rooms \cup {NoRoom} : Opens(to)
  \/ StatusChanges
  \/ \E run \in Results :
       \/ ResultComes(run) \/ EventLost(run) \/ EventArrives(run)
       \/ LookedUp(run) \/ Rendered(run) \/ RenderSkipped(run) \/ WindowOver(run)
       \/ Refresh(run)
  \/ \E usable \in BOOLEAN : Look(usable)
  \/ NextNotice \/ NoticeOver \/ LookOver
  \/ Dispose

PresentationSpec == PresentationInit /\ [][PresentationNext]_presentationVars

\* Timers fire, the summary's RPC answers or fails, and an inbox is unreadable only for a while.
PresentationFairness ==
  /\ SF_presentationVars(Look(TRUE)) /\ WF_presentationVars(NextNotice)
  /\ WF_presentationVars(NoticeOver) /\ WF_presentationVars(LookOver)
  /\ \A run \in Results :
       /\ WF_presentationVars(LookedUp(run)) /\ WF_presentationVars(Rendered(run))
       /\ WF_presentationVars(RenderSkipped(run)) /\ WF_presentationVars(WindowOver(run))

-----------------------------------------------------------------------------
(* Properties *)

PresentationTypeOK ==
  /\ room \in Rooms \cup {NoRoom} /\ idle \in BOOLEAN
  /\ inbox \subseteq Results /\ events \subseteq inbox
  /\ seen \in Seq(Results)
  /\ presenting \in [Results -> [looking : Nat, rendering : Nat]]
  /\ refreshes \in [Results -> 0..MaxRefreshes]
  /\ baselined \subseteq Rooms /\ misread \subseteq baselined
  /\ reconciling \in [on : BOOLEAN, room : Rooms \cup {NoRoom, Waits}, todo : Seq(Results)]
  /\ toast \in Results \cup {NoRun} /\ shown \in [Results -> Nat]
  /\ disposed \in BOOLEAN

\* A result is presented once, by the event or by the inbox but not by both; history is not
\* presented at all, unless the first look at its session found no list; each time a result is
\* on screen its session is, and that session is a parent's (presentation-reconcile.ts:14,
\* tui.ts:7).
OnePresentation ==
  /\ [](\A r \in Results : shown[r] <= IF r \in Old /\ RoomOf[r] \notin misread THEN 0 ELSE 1)
  /\ [][toast' # toast => room = RoomOf[toast'] /\ room \in ParentRooms /\ ~disposed]_presentationVars

\* A result whose event was lost is presented all the same, once the user stays in its
\* session and that is idle (tui.ts:344-350).
ResultIsPresented ==
  \A run \in Results \ Old :
    (<>[](room = RoomOf[run] /\ room \in ParentRooms /\ idle /\ ~disposed /\ run \in inbox))
      => <>(shown[run] > 0)
=============================================================================
