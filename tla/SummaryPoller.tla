---------------------------- MODULE SummaryPoller ----------------------------
(***************************************************************************)
(* Progress of an active run on the user's screen: the poller              *)
(* (orchestration/active-summary-poller.ts), the TUI that starts and stops *)
(* it as the user moves between sessions (tui.ts), and the read-only RPC   *)
(* it asks (execution-summary-rpc.ts, summary.ts).  A poll asks, the       *)
(* server reads the run, and the answer comes back later: by then the user *)
(* may have left, come back, or closed the TUI, and the poller may have    *)
(* been stopped and started again.                                         *)
(***************************************************************************)
EXTENDS Integers, FiniteSets

CONSTANTS
  Screens,       \* sessions the user can open
  ParentScreens, \* those that are neither internal nor a subagent's
  MaxVersion,    \* bound: steps of each session's run
  MaxMoves       \* bound: moves of the user

ASSUME PollerAssumption ==
  /\ ParentScreens \subseteq Screens
  /\ "nowhere" \notin Screens
  /\ MaxVersion \in Nat \ {0} /\ MaxMoves \in Nat

VARIABLES
  screen,      \* ctx.ui.router.current()
  followed,    \* activeSummarySessionID
  polled,      \* the poller's sessionID
  generation,
  polling,     \* pollingGeneration
  polls,       \* polls under way: session, generation, and the answer once it is read
  lastShown,   \* lastSnapshot
  run,         \* each session's run, as storage has it
  progress,    \* the last progress toast
  closed,      \* disposed
  moves

pollerVars == <<screen, followed, polled, generation, polling, polls, lastShown, run,
                progress, closed, moves>>

-----------------------------------------------------------------------------

Nowhere == "nowhere"
NoGeneration == 0
Unread       == [task |-> "unread", version |-> 0]
Unavailable  == [task |-> "unavailable", version |-> 0]
NothingShown == [task |-> "none", version |-> 0]

\* summarizeExecutionRun: a record that is too old or makes no sense is unavailable.
SummaryOf(record) ==
  IF record.sound THEN [task |-> record.task, version |-> record.version] ELSE Unavailable

\* currentSessionID of the TUI: isPresentableSession.
CurrentSession == IF screen \in ParentScreens THEN screen ELSE Nowhere

PollerInit ==
  /\ screen \in Screens \cup {Nowhere}
  /\ followed = screen /\ polled = screen
  /\ generation = 1 /\ polling = NoGeneration
  /\ polls = {} /\ lastShown = NothingShown
  /\ run = [s \in Screens |-> [task |-> "active", version |-> 1, sound |-> TRUE]]
  /\ progress = [session |-> Nowhere, version |-> 0]
  /\ closed = FALSE
  /\ moves = 0

-----------------------------------------------------------------------------
(* The user, and the run on the server *)

Move(to) ==
  /\ moves < MaxMoves
  /\ screen' = to /\ screen # to
  /\ moves' = moves + 1
  /\ UNCHANGED <<followed, polled, generation, polling, polls, lastShown, run, progress, closed>>

RunAdvances(s) ==
  /\ run[s].version < MaxVersion
  /\ \E task \in {"active", "terminal"}, sound \in BOOLEAN :
       run' = [run EXCEPT ![s] = [task |-> task, version |-> @.version + 1, sound |-> sound]]
  /\ UNCHANGED <<screen, followed, polled, generation, polling, polls, lastShown, progress,
                 closed, moves>>

-----------------------------------------------------------------------------
(* stop and start *)

StopPoller(session) ==
  /\ generation' = generation + 1
  /\ polled' = session
  /\ lastShown' = NothingShown

\* The TUI's interval: the poller follows the screen.  start of the session it polls
\* already does nothing, and stops what it polled before otherwise.
Follow ==
  /\ ~closed
  /\ followed # screen
  /\ followed' = screen
  /\ IF screen # Nowhere /\ polled = screen
       THEN UNCHANGED <<generation, polled, lastShown>>
       ELSE StopPoller(screen)
  /\ UNCHANGED <<screen, polling, polls, run, progress, closed, moves>>

\* Five minutes have passed.
LifetimeEnds ==
  /\ polled # Nowhere
  /\ StopPoller(Nowhere)
  /\ UNCHANGED <<screen, followed, polling, polls, run, progress, closed, moves>>

Close ==
  /\ ~closed
  /\ closed' = TRUE
  /\ StopPoller(Nowhere)
  /\ UNCHANGED <<screen, followed, polling, polls, run, progress, moves>>

-----------------------------------------------------------------------------
(* poll *)

\* Every interval, unless the poll before has not come back.
Poll ==
  /\ polled # Nowhere /\ polling # generation
  /\ IF CurrentSession = polled
       THEN /\ polling' = generation
            /\ polls' = polls \cup {[session |-> polled, generation |-> generation,
                                     answer |-> Unread]}
            /\ UNCHANGED <<generation, polled, lastShown>>
       ELSE StopPoller(Nowhere) /\ UNCHANGED <<polling, polls>>
  /\ UNCHANGED <<screen, followed, run, progress, closed, moves>>

\* createExecutionSummaryHandler reads the session's binding and its run.
ReadSummary(poll) ==
  /\ poll \in polls /\ poll.answer = Unread
  /\ polls' = (polls \ {poll}) \cup {[poll EXCEPT !.answer = SummaryOf(run[poll.session])]}
  /\ UNCHANGED <<screen, followed, polled, generation, polling, lastShown, run, progress,
                 closed, moves>>

\* Mutant of IsOwn: whatever session the poller polls now, if it is the same one
IsOwnBySession(poll) == polled = poll.session

\* Nobody stopped or started the poller meanwhile.
IsOwn(poll) == poll.generation = generation /\ polled = poll.session

\* Only a poll of the current generation lets the next one begin.
PollEnds(poll) ==
  /\ polls' = polls \ {poll}
  /\ polling' = IF polling = poll.generation THEN NoGeneration ELSE polling

AnswerDropped(poll) ==
  /\ poll \in polls /\ poll.answer # Unread
  /\ ~IsOwn(poll)
  /\ PollEnds(poll)
  /\ UNCHANGED <<screen, followed, polled, generation, lastShown, run, progress, closed, moves>>

AnswerElsewhere(poll) ==
  /\ poll \in polls /\ poll.answer # Unread
  /\ IsOwn(poll) /\ CurrentSession # poll.session
  /\ StopPoller(Nowhere)
  /\ PollEnds(poll)
  /\ UNCHANGED <<screen, followed, run, progress, closed, moves>>

AnswerShown(poll) ==
  /\ poll \in polls /\ poll.answer # Unread
  /\ IsOwn(poll) /\ CurrentSession = poll.session
  /\ poll.answer.task = "active" /\ poll.answer # lastShown
  /\ lastShown' = poll.answer
  /\ progress' = [session |-> poll.session, version |-> poll.answer.version]
  /\ PollEnds(poll)
  /\ UNCHANGED <<screen, followed, polled, generation, run, closed, moves>>

\* Unavailable, seen already, or over: a run that ended is remembered, not shown.
AnswerSilent(poll) ==
  /\ poll \in polls /\ poll.answer # Unread
  /\ IsOwn(poll) /\ CurrentSession = poll.session
  /\ poll.answer.task # "active" \/ poll.answer = lastShown
  /\ lastShown' = IF poll.answer.task = "terminal" THEN poll.answer ELSE lastShown
  /\ PollEnds(poll)
  /\ UNCHANGED <<screen, followed, polled, generation, run, progress, closed, moves>>

\* The call fails.
PollFails(poll) ==
  /\ poll \in polls
  /\ PollEnds(poll)
  /\ UNCHANGED <<screen, followed, polled, generation, lastShown, run, progress, closed, moves>>

PollerNext ==
  \/ \E to \in Screens \cup {Nowhere} : Move(to)
  \/ \E s \in Screens : RunAdvances(s)
  \/ Follow \/ LifetimeEnds \/ Close \/ Poll
  \/ \E poll \in polls :
       \/ ReadSummary(poll) \/ PollFails(poll)
       \/ AnswerDropped(poll) \/ AnswerElsewhere(poll)
       \/ AnswerShown(poll) \/ AnswerSilent(poll)

PollerSpec == PollerInit /\ [][PollerNext]_pollerVars

-----------------------------------------------------------------------------
(* Properties *)

PollerTypeOK ==
  /\ screen \in Screens \cup {Nowhere}
  /\ followed \in Screens \cup {Nowhere} /\ polled \in Screens \cup {Nowhere}
  /\ generation \in Nat \ {0} /\ polling \in 0..generation
  /\ polls \subseteq [session : Screens, generation : 1..generation,
                      answer : [task : {"unread", "unavailable", "active", "terminal"},
                                version : 0..MaxVersion]]
  /\ lastShown \in [task : {"none", "active", "terminal"}, version : 0..MaxVersion]
  /\ progress \in [session : Screens \cup {Nowhere}, version : 0..MaxVersion]
  /\ closed \in BOOLEAN

\* Progress is shown in the session it is about while that one is on screen, never in an
\* internal one and never after the TUI closed; and within a session it never goes back to
\* a state the user has seen pass, however many polls answer late
\* (active-summary-poller.ts:91-101).
ProgressIsCurrent ==
  [][progress' # progress =>
       /\ ~closed
       /\ progress'.session = screen /\ screen \in ParentScreens
       /\ progress.session = progress'.session => progress'.version >= progress.version
    ]_pollerVars
=============================================================================
