----------------------------- MODULE AttemptClock -----------------------------
(***************************************************************************)
(* The time an Individual attempt has left (assessment-clock.ts), as the   *)
(* web server starts it and the realtime server pauses and resumes it:     *)
(* arithmetic on rows that were read a moment ago, written back under a    *)
(* condition on the attempt's status and on whether it is paused, but not  *)
(* on the numbers that were read.                                          *)
(*                                                                         *)
(* A departure is dated when the Coder was last there, which is earlier    *)
(* than when it settles, and may be earlier than the attempt's start: the  *)
(* connection that is found dead may have been lost in the lobby.          *)
(*                                                                         *)
(* Times are moments of one clock.  What else becomes of the attempt is in *)
(* AttemptLifecycle, and who asks for a pause in RealtimePresence.         *)
(***************************************************************************)
EXTENDS Integers, FiniteSets

CONSTANTS
  Duration,   \* how long an attempt has
  EndTimes,   \* when sessions close; a late one stands for none
  MaxTime,    \* bound: the last moment
  MaxTasks    \* bound: pauses and resumptions under way at once

ASSUME ClockAssumption ==
  /\ Duration \in Nat \ {0}
  /\ EndTimes \subseteq Nat
  /\ MaxTime \in Nat
  /\ MaxTasks \in Nat

VARIABLES
  now,
  endsAt,   \* the session's closing time
  clock,    \* the attempt row
  tasks     \* what was read to pause or resume, and the moment it is for

vars == <<now, endsAt, clock, tasks>>

------------------------------------------------------------------------------
Least(a, b) == IF a <= b THEN a ELSE b
Most(a, b) == IF a >= b THEN a ELSE b

\* (Variant: the deadline itself still counts as time left.)
isAttemptOverdueAfter(c, at) == ~ c.paused /\ at > c.deadline

isAttemptOverdue(c, at) == ~ c.paused /\ at >= c.deadline

attemptRemaining(c, at) ==
  IF c.paused THEN Most(0, Duration - c.consumed) ELSE Most(0, c.deadline - at)

\* (Variant: a departure before the start counts as time not spent.)
pauseAttemptClockUnclamped(c, at) == Least(Duration, Duration - (c.deadline - at))

\* The running time spent, had it been running for the whole duration.
pauseAttemptClock(c, at) ==
  Least(Duration, Most(0, Duration - (c.deadline - at)))

resumeAttemptClock(c, at) == at + Most(0, Duration - c.consumed)

------------------------------------------------------------------------------
Init ==
  /\ now = 0
  /\ endsAt \in EndTimes
  /\ clock = [status |-> "NOT_STARTED", deadline |-> 0, paused |-> FALSE, consumed |-> 0]
  /\ tasks = {}

Open == clock.status = "IN_PROGRESS"

\* The deadline is clamped to the closing time of the session.
startAttempt ==
  /\ clock.status = "NOT_STARTED"
  /\ now < endsAt
  /\ clock' = [status |-> "IN_PROGRESS", deadline |-> Least(now + Duration, endsAt),
               paused |-> FALSE, consumed |-> 0]
  /\ UNCHANGED <<now, endsAt, tasks>>

Reads(kind, at) ==
  /\ Cardinality(tasks) < MaxTasks
  /\ tasks' = tasks \cup {[kind |-> kind, at |-> at, row |-> clock]}
  /\ UNCHANGED <<now, endsAt, clock>>

\* An attempt past its deadline is left running, for its alarm to close it.
pauseIfIndividual(at) ==
  /\ Open /\ ~ clock.paused
  /\ ~ isAttemptOverdue(clock, at)
  /\ Reads("pause", at)

PauseWrites(t) ==
  /\ t.kind = "pause"
  /\ clock' = IF Open /\ ~ clock.paused
              THEN [clock EXCEPT !.consumed = pauseAttemptClock(t.row, t.at),
                                 !.paused = TRUE]
              ELSE clock
  /\ tasks' = tasks \ {t}
  /\ UNCHANGED <<now, endsAt>>

resumeIfPaused ==
  /\ Open /\ clock.paused
  /\ Reads("resume", now)

ResumeWrites(t) ==
  /\ t.kind = "resume"
  /\ clock' = IF Open /\ clock.paused
              THEN [clock EXCEPT !.deadline = resumeAttemptClock(t.row, t.at),
                                 !.paused = FALSE]
              ELSE clock
  /\ tasks' = tasks \ {t}
  /\ UNCHANGED <<now, endsAt>>

\* The alarm or the sweep closes it once it is overdue; a Submit or the end
\* of the session does so before that.
CloseAttempt ==
  /\ Open
  /\ clock' = [clock EXCEPT !.status = "CLOSED"]
  /\ UNCHANGED <<now, endsAt, tasks>>

Tick ==
  /\ now < MaxTime
  /\ now' = now + 1
  /\ UNCHANGED <<endsAt, clock, tasks>>

Next ==
  \/ startAttempt \/ resumeIfPaused \/ CloseAttempt \/ Tick
  \/ \E at \in 0 .. now : pauseIfIndividual(at)
  \/ \E t \in tasks : PauseWrites(t) \/ ResumeWrites(t)

Spec == Init /\ [][Next]_vars

------------------------------------------------------------------------------
Clock == [status : {"NOT_STARTED", "IN_PROGRESS", "CLOSED"}, deadline : Int,
          paused : BOOLEAN, consumed : 0 .. Duration]

TypeOK ==
  /\ now \in Nat
  /\ endsAt \in EndTimes
  /\ clock \in Clock
  /\ tasks \subseteq [kind : {"pause", "resume"}, at : Nat, row : Clock]

\* "The total available time never grows beyond the configured duration"
\* (assessment-clock.ts:98), however old what a pause or a resumption writes
\* back is; and a paused attempt has time left, for with none it "would never
\* close" (assessment.ts:363-364).
TimeLeft ==
  Open =>
    /\ attemptRemaining(clock, now) <= Duration
    /\ clock.paused => attemptRemaining(clock, now) > 0

(* What the comments promise and the code does not keep.                    *)

\* "An Individual clock never outlives the session it runs in"
\* (attempts.ts:283): a resumption is not clamped as a start is.
NeverOutlivesSession == Open /\ ~ clock.paused => clock.deadline <= endsAt

\* "Restarts a paused Individual attempt with exactly the time it had left"
\* (assessment-clock.ts:97): a resumption may be of an earlier pause.
ExactlyTheTimeLeft ==
  [][Open /\ clock.paused /\ ~ clock'.paused =>
       attemptRemaining(clock', now) <= attemptRemaining(clock, now)]_vars
==============================================================================
