------------------------- MODULE AttemptClock_proofs -------------------------
(***************************************************************************)
(* The bound on the time an attempt has left, for every duration, every    *)
(* closing time and any number of pauses and resumptions that overlap.     *)
(*                                                                         *)
(* TimeLeft is not inductive: what a pause or a resumption writes comes    *)
(* from a row read earlier, so the invariant also says what such a row     *)
(* can be.                                                                 *)
(***************************************************************************)
EXTENDS AttemptClock, TLAPS

\* A running clock never ends later than a whole duration from now, and a
\* paused one has not spent all of it.
SoundRow(c) ==
  /\ c.deadline \in Int
  /\ c.paused \in BOOLEAN
  /\ c.consumed \in 0 .. Duration
  /\ c.paused => c.consumed < Duration

\* What was read is for a moment that has come; a pause is of a clock that
\* was not out at that moment.
SoundTask(t) ==
  /\ t.at \in Nat /\ t.at <= now
  /\ SoundRow(t.row)
  /\ t.kind = "pause" => t.at < t.row.deadline

Inv ==
  /\ TypeOK
  /\ SoundRow(clock)
  /\ Open /\ ~ clock.paused => clock.deadline <= now + Duration
  /\ \A t \in tasks : SoundTask(t)

------------------------------------------------------------------------------
\* Pausing a clock before its deadline leaves part of the duration unspent,
\* however long before its start the departure is dated.
LEMMA PauseLeavesTime ==
  ASSUME NEW c, c.deadline \in Int, NEW at \in Nat, at < c.deadline
  PROVE  /\ pauseAttemptClock(c, at) \in 0 .. Duration
         /\ pauseAttemptClock(c, at) < Duration
  BY ClockAssumption DEF pauseAttemptClock, Least, Most

\* A resumption gives at most the whole duration, counted from when it began.
LEMMA ResumeWithinDuration ==
  ASSUME NEW c, c.consumed \in 0 .. Duration, NEW at \in Nat
  PROVE  /\ resumeAttemptClock(c, at) \in Int
         /\ resumeAttemptClock(c, at) <= at + Duration
  BY ClockAssumption DEF resumeAttemptClock, Most

LEMMA InitInv == Init => Inv
  BY ClockAssumption DEF Init, Inv, TypeOK, Clock, SoundRow, Open

LEMMA ReadsInv ==
  ASSUME Inv, NEW kind \in {"pause", "resume"}, NEW at \in Nat, at <= now,
         kind = "pause" => at < clock.deadline, Reads(kind, at)
  PROVE  Inv'
  <1> DEFINE t == [kind |-> kind, at |-> at, row |-> clock]
  <1>1. /\ tasks' = tasks \cup {t}
        /\ UNCHANGED <<now, endsAt, clock>>
    BY DEF Reads
  <1>2. SoundTask(t)'
    BY <1>1 DEF Inv, SoundTask, SoundRow
  <1>3. \A u \in tasks : SoundTask(u)'
    BY <1>1 DEF Inv, SoundTask, SoundRow
  <1>4. TypeOK'
    BY <1>1 DEF Inv, TypeOK
  <1> QED BY <1>1, <1>2, <1>3, <1>4 DEF Inv, Open, SoundRow

LEMMA NextInv == Inv /\ [Next]_vars => Inv'
  <1> SUFFICES ASSUME Inv, [Next]_vars PROVE Inv'
    OBVIOUS
  <1> USE ClockAssumption
  <1>1. CASE startAttempt
    BY <1>1 DEF Inv, TypeOK, Clock, SoundRow, SoundTask, Open, startAttempt, Least
  <1>2. CASE resumeIfPaused
    BY <1>2, ReadsInv DEF Inv, TypeOK, resumeIfPaused
  <1>3. CASE CloseAttempt
    BY <1>3 DEF Inv, TypeOK, Clock, SoundRow, SoundTask, Open, CloseAttempt
  <1>4. CASE Tick
    BY <1>4 DEF Inv, TypeOK, Clock, SoundRow, SoundTask, Open, Tick
  <1>5. ASSUME NEW at \in 0 .. now, pauseIfIndividual(at) PROVE Inv'
    <2>1. at \in Nat /\ at <= now /\ at < clock.deadline
      BY <1>5 DEF Inv, TypeOK, SoundRow, pauseIfIndividual, isAttemptOverdue
    <2> QED BY <1>5, <2>1, ReadsInv DEF pauseIfIndividual
  <1>6. ASSUME NEW t \in tasks, PauseWrites(t) PROVE Inv'
    <2>1. SoundTask(t) /\ t.kind = "pause"
      BY <1>6 DEF Inv, PauseWrites
    <2>2. /\ pauseAttemptClock(t.row, t.at) \in 0 .. Duration
          /\ pauseAttemptClock(t.row, t.at) < Duration
      BY <2>1, PauseLeavesTime DEF SoundTask, SoundRow
    <2> HIDE DEF pauseAttemptClock
    <2>3. CASE Open /\ ~ clock.paused
      BY <1>6, <2>2, <2>3 DEF Inv, TypeOK, Clock, SoundRow, SoundTask, Open, PauseWrites
    <2>4. CASE ~ (Open /\ ~ clock.paused)
      BY <1>6, <2>4 DEF Inv, TypeOK, Clock, SoundRow, SoundTask, Open, PauseWrites
    <2> QED BY <2>3, <2>4
  <1>7. ASSUME NEW t \in tasks, ResumeWrites(t) PROVE Inv'
    <2>1. SoundTask(t)
      BY DEF Inv
    <2>2. /\ resumeAttemptClock(t.row, t.at) \in Int
          /\ resumeAttemptClock(t.row, t.at) <= now + Duration
      BY <2>1, ResumeWithinDuration DEF SoundTask, SoundRow, Inv, TypeOK
    <2>3. CASE Open /\ clock.paused
      BY <1>7, <2>2, <2>3 DEF Inv, TypeOK, Clock, SoundRow, SoundTask, Open, ResumeWrites
    <2>4. CASE ~ (Open /\ clock.paused)
      BY <1>7, <2>4 DEF Inv, TypeOK, Clock, SoundRow, SoundTask, Open, ResumeWrites
    <2> QED BY <2>3, <2>4
  <1>8. CASE UNCHANGED vars
    BY <1>8 DEF Inv, TypeOK, SoundRow, SoundTask, Open, vars
  <1> QED BY <1>1, <1>2, <1>3, <1>4, <1>5, <1>6, <1>7, <1>8 DEF Next

LEMMA InvTimeLeft == Inv => TimeLeft
  BY ClockAssumption
  DEF Inv, TypeOK, SoundRow, TimeLeft, attemptRemaining, Most, Open

\* The clock, and what pauses and resumptions carry between their two
\* statements, keep their types; in particular no more than the duration is
\* ever recorded as spent (assessment-clock.ts:84-95).
THEOREM TypeCorrect == Spec => []TypeOK
  <1>1. Inv => TypeOK
    BY DEF Inv
  <1> QED BY <1>1, InitInv, NextInv, PTL DEF Spec

\* The time left never exceeds the configured duration and a paused attempt
\* always has some (assessment-clock.ts:96-108, assessment.ts:363-369), for
\* any durations and any overlapping of pauses and resumptions.
THEOREM TimeLeftBounded == Spec => []TimeLeft
  BY InitInv, NextInv, InvTimeLeft, PTL DEF Spec
==============================================================================
