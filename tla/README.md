# Formal models of Ambatucode

Ambatucode is a course and coding-exam platform: a Next.js web application (`apps/web`), a
socket.io server (`apps/realtime`), a Go execution worker (`apps/worker`), PostgreSQL through
Prisma (`packages/db`), Redis with BullMQ queues, and rules shared by the two TypeScript
processes (`packages/shared`). This directory holds TLA+ models of the parts where several of
these act on the same state at once, along the way of an exam:

    Assessments        an Assessment and its sessions are written, validated, started, ended
    RealtimePresence   Coders come, leave, reconnect; their clocks are paused and resumed
    AttemptClock       the arithmetic of those clocks
    DraftRecovery      what they type is kept by the browser and the server
    AttemptLifecycle   their attempts are started, handed in, closed, reset
    GradingPipeline    a Submission is graded once, whatever fails on the way
    WorkerPool         one worker shares its containers between Submissions and runs

## Inventory

| part | state it keeps | operations | hard because | what makes it correct |
|---|---|---|---|---|
| Attempt lifecycle, `services/attempts.ts` | `AssessmentAttempt`, `AttemptDraft`, `Submission` rows | start, draft, run, submit, auto-submit, dispatch | tabs, alarms, the sweep and the closing loop act on one row; only two handlers lock it | one Submission per attempt; a closed attempt stays closed; no hand-in is lost between row and queue |
| Session lifecycle, `services/sessions.ts` | `AssessmentSession`, `AssessmentParticipant` | create, update, delete, participants, start, end, expire, open access | end and expire race starts; the closing loop may die half-way | one closing; nothing stays open in an ended session; every listed Coder has a record |
| Reset and official score, `services/grades.ts`, `official-score.ts` | `isOfficial`, `attemptNumber`, `grantedOutsideSession` | reset, set or unset official | no unique index can express the rule; reads without a lock | at most one official attempt; one live attempt per record |
| Clock, `shared/assessment-clock.ts` | `individualDeadlineAt`, `consumedMs`, `pausedAt`, `endsAt` | deadline, overdue, pause, resume | pauses are dated back to the moment of departure; clamps | time is neither lost nor gained, and never exceeds the duration or the session |
| Deadlines, `web/queue/deadlines.ts`, `realtime/deadlines.ts` | one delayed job per clock, the sweep timer | schedule, cancel, fire, sweep | a firing job cannot be removed; Redis may lose jobs | an alarm is never trusted; whatever is overdue is closed |
| Presence, `realtime/assessment.ts`, `presence.ts` | `activeConnectionId`, pending departures, lobbies, focus count | join, leave, disconnect, settle, focus, ready | debounce timers, takeovers, checks before awaits, restarts | at most one bound socket; the clock of a Coder who is away is paused, of one who is there is not |
| Producer and ingestion, `web/queue/producer.ts`, `execution-result.ts` | `Submission.status`, results, job tokens | enqueue, ingest, close expired | duplicate and late results, expired tokens, no lock | a Submission is graded once, from its own job |
| Consumer and pool, `worker/internal/queue`, `pool` | BullMQ lists and locks, slots | fetch, renew, complete, fail, release, stall sweep, shutdown | locks expire under a running job; retries; shutdown | no job is lost; a finished one is not graded again |
| Runner and delivery, `worker/internal/runner`, `report` | a held result | grade, deliver, hold, abandon | the LMS is down for longer than a token lives | every final result is delivered or reported abandoned |
| Draft recovery, `use-attempt-draft.ts`, `local-draft.ts`, `attempt-workspace.tsx` | the buffer, the browser's copy, the server's draft, their time stamps | edit, throttled and debounced saves, leave, submit, reconnect, reconcile | saves are stored late; two copies are compared by stamps taken at different moments | what is typed is in a copy and, in the end, on the server |
| Authoring, `assessments.ts` | `Assessment`, cases, scripts, solutions | update, publish, open access, edit what grades | checks before writes; edits while sessions start | nothing that grades a running session changes under it |
| Script validation, `script-validation.ts` | `validationJobId`, status | enqueue, record, reset | a result for an edited script | a verdict is only ever about the current script |
| Scoring and ranking, `scoring.ts`, `leaderboard-ranking.ts` | none | pure functions | ties, zero weights, rounding | equal to their definitions |
| Sandbox, accounts, materials, practice, pages | containers; single rows | create, read, update, delete | kernel behaviour; user interface | not modelled, see below |

How they interact. A browser calls `apps/web` over HTTP and `apps/realtime` over a socket. Web
writes the rows, enqueues execution jobs and deadline alarms in Redis and broadcasts changes.
Realtime writes presence and clock columns straight to PostgreSQL and asks web to close
attempts and sessions through internal endpoints (alarm, sweep, focus rule). The worker takes
execution jobs and posts results to web's callback. PostgreSQL runs at Read Committed, so two
statements of one handler see two states; the only row locks are `lockAttempt`
(`SELECT ... FOR UPDATE`) and those a write takes by itself.

The hazards this gives rise to are listed with their lines in `PROJECT.json`; each names the
properties that cover it, or why none does yet.

## Modules

- `AttemptLifecycle` - the attempts of one running session. State: the session row, the attempt
  rows by `<<coder, attemptNumber>>`, drafts, Submissions, the set of attempts whose job is on
  the queue; and, since a handler is several statements, `req[p]`, what process `p` carries from
  one statement to the next, and `closing`, the position of the `closeSession` loop.
- `FormalAttempt` - the abstract specification: what a Coder is promised, one atomic action per
  event (first attempt, begin, hand in, lapse, retake, the Architect's choice).
- `GradingPipeline` - the Submissions after their commit. State: the row's verdict and `jobId`
  (`row`), `dispatchSubmission` (`dispatch`), BullMQ's record of the job with its list, lock and
  counters (`job`), its stalled set (`marked`), the goroutine of each worker process (`worker`),
  the callback requests at the LMS (`request`), tokens past their date (`expired`), and whether
  the Docker daemon and the LMS answer (`docker`, `lms`). It meets `AttemptLifecycle` at
  `Dispatch`: what is one step there is `Enqueue`, `NameJob` and their failures here.
- `RealtimePresence` - one Coder's connections to one session, as the realtime server knows them.
  State: its maps (`visits`, `bound`, `lobbies`, `listed`, `pending`, `leaving`), which die with the
  process, the participant and attempt rows, which do not, and `tasks`, the handlers between two
  awaits with what they read. It meets `AttemptLifecycle` at `Pause` and `Resume`.
- `AttemptClock` - the clock of one Individual attempt in integers, with the pauses and resumptions
  that were read and are still to be written. It gives `AttemptLifecycle`'s three cases their meaning.
- `DraftRecovery` - one Coder's work in one browser. State: the editor (`page`), the browser's copy
  (`local`), the server's (`draft`), the order of their time stamps (`stamps`), the requests on their
  way, and `reconcile` between its awaits (`recovery`). `saveDraft` and `submitAttempt`
  are one step each here; what they do among other handlers is in `AttemptLifecycle`.
- `Assessments` - one Assessment, its sessions and what grades it. State: the rows, the validation jobs on
  their way, and `tasks`, requests between what they read and what they write.
- `WorkerPool` - the goroutines of one worker process, its two counting semaphores, both wait lists, and
  whether Docker and the LMS answer. `GradingPipeline` has the same jobs one at a time and across workers.
- `MC<module>` with the `.cfg` files - the instances TLC checks.
- `<module>_proofs` - theorems about the module. `AttemptRecord_proofs` continues `AttemptLifecycle_proofs`
  with a Coder's whole record of attempts.

### Code and model

| code | actions |
|---|---|
| `startAttempt` | `StartRead` (session, latest attempt, refusals), `StartWrite` (create, or conditional update) |
| `saveDraft`, `handleDraft` | `DraftRead`, `DraftWrite` |
| `submitAttempt` | `SubmitLock`, `CloseCommit`, `Dispatch` |
| `autoSubmitAttempt` | `AutoLock` (as `CallerLock` or `EnderLock`), `CloseCommit`, `Dispatch` |
| `closeSession` through `endSession`, `expireSession` | `EndSession`, `ExpireSession`, `ListOpen`, `EnderLock`, `EnderSkip`, `ListNoShows`, `CreateNoShow`, `CloseDone` |
| `resetAttempt` | `ResetRead`, `ResetWrite` |
| `setAttemptOfficial` | `SetOfficial`, `UnsetOfficial` |
| `pauseIfIndividual`, `resumeIfPaused` | `Pause`, `Resume` |
| time | `ClockRunsOut`, `SessionComesDue` |
| a process dies, a statement throws | `Crash` |

| code | actions of `GradingPipeline` |
|---|---|
| `dispatchSubmission`, `enqueueExecutionJob` | `Enqueue`, `NameJob`, `DispatchThrows`, `MarkUnqueued`, `DispatcherDies` |
| BullMQ's scripts | `Claim`, `Renew`, `Promote`, `RecoverStalled`, and `Released`, `Finished` inside the actions of the pool |
| a lock's time to live | `Lapse` |
| `pool.execute`, `Service.Process`, the runner | `Claim` (`Begins`), `Execute`, `Judge`, `Panic`, `MarkProcessed`, `Complete`, `Release`, `Fail`, `RedisFails`, `Unpause` |
| `deliver`, the callback client | `Send`, `Answered`, `TimesOut`, `HoldEnds`, `AwaitInterrupted` |
| `main`: SIGTERM, grace period, exit, startup | `Terminate`, `GraceEnds`, `ReleaseInFlight`, `Exit`, `Start`; `Crash` for a killed process |
| the result route, `ingestSubmission`, `closeExpiredExecution` | `Receive` (token, then the read), `Store`, `CloseExpired` (the writes) |
| time and the platform | `Expire`, `LmsDown`, `LmsUp`, `DockerDown`, `DockerUp` |

| code | actions of `RealtimePresence` |
|---|---|
| `handleJoin` | `Join`, `JoinLoad`, `JoinUpsert`, `JoinClaim`, `JoinTakeover` or `JoinReturn`: one per stretch between awaits |
| `handleReady` | `Ready`, `ReadyLoad`, `ReadyClaim` |
| `handleAttemptLeave`, `handleLobbyLeave`, `handleDisconnect` | actions of the same names |
| `scheduleAttemptSettle`, `settleDisconnect` | `pending`, `SettleFires`, `SettleRelease`, `PauseLoad`, `PauseWrite` |
| `scheduleLobbySettle`, `settleLobbyDisconnect` | `leaving`, `LobbySettleFires`, `SettleLobbyRelease` |
| `refreshPresence` | `refreshPresence`, `RetireRelease`, `PauseLoad`, `PauseWrite` |
| `handleBroadcast`, case `ATTEMPT_CLOSED` | `AttemptClosed` |
| the web application, time, the process | `StartAttempt`, `CloseAttempt`, `GrowStale`, `Restart` |

| code | actions of `DraftRecovery` |
|---|---|
| `useAttemptDraft` | `WriteLocal`, `save`, `SaveAnswered`, `ClosePage` |
| `AttemptWorkspace` | `OpenWorkspace`, `edit`, `confirmSubmit`, `SubmitAnswered`, `confirmExit`, `ExitAnswered`, `Disconnect`, `Reconnect`, `FetchDraft`, `FetchFails`, `reconcile` |
| `chooseDraft` | the operator `chooseDraft` |
| the API client without a network | `NetworkError` |
| the server | `saveDraft`, `submitAttempt`, each answered as it was served or with an error (`Answered`); `AutoSubmit` |
| `useAttemptSubmission` | `confirmSubmit`, `SubmitAnswered` (`Unlocked` on any error) |
| the attempt's state over the socket | `onAttemptState` |

| code | actions of `Assessments` |
|---|---|
| `createSession`; `updateSession`, `deleteSession`, `replaceParticipants`, `startSession` | one step; a step of that name that reads and decides, and `UpdateWrites`, `DeleteWrites`, `ListWrites`, `StartWrites` |
| `endSession`, `expireSession`, `closeOpenAccessSessions` through `closeSession` | `closeSession`, `CloseAttempts`, session by session |
| `ensureOpenAccessSession` | `ensureOpenAccessSession`, `OpenCreates` |
| `updateAssessment`, `getAssessment` | `AssessmentWrites`, then the two above as the patch asks |
| test cases, test scripts, reference solution | `EditCases`, `CasesWrite`, `uploadTestScript`, `UploadWrites`, `deleteTestScript`, `RemoveWrites`, `saveReferenceSolution` |
| `validateTestScripts`, `enqueueScriptValidation`, `recordScriptValidation` | actions of the same names, `ResultLost` |
| Coders, graders, time | `StartAttempt`, `SubmitAttempt`, `Graded`, `Readiness`, `TimePasses` |

| code | actions of `WorkerPool` |
|---|---|
| `loop` | `awaitReady`, `TakeSlot`, `Empty`, `Await`, `ReleaseRunSlot`, `ReleaseContainer` |
| `claim`, `claimFrom` | `ClaimSubmission`, `TakeRunSlot`, `ClaimRun`, `NoRun` |
| `execute` | `execute`, by outcome: `Done`, `Retries`, `Requeues`, `Interrupted` |
| `main` | `Terminate`, `GraceEnds`, `ReleaseInFlight` |
| `config.validate` | the assumption `PoolAssumption` |

| code | definitions of `AttemptClock` |
|---|---|
| `isAttemptOverdue`, `attemptRemaining`, `pauseAttemptClock`, `resumeAttemptClock` | operators of the same names |
| `startAttempt` | `startAttempt`, with the clamp to the session's end |
| `pauseIfIndividual`, `resumeIfPaused` | `pauseIfIndividual`, `PauseWrites`; `resumeIfPaused`, `ResumeWrites` |

A transaction that holds a lock takes two steps, one at the lock and one at the commit, and
its writes appear at the commit. A statement that writes a locked row waits (`RowLocked`). A
single conditional statement is one step. A request that is refused, or answered from what is
there, changes nothing and is no action.

What is abstracted. Source text is a model value. The clock of an attempt is one of the three
cases its guards tell apart (`running`, `paused`, `out`), because no guard of these handlers
reads more; a pause is dated from the moment the Coder left, so it may be written on a clock
that has run out since. `submitAttempt` reads the time just before it waits for the lock; the
wait can only end with the attempt still open after a rollback or another handler's short
update, and the model reads the time at the lock. `ResetWrite` reads the latest attempt number
when it commits: a number read earlier and taken since fails on the unique key, which is a
`Crash`. Authorization, rate limits, events and broadcasts are left out: no guard reads them.
Moving an alarm after `NOT_DUE` is left out: an alarm may ring, or not, at any time. The sweep's batch size
is left out: a batch is asked for every 30 seconds until nothing is left.

In `GradingPipeline` a script is one step, as Redis runs it. A token is fresh at each claim in the
code and is the worker's name here, which is the same because a process has one goroutine in the
model and a job is claimed again only after its lock is gone. A result is what the
program deserves (`graded`), a report of a job given up (`abandoned`), or one that describes no program: of a
run a shutdown interrupted (`interrupted`), of one the sandbox saw lose the daemon (`cutOff`), of one that lost it and
was seen as anything else (`mistaken`). Beside it goes what the judgement reads: whether it is a SYSTEM_ERROR, and
whether that names the daemon (`cause`). A program's own run may be a SYSTEM_ERROR, and an interrupted one may have
any status; `RunEnds` leaves all of it open. The other verdicts are what the platform writes itself. Of time it keeps
only what guards read: whether a token has expired and whether a lock still lives. The `RUNNING`
progress status is left out (the worker sends none). Lanes, container slots, RUN jobs and the steps
after a grade is stored (leaderboards, achievements, pushes) are left out.

In `RealtimePresence` the server is one thread: a step is what runs between two awaits, and the
statement awaited takes effect with the code after it. Time is what it does: a row becomes stale, a
debounce runs out. Whether the clock was out when the Coder left is a free choice (`PauseLoad`). The ready
flag, focus and clipboard counts, the monitor's messages and the ticks are left out, and so is the
participant who is removed from the list while connected.

In `AttemptClock` a departure may be dated at any moment up to now, before the start included: the row of a
connection that is found dead says when it was last seen, perhaps in the lobby.

In `DraftRecovery` a text is the number of the edit that wrote it. A recovery compares time stamps only
by order, so stamps are ranks that are renumbered after every use, and the skew between the two clocks is taken
as measured exactly. The local copy's transactions are instantaneous. The language is part of the text. The
debounced and the periodic save are one action that may happen at any time; IndexedDB is assumed to work. Any
request may be answered with an error, done or not: a 500, a proxy's 502, a session that expired. The hook takes
each for a refusal, and so does the model. The countdown that locks the editor at zero, and the takeover by
another tab, are left out.

In `Assessments` a request reads in one step and writes in another, which is the least it takes to be
overtaken; a time is none, future or past, and does not pass while a
request carries it; the attempts of a session count as one, open or being graded. The names, the
durations, the weights and the order of things are left out, and the roster is only whether there is one.
Test scripts are those of one language. Authorization is left out.

In `WorkerPool` a job is one of its lane. A queue marker only ends a wait that ends by itself after five
seconds, so a waiting goroutine may look again at any time. A run need never end; a result is held until the LMS
takes it. What becomes of a job's lock is in `GradingPipeline`.

Several operators have a variant beside them, marked so in their comments: the operator as a
plausible mistake would have it, unused by the specification, kept to show that a property
notices.

## What TLC checks

| run | instance | shows |
|---|---|---|
| `attempt_safety` | 1 Coder in 2 tabs, the sweep, the closing loop, 1 resetting and 1 marking Architect, Live and Individual sessions, 2 attempts, no crash; 540 000 states | types; one Submission per attempt; at most one official attempt; one live attempt per record; no hand-in forgotten between row and queue; no attempt closed before its deadline; closed attempts stay closed; `FormalAttempt` is implemented |
| `attempt_liveness` | 2 listed Coders, one of whom never comes, 1 tab, alarm and sweep, all five kinds of session, 1 attempt each, up to 2 crashes | overdue attempts are closed; an ended session empties |
| `granted_retake` | violation | see findings |
| `grading` | 1 Submission, 2 workers, 2 callbacks at once, 3 attempts, 1 stalled recovery, any 2 faults but an outage longer than a token lives; 381 000 states | types; only active jobs are locked; nothing is marked or completed ahead of its report; no run that was interrupted or lost its connection to the daemon is graded; a Submission without a verdict is on its way; a lock's holder keeps its job; every Submission gets a verdict |
| `presence` | 1 Coder, 2 connections: one opens the lobby, the other the attempt twice; 2 handlers between awaits, 1 restart of the server; 676 000 states | types; a page that was left is not bound; only a connection that departed is released; a closed attempt's clock stands; a connection nobody holds does not stay ONLINE |
| `drafts` | 2 edits, 2 openings of the workspace, 1 outage, 1 request beside the restoring one, any of them answered with an error; 522 000 states | types; the browser's copy follows the editor; nobody is locked out of an open attempt; on a working connection the server ends up with what is on screen unless a save of the page was answered with an error |
| `offline_work` | violation | see findings |
| `pool` | 3 goroutines, 2 containers of which 1 is reserved, 2 Submissions, runs without end, 1 fault; 203 000 states | types; no slot leaks; runs keep out of the reserve; no Submission is lost; every Submission is claimed; a worker told to stop does |
| `sessions` | 1 session, 3 requests, 2 under way at once; 743 000 states | types; only an upload overtaken between its read and its write leaves a validation on a text it is not of; a started session is frozen; only a session at rest is deleted; due sessions end and empty |
| `two_open_sessions` | violation, 2 sessions | see findings |
| `clock` | a duration of 4, sessions that close after 3 or never, 7 moments, 2 pauses or resumptions at once | types; nobody ever has more than the duration; a paused attempt has time left |
| `outlives_session` | violation | see findings |

Bounds. `MaxAttempts` bounds the retakes: 2 is enough for a retake to live beside the attempt it
replaces. `MaxCrashes` bounds the handlers that
die: 2 kills the closing loop and one hand-in. Two tabs give two requests of the same Coder; a
caller, the closing loop and a tab give three closers of one attempt. Coders share no rows but
the session and the closing loop, so a second one matters only where the loop's list does. One
source text is enough because no guard compares texts.

In `grading`, `MaxFaults` = 2 allows every pair of a crash of a worker or dispatcher, a lapsed lock,
a panic, a Redis call that never arrives, a failed dispatch, a callback timeout, a SIGTERM, a Docker
outage and an LMS outage: enough for two workers to hold the same job, for a job to exceed its
stalled limit (2 deaths with `MaxStalled` = 1), and for a crash during an outage. 3 attempts is
the code's number. Two faults leave one attempt to a job whose worker panics: a job that panics on
every attempt ends in the failed set with its row `QUEUED`, which the code logs as needing an operator
(`pool.go:370-377`). Jobs share nothing but the workers, so one is enough for the safety properties; that
a second one is not kept waiting follows from the fairness of claims.

In `presence`, two connections are a tab and its replacement, a lobby and a workspace, or a takeover by
another device; a second opening of the attempt on one connection is what makes an old departure and an old
join meet a new visit; two tasks are a join and the settle it races. A departure needs no bound: a page that
was opened can be left. In `drafts`, two edits give a text that is older than another and newer than the
starter code; two visits give a draft and a local copy left by a page that is gone; one outage interrupts any request and
is followed by a recovery, and the bound counts outages of the whole run. In `pool`, three
goroutines on two containers make one wait for a slot while one has a Submission and one a run; one
reserved slot and one run slot are the smallest with both. In `sessions`, two requests overtake one another and
a third was there before. In `clock`, closing times before and after a full duration are the two cases of the
clamp; two tasks are the two statements one can overtake.

Reductions. `attempt_safety` is symmetric in the two tabs. Its view forgets the clock of attempts
that are not open and the draft of closed ones. No guard or property of that run reads them:
clocks are read under `Open`, a start resets the clock, drafts are read under `Open`, and a
closed attempt never opens again. `attempt_liveness` uses neither symmetry nor a view.

Deadlock is checked in `grading` (workers look for stalled jobs for as long as they run) and not elsewhere:
an ended session whose attempts are all closed, a page that was closed for good, a worker that has stopped and a
bounded number of visits or requests leave nothing to do.

Fairness of `grading`. Goroutines, handlers and a process that is shutting down go on; a process
that ended is started again once the daemon answers (by systemd, or by whoever stopped it); outages end; a
lock nobody renews lapses; some worker checks for stalled jobs (every 30 seconds) and some worker
claims what can be claimed. Nothing is assumed of faults, of renewals and of token expiry, except in
this run that the LMS is back before a token of a job under way expires: what happens otherwise is under
"Stated and violated".

Fairness of `attempt_liveness`. A transaction that holds a lock ends, and the
handler that committed a Submission goes on to dispatch it, unless its process dies. The sweep
runs at start-up and every 30 seconds and asks for every Individual clock that ran out, every
session past its closing time and every attempt left open in an ended session. The closing loop
goes on unless it dies. Nothing is assumed of Coders, Architects, alarms or the focus rule, and
crashes are as unfair as they like up to their bound. An alarm that is never delivered is thus a
behaviour of every liveness run.

Fairness of the others. `presence`: statements are answered, timers run and rows grow old; nobody has to come,
leave or close anything. `drafts`: the autosave's timer runs (`SF`, as the bound on requests disables it for a while), and
a network that works delivers requests and answers, of each kind; edits, recoveries, deadlines, outages and their
end are free. `pool`: goroutines are scheduled, outages end, a Submission's
execution ends, a shutdown goes on; a goroutine that waits for a container is served in its turn (`SF` of
`TakeSlot`: a Go channel is first come, first served); no run need end. `sessions`: a request under way
goes on, and a due session is asked to close again and again, by its alarm and by the sweep, which is why it is `SF`.

`OverdueIsClosed` and `EndedSessionEmpties` say that an attempt is infinitely often not overdue
(not open in an ended session). The first allows a Coder to leave and return forever, which
the code does allow; each departure is dated before the deadline.

`KeepsFormalAttempt` is refinement: `standing` is the status, `answers` the sources of the
Submissions, `official` the one flagged attempt. `HandIn` may leave nothing official although
nothing else is: the Architect may unmark another attempt between the count of
`claimOfficialIfUnset` and the commit. That outcome is the one of handing in first and unmarking
second, so it is allowed.

## Findings

1. The sweep closes granted retakes (`realtime/deadlines.ts:111`). It treats every open attempt of an
   ended session as stranded. A retake granted after the end lives until the next sweep. Run `granted_retake`.
2. A reconnection may put the editor back (`attempt-workspace.tsx:183`). The server's draft is dated when it is
   stored; a save that was under way while the Coder typed on is newer by its stamp and older by its
   text. The recovery takes it and shows no message. Run `offline_work`. The text lost from the
   screen may still be in the browser's copy, until the next throttled write.
3. Two requests that first need the session of an open-access Assessment create two (`sessions.ts:169`): the unique
   constraint its comment relies on does not exist. In run `two_open_sessions` they are the Architect's update
   that opens the Assessment and a visit; two visits find the session in the same way.
4. A resumed clock outlives its session (`assessment-clock.ts:100`): a start is clamped to the session's
   closing time, a resumption is not, so each pause moves the deadline past it. Run `outlives_session`.

Stated and violated. These definitions state what comments of the code promise. TLC finds each violated when it is
given as an invariant or property of a small instance; no configuration here keeps them.

| definition | promised at | what happens |
|---|---|---|
| `AttemptLifecycle!OneOfficial` with two resetting Architects | `official-score.ts:9` | both resets pass the status check, two retakes are open, and two overlapping hand-ins become official |
| `AttemptLifecycle!NoShowsRecorded` | `sessions.ts:713-717` | a first start slips past the status flip; the no-show loop throws on the unique key and stops |
| `AttemptLifecycle!DraftFrozenOnceClosed` | `attempts.ts:453-455` | a draft accepted before the attempt closed is stored after it |
| `GradingPipeline!StillOnTheWay` with outages longer than a token lives | `execution-worker.md:240, 252-253` | the job uses up its attempts, and the LMS closes out an expired job only when a callback arrives: `QUEUED` forever |
| `GradingPipeline!VerdictIsFinal` with callbacks that time out | `execution-result.ts:31-32` | a slow callback and its repeat after the token expired write one after the other, and the verdict changes |
| `GradingPipeline!NoSpoiledVerdict` | `sandbox.go:67-70` | what the daemon answers about a container it stopped is an error that does not name it, or another status; with the daemon back, it is graded |
| `RealtimePresence!OneActiveConnection` with two connections that open the attempt | `assessment.ts:422` | two joins read the row before either claims it; neither displaces the other |
| `RealtimePresence!OnlineOnlyOnPage` | `assessment.ts:1020-1022` | the closing of the attempt cancels the departure of a connection that already left its page |
| `RealtimePresence!VouchesForConnections` | `assessment.ts:1088` | a handler that waited while its socket disconnected enters it afterwards |
| `RealtimePresence!ClockRunsWhileWorking` | `assessment.ts:359-364` | a settle that fired while a join waited writes its pause after the join has read the clock running |
| `AttemptClock!ExactlyTheTimeLeft` | `assessment-clock.ts:97` | a resumption is written on a later pause than the one it read |
| `Assessments!ValidatedIsCurrent` | `script-validation.ts:217-218` | the script or its solution is edited after it was read and before it is marked by its id: the verdict is of the old text |
| `Assessments!JudgedAsMarked` | `assessments.ts:622-623, 672-673` | an upload that found its text unchanged keeps the validation; overtaken before its upsert by another upload and its validation, it leaves that on a text it is not of |
| `Assessments!ListFixedOnceStarted` | `sessions.ts:67` | the list is replaced by a transaction that does not look at the status again |
| `Assessments!EndsAsConfigured` | `sessions.ts:611-612` | the closing time is edited between a start's read and its write |
| `Assessments!OpenAccessIsNotLive` | `assessments.ts:411-412` | two patches are each checked against the row before the other |
| `DraftRecovery!StopsOnlyWhenClosed` | `use-attempt-draft.ts:39-41` | an error other than a refusal that is answered on an open attempt (500, 502, 401) ends the autosave of that page |
| `DraftRecovery!NoCopyLeftBehind` | `local-draft.ts` | an attempt that expires without a draft never drops the copy |

## What is proved

In `AttemptLifecycle_proofs`, for any finite or infinite sets of Coders, tabs, callers and
Architects, any kinds of session and any bounds, from `LifecycleAssumption` alone (the ranges of
the constants, and that a Live session has an end):

- `TypeCorrect`: `SafeSpec => []TypeOK`. Not inductive alone: `CloseCommit` needs the attempt a
  request names (`WellFormed`) and `Dispatch` the Submission it dispatches (`Dispatching`).
- `AtMostOneSubmission`: `SafeSpec => []OneFormalSubmission`. The inductive invariant `LockInv` adds
  what the row lock means: its holder's attempt is open (`HoldersOpen`), no row has two holders
  (`OneHolder`). `LockInvKept` treats all steps that neither take the lock nor close under it; the
  two that do have steps of their own.
- `DeadlinesAreKept`: `SafeSpec => NeverClosedEarly`, from `DuePersists`: while the row is locked, no
  pause, resume or start moves the clock that justified the closing.
- `ClosedForGood`: `SafeSpec => ClosedStaysClosed`, action by action from what each statement can do to
  one row (the `...Effect` lemmas).

`TypeInv` and `LockInv` were checked with TLC on the safety instance before they were proved.

In `AttemptRecord_proofs`, which builds on those two invariants, from `LifecycleAssumption`:

- `NothingForgotten`: `SafeSpec => []NoSubmissionForgotten`. Whoever hands in goes on to the dispatch of that
  Submission, nobody else moves a dispatcher, and no Submission is QUEUED twice because none is stored twice.
- `HandedInForGood`: `SafeSpec => AnswersAreFinal`. What was handed in is never replaced, taken back or added to.
- `AtMostOneOfficial`, `RecordIsAStack`: `SafeSpec /\ []ResetsApart => []OneOfficial`, and so for
  `OnlyLatestIsLive`. `ResetsApart` says that no two resets of one record are between their read and
  their write. Without it both are false (see "Stated and violated"): each reset passes its check, and two
  retakes are left. It does not bound the number of Architects, nor what else is in flight.
- `OneResetAtATime`: with one resetting Architect, as in `attempt_safety`, `SafeSpec => []ResetsApart`, so that run
  and these theorems are about the same behaviours.
- `FormalAttemptKept`: `SafeSpec /\ []ResetsApart => KeepsFormalAttempt`, the refinement. `InitMaps` maps the initial
  states. `StepKinds` sorts every step by what it does to the rows (opens, begins, closes, resets, marks, unmarks, or
  leaves alone), and `StepMaps` shows each kind to be one action of `FormalAttempt` or a stutter under the mapping
  of `standing`, `answers` and `official`.

Neither of the two record properties is inductive. `RecordInv` adds that a mark is only on a row that exists
(`OfficialExists`), that a reset about to write finds its attempt not reset yet and still the latest
(`ResetsLatest`), and that while a hand-in that claims the mark holds its lock nothing of the record is official
(`ClaimsHold`): no attempt can be marked under it, and only one is open. `RecordInv` was checked with TLC first.

In `GradingPipeline_proofs`, for any Submissions, workers and requests, any number of attempts and
recoveries, and any faults however often they strike, from `PipelineAssumption` alone (the ranges of
the constants):

- `PipelineTypeCorrect`: `SafeSpec => []TypeOK`, which is inductive.
- `LocksAreActive`: `SafeSpec => []OnlyActiveJobsAreLocked`. `JobMoves` sorts every step by what it may do
  to one job's list and lock (`Moves`): it stays, joins the queue, is claimed, loses its lock, is taken
  off the list by the worker whose token the lock carries, or is recovered without a lock.
- `HoldersKeepJobs`: `SafeSpec => HolderKeepsJob`, from the same classification.
- `ReportComesFirst`: `SafeSpec => []ReportedBeforeDone`. The property says nothing of the goroutines and
  requests that will mark or complete a job, so the inductive `ReportInv` adds them: an accepted
  request's row has its verdict (`AcceptedIsReported`), so has the row of a goroutine about to mark or
  complete (`FinishingIsReported`), and a request answers the goroutine that waits for it, about its
  own job, and no other (`WaitersAwait`, `OneCall`). `EveryoneActs` sorts every step by what it may
  do to one goroutine; `VerdictsStay` says that no write takes a verdict away.
- `BrokenRunsAreNotGraded`: `SafeSpec => []NoBrokenRunIsGraded`. The inductive `FairInv` follows the result of a run
  that was interrupted or seen to lose the daemon: from the end of the run to its judgement, whatever the daemon does
  meanwhile, either the context stays cancelled or the error keeps naming the daemon (`Judged`), and such a result
  is neither delivered nor in a request. A `mistaken` result is not excluded, see "Stated and violated".
- `NothingIsLost`: `ASSUME Survivable PROVE SafeSpec => []StillOnTheWay`. `Survivable` excludes what does lose a
  Submission: an outage longer than a token lives (see "Stated and violated"), and a panic on every attempt (see
  the bounds of `grading`). As faults share one count, it asks that if panics are among them there be fewer faults than
  attempts, as in `grading`; without panics all other faults may strike in any number and order. The inductive `WayInv`
  accounts for the ways a job can end. Only a panic spends an attempt (`Tally`, `ErrorsCounted`), a token expires
  under an outage only when its job is over (`ExpiredIsOver`), and a job that ended or was answered for good
  is settled (`EndedIsSettled`, `AnsweredIsSettled`). `EveryJobFares`, `EveryoneEnds` and `RequestsRespond`
  sort the steps by what they do to one job, one goroutine and one request. `WayInv` was checked with TLC first.

In `RealtimePresence_proofs`, for any connections, visits, tasks and restarts, from `PresenceAssumption` (ranges,
and that `NoSocket` is no connection): `TypeCorrect`, `NoLeftPageBound`, `OnlyTheDepartedAreReleased` and
`ClosedClocksStand`. What a handler does depends on what it read before it waited, so the inductive
invariant says what can have been read: a join is for an opening that has happened, a socket that is bound and
connected is on its page, and whatever departure waits, settles or is retired is of a socket that departed
(`TasksAreFine`, `GoersDeparted`). `Onward` is what no step undoes but a restart, which
leaves no task behind.

In `WorkerPool_proofs`, for any number of goroutines, any configuration `config.validate` accepts, and any
traffic, faults and shutdown: `TypeCorrect`, `NoSlotLeaks`, `RunsLeaveTheReserve`, `SubmissionsAreKept`. The semaphores
are bare counters; the invariant equates each with the number of goroutines that are where a token is held, and
`Moved` and `CountMoves` follow one goroutine in or out of such a set as the counter moves.

In `Assessments_proofs`, for any sessions, requests and tasks, and any patches the request schema accepts
(`AssessmentAssumption`): `AssessmentsTypeCorrect`, `EditsForgetTheVerdict` (`Spec => OnlyOvertakenUploadsSlip`),
`StartedSessionsAreFrozen`, `OnlySessionsAtRestAreDeleted`, and
`JudgedScriptsAreAsMarked`: `Spec /\ []EditsApart => []JudgedAsMarked`. `EditsApart` says that no two uploads or
removals of a script are between their read and their write. The code does not ensure it, so this theorem is about what a
lock or a condition in the upsert would give; `ScriptStep` sorts the steps by what they do to the script. `Changed` says what one step may make of one row: an editable row is
patched, started or removed, one at rest removed, a running one ended, an absent one created. The invariant adds
that a task carries only patches an Architect may send (`PatchesCarried`). For the types it adds what each kind of task
has read (`TaskOK`), since what was read is what is written later.

In `AttemptClock_proofs`, for any duration, closing times and number of overlapping pauses and resumptions:
`TypeCorrect`, `TimeLeftBounded`. `TimeLeft` is not inductive, because what is written comes from an older row;
the invariant says of every row that was read what it says of the row itself (`SoundRow`, `SoundTask`).

In `DraftRecovery_proofs`, for any number of edits, visits, outages and requests: `TypeCorrect`,
`LocalCopyKeepsUp`, `NobodyIsLockedOut`. The invariant adds that the answer of a Submit that was stored means a
closed attempt (`StoredSubmitIsClosed`); `ChoiceExists` shows that no recovery puts an absent copy on screen.

So every invariant and every action property of the passing runs is a theorem, and so is the refinement of
`FormalAttempt`; the ones on a record and `StillOnTheWay` under the hypotheses above. Only model-checked are
the liveness properties: `OverdueIsClosed`, `EndedSessionEmpties`, `Settles`, `LostConnectionIsRetired`,
`AutosaveCatchesUp`, `SubmissionsAreClaimed`, `Stops` and `DueSessionsEmpty`. They rest on fairness, and so on `ENABLED`,
which is outside the prover's reach.

## Not modelled

The sandbox, seccomp filters and the reaper drive a container engine: their correctness is the
kernel's. Accounts, enrolment, modules, materials and practice are single-row operations that nothing
else acts on at the same time. Scoring, ranking and achievements are pure functions of data the models do not
carry. Pages, components, serializers and schemas are most of the repository's lines: they
have no state another actor can change, except the workspace, which is `DraftRecovery`. Of the components that
are modelled, the readers (lists, monitor snapshot, grade views, CSV), the creation and deletion of
Assessments, the focus and clipboard rules and the events are left out.

## Plan

1. `DeadlineAlarms`: alarm jobs under one id, replacement and removal of a firing job, and the sweep; a
   theorem that no alarm is trusted.
2. An abstract specification of `GradingPipeline` ("dispatched, then one verdict") and its refinement;
   `WorkerPool`'s outcomes as the composition of both.
3. The focus rule of the realtime server (counting, the limit, the closing it asks for).
4. `ingestRun` and the owners of RUN jobs; `runAttempt` with its rate limit.
5. Pure algorithms against reference definitions: `computeScore`, severity, ranking.
6. Proofs: the refinements of 2, and of an abstract clock by `AttemptClock`.
