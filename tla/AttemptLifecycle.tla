--------------------------- MODULE AttemptLifecycle ---------------------------
(***************************************************************************)
(* The attempts of one assessment session, from the moment the session     *)
(* starts running: how they are opened, written into, closed (by the       *)
(* Coder, by a deadline, by the end of the session), reset and marked      *)
(* official, at the granularity of the PostgreSQL statements and           *)
(* transactions the services issue under Read Committed.                   *)
(*                                                                         *)
(* Every handler runs in a process of its own: a browser tab of a Coder, a *)
(* caller of the internal auto-submit endpoint (the deadline alarm, the    *)
(* sweep, the focus watcher), the loop of closeSession, or an Architect.   *)
(* A handler that reads in one statement and writes in another takes two   *)
(* steps here, and everybody else may act in between.  What the handler    *)
(* carries from one step to the next is its entry of `req`.                *)
(*                                                                         *)
(* A row lock is held by the process whose request is inside the closing   *)
(* transaction (op "submit" or "auto"): see RowLocked.                     *)
(*                                                                         *)
(* The clock of an attempt is the three cases its guards tell apart; the   *)
(* milliseconds behind them are AttemptClock's subject.                    *)
(***************************************************************************)
EXTENDS Integers, Sequences, FiniteSets

CONSTANTS
  Coders,        \* Coders who may take part
  Listed,        \* those on the session's participant list
  Tabs,          \* browser tabs, each one a client of the HTTP API
  Owner,         \* the Coder each tab belongs to
  Callers,       \* callers of POST /internal/attempts/[id]/auto-submit
  Architects,    \* handlers serving the owning Architects' resets
  Markers,       \* and those serving their choice of the official attempt
  Ender,         \* the one process that wins closeSession's status flip
  Kinds,         \* kinds of session: execution mode, and whether it has an endsAt
  Sources,       \* source texts
  NoSource,      \* "no draft row"
  NoAttempt,     \* a request that is about no attempt
  MaxAttempts,   \* bound: attempts per Coder, that is resets + 1
  MaxCrashes     \* bound: handlers that die between two of their steps

ASSUME LifecycleAssumption ==
  /\ Listed \subseteq Coders
  /\ Owner \in [Tabs -> Coders]
  /\ Kinds \subseteq [mode : {"LIVE", "INDIVIDUAL", "UNTIMED"}, closes : BOOLEAN]
  /\ \A k \in Kinds : k.mode = "LIVE" => k.closes
  /\ MaxAttempts \in Nat \ {0}
  /\ MaxCrashes \in Nat
  /\ NoSource \notin Sources
  /\ NoAttempt \notin Coders \X (0..MaxAttempts)
  /\ Tabs \cap Callers = {} /\ Tabs \cap Architects = {}
  /\ Callers \cap Architects = {} /\ Ender \notin Tabs \cup Callers \cup Architects

VARIABLES
  session,    \* the AssessmentSession row
  attempts,   \* AssessmentAttempt rows by <<coder, attemptNumber>>
  draft,      \* AttemptDraft: the one stored draft of each attempt
  subs,       \* Submission rows of each attempt, in insertion order
  jobs,       \* attempts whose Submission has a job on the execution queue
  req,        \* what each process is in the middle of
  closing,    \* the closeSession loop
  crashes     \* handlers that died so far

vars == <<session, attempts, draft, subs, jobs, req, closing, crashes>>

------------------------------------------------------------------------------
Numbers == 1..MaxAttempts
AttemptIds == Coders \X Numbers
Closers == Callers \cup {Ender}
Procs == Tabs \cup Closers \cup Architects

\* Enum AttemptStatus; "none" is an id with no row.
Status == {"none", "NOT_STARTED", "IN_PROGRESS", "SUBMITTED", "EXPIRED", "RESET"}

\* pausedAt / individualDeadlineAt as the guards see them: the clock runs, it
\* is paused, or its deadline has passed.
Clock == {"running", "paused", "out"}

Attempt == [status : Status, clock : Clock, official : BOOLEAN, granted : BOOLEAN]
NoRow == [status |-> "none", clock |-> "running", official |-> FALSE, granted |-> FALSE]

Submission == [source : Sources, auto : BOOLEAN, status : {"QUEUED", "SYSTEM_ERROR"}]

Reasons == {"DEADLINE", "FOCUS_LOSS", "SESSION_ENDED"}

\* `claim`: no sibling was official when the closing transaction counted.
\* `granted`: the session was not running when the reset read it.
Request ==
  [op : {"idle", "start", "draft", "submit", "auto", "dispatch", "reset"},
   att : (Coders \X (0..MaxAttempts)) \cup {NoAttempt},
   source : Sources \cup {NoSource},
   claim : BOOLEAN,
   reason : Reasons \cup {"none"},
   granted : BOOLEAN]

Idle == [op |-> "idle", att |-> NoAttempt, source |-> NoSource, claim |-> FALSE,
         reason |-> "none", granted |-> FALSE]
Asking(op, a) == [Idle EXCEPT !.op = op, !.att = a]

------------------------------------------------------------------------------
(* The rows, as the services' queries see them. *)

Exists(a) == attempts[a].status # "none"
Open(a) == attempts[a].status = "IN_PROGRESS"
Siblings(c) == {b \in AttemptIds : b[1] = c}

\* n is the attemptNumber of the Coder's latest attempt, 0 when there is none.
IsLatest(c, n) ==
  /\ n # 0 => Exists(<<c, n>>)
  /\ \A m \in Numbers : m > n => ~Exists(<<c, m>>)

\* SELECT ... FOR UPDATE, held until the closing transaction ends.
\* (Variant: autoSubmitAttempt forgets the lock.)
RowLockedBySubmit(a) == \E p \in Procs : req[p].op = "submit" /\ req[p].att = a

RowLocked(a) == \E p \in Procs : req[p].op \in {"submit", "auto"} /\ req[p].att = a

RecordUnlocked(c) == \A b \in Siblings(c) : ~RowLocked(b)

\* (Variant: claimOfficialIfUnset does not count.)
NoneCounted(c) == TRUE

NoneOfficial(c) == \A b \in Siblings(c) : ~attempts[b].official

\* The deadline an attempt answers to has passed; a paused one has none.
Overdue(a) ==
  \/ session.kind.mode = "LIVE" /\ session.due
  \/ session.kind.mode = "INDIVIDUAL" /\ attempts[a].clock = "out"

\* A retake granted after the session ended reads the session as running.
EffectivelyRunning(a) == attempts[a].granted \/ session.status = "RUNNING"

\* May the attempt take a draft or a Submit?
Active(a) == Open(a) /\ EffectivelyRunning(a) /\ ~Overdue(a)

------------------------------------------------------------------------------
Init ==
  /\ session \in {[status |-> "RUNNING", kind |-> k, due |-> FALSE] : k \in Kinds}
  /\ attempts = [a \in AttemptIds |-> NoRow]
  /\ draft = [a \in AttemptIds |-> NoSource]
  /\ subs = [a \in AttemptIds |-> <<>>]
  /\ jobs = {}
  /\ req = [p \in Procs |-> Idle]
  /\ closing = [step |-> "off", todo |-> {}, missing |-> {}]
  /\ crashes = 0

------------------------------------------------------------------------------
(* startAttempt *)

\* The session and the latest attempt are read, and the refusals decided,
\* outside any transaction.  An attempt that is neither missing nor
\* NOT_STARTED is handed back as it is: nothing to write.
StartRead(t) ==
  /\ req[t].op = "idle"
  /\ \E n \in 0..MaxAttempts :
       /\ IsLatest(Owner[t], n)
       /\ n # 0 => attempts[<<Owner[t], n>>].status = "NOT_STARTED"
       /\ \/ n # 0 /\ attempts[<<Owner[t], n>>].granted
          \/ session.status = "RUNNING" /\ ~(session.kind.closes /\ session.due)
       /\ req' = [req EXCEPT ![t] = Asking("start", <<Owner[t], n>>)]
  /\ UNCHANGED <<session, attempts, draft, subs, jobs, closing, crashes>>

\* The unique key on the number, or the condition of the update.
\* (Variant: an upsert, an unconditional update.)
StillAsReadAssumed(a, n) == TRUE

StillAsRead(a, n) == attempts[a].status = IF n = 0 THEN "none" ELSE "NOT_STARTED"

\* Number 1 is created in progress and official (a unique violation hands the
\* winner back); a waiting attempt is started only if it still is NOT_STARTED.
StartWrite(t) ==
  LET n == req[t].att[2]
      a == <<Owner[t], IF n = 0 THEN 1 ELSE n>>
  IN
  /\ req[t].op = "start"
  /\ ~RowLocked(a)
  /\ attempts' =
       IF StillAsRead(a, n)
       THEN [attempts EXCEPT ![a].status = "IN_PROGRESS",
                             ![a].clock = "running",
                             ![a].official = @ \/ n = 0]
       ELSE attempts
  /\ req' = [req EXCEPT ![t] = Idle]
  /\ UNCHANGED <<session, draft, subs, jobs, closing, crashes>>

------------------------------------------------------------------------------
(* saveDraft, and handleDraft on the socket: the same check, the same upsert *)

DraftRead(t, a, s) ==
  /\ req[t].op = "idle"
  /\ a[1] = Owner[t]
  /\ Active(a)
  /\ req' = [req EXCEPT ![t] = [Asking("draft", a) EXCEPT !.source = s]]
  /\ UNCHANGED <<session, attempts, draft, subs, jobs, closing, crashes>>

DraftWrite(t) ==
  /\ req[t].op = "draft"
  /\ draft' = [draft EXCEPT ![req[t].att] = req[t].source]
  /\ req' = [req EXCEPT ![t] = Idle]
  /\ UNCHANGED <<session, attempts, subs, jobs, closing, crashes>>

------------------------------------------------------------------------------
(* submitAttempt and autoSubmitAttempt: one locking transaction each, then  *)
(* the dispatch of the Submission it committed.                             *)

Closing(op, a, s, reason) ==
  [Asking(op, a) EXCEPT !.source = s, !.reason = reason, !.claim = NoneOfficial(a[1])]

SubmitLock(t, a, s) ==
  /\ req[t].op = "idle"
  /\ a[1] = Owner[t]
  /\ ~RowLocked(a)
  /\ Active(a)
  /\ req' = [req EXCEPT ![t] = Closing("submit", a, s, "none")]
  /\ UNCHANGED <<session, attempts, draft, subs, jobs, closing, crashes>>

\* Whether the database agrees that a caller's reason holds now.  FOCUS_LOSS
\* is the caller's decision alone.  (Variant: the alarm is trusted.)
DueWhenAsked(a, reason) == reason = "SESSION_ENDED" => session.status # "RUNNING"

Due(a, reason) ==
  CASE reason = "SESSION_ENDED" -> session.status # "RUNNING"
    [] reason = "DEADLINE"      -> Overdue(a)
    [] reason = "FOCUS_LOSS"    -> TRUE

\* NOT_ACTIVE and NOT_DUE answers change nothing here (the alarm they move is
\* not part of this module).
AutoLock(p, a, reason) ==
  /\ req[p].op = "idle"
  /\ ~RowLocked(a)
  /\ Open(a)
  /\ Due(a, reason)
  /\ req' = [req EXCEPT ![p] = Closing("auto", a, draft[a], reason)]
  /\ UNCHANGED <<session, attempts, draft, subs, jobs, crashes>>

\* The realtime server's calls: an alarm that fired, the sweep, the focus rule.
CallerLock(p, a, reason) == AutoLock(p, a, reason) /\ UNCHANGED closing

\* (Variant: a missing draft is handed in as it is.)
HasCodeAssumed(r) == TRUE

HasCode(r) == r.source # NoSource

\* The transaction commits: a Submission and SUBMITTED, or EXPIRED when an
\* auto-submit found no draft.
CloseCommit(p) ==
  LET r == req[p] IN
  /\ r.op \in {"submit", "auto"}
  /\ IF HasCode(r)
     THEN /\ subs' = [subs EXCEPT ![r.att] = Append(@,
                        [source |-> r.source, auto |-> r.op = "auto", status |-> "QUEUED"])]
          /\ attempts' = [attempts EXCEPT ![r.att].status = "SUBMITTED",
                                          ![r.att].official = @ \/ r.claim]
          /\ req' = [req EXCEPT ![p] = Asking("dispatch", r.att)]
     ELSE /\ attempts' = [attempts EXCEPT ![r.att].status = "EXPIRED"]
          /\ req' = [req EXCEPT ![p] = Idle]
          /\ UNCHANGED subs
  /\ UNCHANGED <<session, draft, jobs, closing, crashes>>

\* (Variant: the row is left as it is when the queue is down.)
FailedLeftQueued(a) == subs

Failed(a) == [subs EXCEPT ![a][Len(subs[a])].status = "SYSTEM_ERROR"]

\* dispatchSubmission: the job is enqueued; or the enqueue throws and the row
\* becomes SYSTEM_ERROR; or the write of jobId after it throws, and the row
\* becomes SYSTEM_ERROR although the job is on the queue.
Dispatch(p) ==
  LET a == req[p].att IN
  /\ req[p].op = "dispatch"
  /\ \/ jobs' = jobs \cup {a} /\ subs' \in {subs, Failed(a)}
     \/ jobs' = jobs /\ subs' = Failed(a)
  /\ req' = [req EXCEPT ![p] = Idle]
  /\ UNCHANGED <<session, attempts, draft, closing, crashes>>

------------------------------------------------------------------------------
(* closeSession, called by endSession and expireSession *)

\* The status flips from RUNNING in one conditional update: one caller wins.
FlipEnded ==
  /\ session.status = "RUNNING"
  /\ session' = [session EXCEPT !.status = "ENDED"]
  /\ closing' = [closing EXCEPT !.step = "listing"]
  /\ UNCHANGED <<attempts, draft, subs, jobs, req, crashes>>

EndSession == FlipEnded

ExpireSession == session.kind.closes /\ session.due /\ FlipEnded

ListOpen ==
  /\ closing.step = "listing"
  /\ closing' = [closing EXCEPT !.step = "closing", !.todo = {a \in AttemptIds : Open(a)}]
  /\ UNCHANGED <<session, attempts, draft, subs, jobs, req, crashes>>

\* autoSubmitAttempt(attempt, SESSION_ENDED) for the next attempt of the list;
\* one that closed meanwhile is passed over.
EnderLock(a) ==
  /\ a \in closing.todo
  /\ AutoLock(Ender, a, "SESSION_ENDED")
  /\ closing' = [closing EXCEPT !.todo = @ \ {a}]

EnderSkip(a) ==
  /\ a \in closing.todo
  /\ req[Ender].op = "idle"
  /\ ~RowLocked(a) /\ ~Open(a)
  /\ closing' = [closing EXCEPT !.todo = @ \ {a}]
  /\ UNCHANGED <<session, attempts, draft, subs, jobs, req, crashes>>

ListNoShows ==
  /\ closing.step = "closing" /\ closing.todo = {} /\ req[Ender].op = "idle"
  /\ closing' = [closing EXCEPT !.step = "noShows",
                                !.missing = {c \in Listed : IsLatest(c, 0)}]
  /\ UNCHANGED <<session, attempts, draft, subs, jobs, req, crashes>>

\* An EXPIRED attempt for a listed Coder without one.  If the Coder's own start
\* landed since the list was read, the unique violation leaves the loop.
CreateNoShow(c) ==
  /\ closing.step = "noShows" /\ c \in closing.missing
  /\ IF Exists(<<c, 1>>)
     THEN closing' = [closing EXCEPT !.step = "failed"] /\ UNCHANGED attempts
     ELSE /\ attempts' = [attempts EXCEPT ![<<c, 1>>] =
                            [NoRow EXCEPT !.status = "EXPIRED", !.official = TRUE]]
          /\ closing' = [closing EXCEPT !.missing = @ \ {c}]
  /\ UNCHANGED <<session, draft, subs, jobs, req, crashes>>

CloseDone ==
  /\ closing.step = "noShows" /\ closing.missing = {}
  /\ closing' = [closing EXCEPT !.step = "done"]
  /\ UNCHANGED <<session, attempts, draft, subs, jobs, req, crashes>>

------------------------------------------------------------------------------
(* resetAttempt and setAttemptOfficial *)

ResetRead(r, a) ==
  /\ req[r].op = "idle"
  /\ attempts[a].status \notin {"none", "RESET"}
  /\ ~(session.kind.mode = "LIVE" /\ session.status # "RUNNING")
  /\ req' = [req EXCEPT ![r] = [Asking("reset", a) EXCEPT
                                  !.granted = session.status # "RUNNING"]]
  /\ UNCHANGED <<session, attempts, draft, subs, jobs, closing, crashes>>

\* The rows once a is reset and its Coder's attempt n + 1 waits.  The flag is
\* cleared across the record.
\* (Variants: the flag moves to the new attempt; the old one is left open.)
AfterResetFlagMoved(a, n, granted) ==
  [b \in AttemptIds |->
     IF b = <<a[1], n + 1>>
     THEN [NoRow EXCEPT !.status = "NOT_STARTED", !.granted = granted, !.official = TRUE]
     ELSE [attempts[b] EXCEPT !.status = IF b = a THEN "RESET" ELSE @,
                              !.official = @ /\ b[1] # a[1]]]

AfterResetOldKept(a, n, granted) ==
  [b \in AttemptIds |->
     IF b = <<a[1], n + 1>>
     THEN [NoRow EXCEPT !.status = "NOT_STARTED", !.granted = granted]
     ELSE [attempts[b] EXCEPT !.official = @ /\ b[1] # a[1]]]

AfterReset(a, n, granted) ==
  [b \in AttemptIds |->
     IF b = <<a[1], n + 1>>
     THEN [NoRow EXCEPT !.status = "NOT_STARTED", !.granted = granted]
     ELSE [attempts[b] EXCEPT !.status = IF b = a THEN "RESET" ELSE @,
                              !.official = @ /\ b[1] # a[1]]]

\* The latest number, the writes and the commit: the writes wait for the locks
\* on the Coder's rows, and a number taken since it was read is a unique
\* violation (a Crash).  MaxAttempts bounds the retakes.
ResetWrite(r) ==
  LET a == req[r].att IN
  /\ req[r].op = "reset"
  /\ RecordUnlocked(a[1])
  /\ \E n \in 1..(MaxAttempts - 1) :
       /\ IsLatest(a[1], n)
       /\ attempts' = AfterReset(a, n, req[r].granted)
  /\ req' = [req EXCEPT ![r] = Idle]
  /\ UNCHANGED <<session, draft, subs, jobs, closing, crashes>>

\* The flag moves to a and leaves its siblings, or is taken off a, in one
\* transaction that waits for the rows it writes.
SetOfficial(a) ==
  /\ Exists(a) /\ RecordUnlocked(a[1])
  /\ attempts' = [b \in AttemptIds |->
       IF b[1] = a[1] THEN [attempts[b] EXCEPT !.official = (b = a)] ELSE attempts[b]]
  /\ UNCHANGED <<session, draft, subs, jobs, req, closing, crashes>>

UnsetOfficial(a) ==
  /\ Exists(a) /\ ~RowLocked(a)
  /\ attempts' = [attempts EXCEPT ![a].official = FALSE]
  /\ UNCHANGED <<session, draft, subs, jobs, req, closing, crashes>>

------------------------------------------------------------------------------
(* The realtime server's clock writes, and time itself *)

\* pauseIfIndividual.  The pause is dated from the moment the Coder left, so it
\* may be written after the deadline it stops.
Pause(a) ==
  /\ session.kind.mode = "INDIVIDUAL" /\ Open(a) /\ ~RowLocked(a)
  /\ attempts[a].clock # "paused"
  /\ attempts' = [attempts EXCEPT ![a].clock = "paused"]
  /\ UNCHANGED <<session, draft, subs, jobs, req, closing, crashes>>

\* resumeIfPaused, with time left or with none.
Resume(a) ==
  /\ session.kind.mode = "INDIVIDUAL" /\ Open(a) /\ ~RowLocked(a)
  /\ attempts[a].clock = "paused"
  /\ \E k \in {"running", "out"} : attempts' = [attempts EXCEPT ![a].clock = k]
  /\ UNCHANGED <<session, draft, subs, jobs, req, closing, crashes>>

ClockRunsOut(a) ==
  /\ session.kind.mode = "INDIVIDUAL" /\ Open(a) /\ attempts[a].clock = "running"
  /\ attempts' = [attempts EXCEPT ![a].clock = "out"]
  /\ UNCHANGED <<session, draft, subs, jobs, req, closing, crashes>>

SessionComesDue ==
  /\ session.kind.closes /\ ~session.due
  /\ session' = [session EXCEPT !.due = TRUE]
  /\ UNCHANGED <<attempts, draft, subs, jobs, req, closing, crashes>>

\* A process dies, or its statement throws: the open transaction rolls back
\* and the rest of the handler never runs.
Crash(p) ==
  /\ crashes < MaxCrashes
  /\ \/ req[p].op # "idle"
     \/ p = Ender /\ closing.step \in {"listing", "closing", "noShows"}
  /\ req' = [req EXCEPT ![p] = Idle]
  /\ closing' = IF p = Ender THEN [closing EXCEPT !.step = "failed", !.todo = {}] ELSE closing
  /\ crashes' = crashes + 1
  /\ UNCHANGED <<session, attempts, draft, subs, jobs>>

------------------------------------------------------------------------------
TabStep(t) ==
  \/ StartRead(t) \/ StartWrite(t) \/ DraftWrite(t)
  \/ \E a \in AttemptIds, s \in Sources : DraftRead(t, a, s) \/ SubmitLock(t, a, s)

CallerStep(p) == \E a \in AttemptIds, reason \in Reasons : CallerLock(p, a, reason)

CloseLoop ==
  \/ EndSession \/ ExpireSession \/ ListOpen \/ ListNoShows \/ CloseDone
  \/ \E a \in AttemptIds : EnderLock(a) \/ EnderSkip(a)
  \/ \E c \in Coders : CreateNoShow(c)

ArchitectStep ==
  \/ \E r \in Architects : ResetWrite(r) \/ \E a \in AttemptIds : ResetRead(r, a)
  \/ \E m \in Markers, a \in AttemptIds : SetOfficial(a) \/ UnsetOfficial(a)

ClockStep ==
  \/ SessionComesDue
  \/ \E a \in AttemptIds : Pause(a) \/ Resume(a) \/ ClockRunsOut(a)

Next ==
  \/ \E t \in Tabs : TabStep(t)
  \/ \E p \in Callers : CallerStep(p)
  \/ \E p \in Procs : CloseCommit(p) \/ Dispatch(p) \/ Crash(p)
  \/ CloseLoop
  \/ ArchitectStep
  \/ ClockStep

\* The sweep's queries: Individual clocks that ran out, and attempts left open
\* in an ended session.  (Variants: one of the two is missing.)
SweepStrandedOnly(p) == \E a \in AttemptIds : CallerLock(p, a, "SESSION_ENDED")

SweepOverdueOnly(p) ==
  \E a \in AttemptIds : attempts[a].clock = "out" /\ CallerLock(p, a, "DEADLINE")

Sweep(p) ==
  \E a \in AttemptIds :
    \/ attempts[a].clock = "out" /\ CallerLock(p, a, "DEADLINE")
    \/ CallerLock(p, a, "SESSION_ENDED")

\* The sweep runs at start-up and every 30 seconds, and its third query is for
\* sessions past their closing time; a transaction ends, and so does the
\* closing loop unless it crashes.  Nothing is assumed of Coders, Architects,
\* alarms or the focus rule.
Fairness ==
  /\ \A p \in Procs : WF_vars(CloseCommit(p)) /\ WF_vars(Dispatch(p))
  /\ \A p \in Callers : WF_vars(Sweep(p))
  /\ WF_vars(ExpireSession)
  /\ WF_vars(ListOpen) /\ WF_vars(ListNoShows) /\ WF_vars(CloseDone)
  /\ WF_vars(\E a \in AttemptIds : EnderLock(a) \/ EnderSkip(a))
  /\ WF_vars(\E c \in Coders : CreateNoShow(c))

SafeSpec == Init /\ [][Next]_vars
Spec == SafeSpec /\ Fairness

------------------------------------------------------------------------------
(* Properties *)

Closed == {"SUBMITTED", "EXPIRED", "RESET"}

TypeOK ==
  /\ session \in [status : {"RUNNING", "ENDED"}, kind : Kinds, due : BOOLEAN]
  /\ attempts \in [AttemptIds -> Attempt]
  /\ draft \in [AttemptIds -> Sources \cup {NoSource}]
  /\ subs \in [AttemptIds -> Seq(Submission)]
  /\ jobs \subseteq AttemptIds
  /\ req \in [Procs -> Request]
  /\ closing \in [step : {"off", "listing", "closing", "noShows", "done", "failed"},
                   todo : SUBSET AttemptIds, missing : SUBSET Coders]
  /\ crashes \in 0..MaxCrashes

\* One formal Submission per attempt, whoever closes it: two tabs submitting,
\* a Submit racing an auto-submit, the sweep racing the closing loop.  Every
\* handed-in attempt has its one Submission and no other attempt has any,
\* except that a reset keeps the history (attempts.ts, rule 3 of the header).
OneFormalSubmission ==
  \A a \in AttemptIds :
    /\ Len(subs[a]) <= 1
    /\ attempts[a].status = "SUBMITTED" => Len(subs[a]) = 1
    /\ attempts[a].status \in {"none", "NOT_STARTED", "IN_PROGRESS", "EXPIRED"}
         => Len(subs[a]) = 0

\* At most one attempt of a Coder's record is official, whatever order submits,
\* auto-submits, resets and the Architect's choices commit in
\* (official-score.ts).
OneOfficial ==
  \A a, b \in AttemptIds :
    a[1] = b[1] /\ attempts[a].official /\ attempts[b].official => a = b

\* A Coder's record is a stack: only the latest attempt can be anything but
\* RESET, so a retake never leaves an older attempt to be worked in beside it.
OnlyLatestIsLive ==
  \A a, b \in AttemptIds :
    a[1] = b[1] /\ a[2] < b[2] /\ Exists(b) => attempts[a].status = "RESET"

\* The server takes an attempt away for its deadline only if the deadline has
\* passed at the moment the attempt closes, not merely when the alarm or the
\* sweep looked: no pause or resume slips in between.
NeverClosedEarly ==
  [][\A p \in Procs :
       /\ req[p].op = "auto" /\ req[p].reason = "DEADLINE"
       /\ Open(req[p].att) /\ attempts'[req[p].att].status # "IN_PROGRESS"
       => Overdue(req[p].att)]_vars

\* A closed attempt is never worked in again: it can only be reset, and a reset
\* one stays reset, though a start may have read it as NOT_STARTED before.
ClosedStaysClosed ==
  [][\A a \in AttemptIds :
       attempts[a].status \in Closed =>
         attempts'[a].status \in {attempts[a].status, "RESET"}]_vars

\* As long as no handler dies half-way, a QUEUED Submission is on the execution
\* queue or its handler is about to put it there (dispatchSubmission).
NoSubmissionForgotten ==
  crashes = 0 =>
    \A a \in AttemptIds : \A i \in DOMAIN subs[a] :
      subs[a][i].status = "QUEUED" =>
        a \in jobs \/ \E p \in Procs : req[p].op = "dispatch" /\ req[p].att = a

\* An attempt that stays open past its own deadline is closed: alarms may be
\* lost, the sweep is enough.
OverdueIsClosed == \A a \in AttemptIds : []<>~(Open(a) /\ Overdue(a))

\* Once the session has ended, nothing stays open in it, even when the closing
\* loop dies before it got there or a late start slips past the flip.
EndedSessionEmpties ==
  \A a \in AttemptIds : []<>~(Open(a) /\ session.status = "ENDED")

\* Every step of the handlers is one of FormalAttempt, or changes nothing a
\* Coder is promised: the row lock, the count of official siblings under it and
\* the conditional writes make each record behave as if one request at a time
\* were served.
Standing ==
  [none |-> "none", NOT_STARTED |-> "waiting", IN_PROGRESS |-> "open",
   SUBMITTED |-> "handedIn", EXPIRED |-> "lapsed", RESET |-> "void"]

Flagged(c) == {a \in Siblings(c) : attempts[a].official}

standing == [a \in AttemptIds |-> Standing[attempts[a].status]]
answers == [a \in AttemptIds |-> [i \in DOMAIN subs[a] |-> subs[a][i].source]]
official ==
  [c \in Coders |-> IF Flagged(c) = {} THEN NoAttempt ELSE CHOOSE a \in Flagged(c) : TRUE]

Formal == INSTANCE FormalAttempt

KeepsFormalAttempt == Formal!Spec

(* What comments of the code say, and the code does not keep. *)

\* "the session's status and its closing time do not apply to it": a granted
\* retake is closed without its Coder only by its own clock or the focus rule.
GrantedAnswersToItself ==
  [][\A a \in AttemptIds :
       /\ attempts[a].granted /\ Open(a)
       /\ attempts'[a].status \in {"SUBMITTED", "EXPIRED"}
       => \E p \in Procs : /\ req[p].att = a
                           /\ \/ req[p].op = "submit"
                              \/ req[p].op = "auto" /\ req[p].reason = "FOCUS_LOSS"
                              \/ req[p].op = "auto" /\ Overdue(a)]_vars

\* "A listed participant who never started gets an EXPIRED attempt ... rather
\* than silently omitting them": when the loop is over, every listed Coder has
\* a record.
NoShowsRecorded ==
  closing.step \in {"done", "failed"} => \A c \in Listed : Exists(<<c, 1>>)

\* "refused once the attempt is no longer running": the stored draft of an
\* attempt does not change after it closed.
DraftFrozenOnceClosed ==
  [][\A a \in AttemptIds :
       attempts[a].status \in Closed => draft'[a] = draft[a]]_vars
===============================================================================
