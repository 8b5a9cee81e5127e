--------------------------- MODULE RealtimePresence ---------------------------
(***************************************************************************)
(* Who is present, and whose clock runs: the half of a session that the    *)
(* realtime server keeps.  One Coder, one session and one Individual       *)
(* attempt in it, reached over several sockets: tabs, devices, and the     *)
(* connections that follow a dropped one.                                  *)
(*                                                                         *)
(* The server is one thread, but every handler waits on the database and   *)
(* others run meanwhile.  A handler is therefore a task with a step for    *)
(* each stretch between two awaits; the statement awaited takes effect     *)
(* with the code that follows it.  What a task remembers from an earlier   *)
(* statement is in its record, and may be stale.                           *)
(*                                                                         *)
(* The maps of `createAssessmentRuntime` die with the process; the         *)
(* participant row and the attempt row do not.  Time is what it does to    *)
(* the rows: a row left unrefreshed becomes stale, a running clock passes  *)
(* its deadline, a timer runs out.                                         *)
(***************************************************************************)
EXTENDS Integers, FiniteSets

CONSTANTS
  Sockets,      \* connections; an id is never used twice
  NoSocket,
  MaxVisits,    \* bound: openings of each page on one socket
  MaxTasks,     \* bound: tasks at work once a page has been opened
  MaxRestarts   \* bound: restarts of the server

Pages == {"lobby", "attempt"}

ASSUME PresenceAssumption ==
  /\ NoSocket \notin Sockets
  /\ MaxVisits \in [Sockets -> [Pages -> Nat]]
  /\ MaxTasks \in Nat
  /\ MaxRestarts \in Nat

VARIABLES
  net,         \* each socket: not yet there, connected, gone for good
  visits,      \* openings of each page, and up to which one it has been left
  bound,       \* boundAttempts: the sockets working on the attempt
  lobbies,     \* the entries of each socket, "waiting" or "closed"
  listed,      \* the sockets that have an entry list in `lobbies` at all
  pending,     \* pendingDisconnects: the departure waiting out its debounce
  leaving,     \* pendingLobbyDisconnects: the socket whose departure waits
  tasks,       \* handlers between two awaits
  row,         \* the participant row
  attempt,     \* the attempt row, with its clock
  announced,   \* did ATTEMPT_CLOSED arrive?
  restarts

vars == <<net, visits, bound, lobbies, listed, pending, leaving, tasks, row,
          attempt, announced, restarts>>
maps == <<visits, bound, lobbies, listed, pending, leaving>>
rows == <<row, attempt>>

------------------------------------------------------------------------------
Task ==
  [kind : {"join"}, step : {"load", "upsert", "claim", "welcome"},
   socket : Sockets, opening : Nat, previous : Sockets \cup {NoSocket},
   paused : BOOLEAN, refresh : BOOLEAN]
  \cup [kind : {"ready"}, step : {"load", "claim"}, socket : Sockets,
        opening : Nat]
  \cup [kind : {"settle", "retire"}, step : {"release", "load", "pause"},
        socket : Sockets]
  \cup [kind : {"settleLobby"}, step : {"release"}, socket : Sockets]

Init ==
  /\ net = [s \in Sockets |-> "new"]
  /\ visits = [s \in Sockets |-> [p \in Pages |-> [opened |-> 0, left |-> 0]]]
  /\ bound = {}
  /\ lobbies = [s \in Sockets |-> {}]
  /\ listed = {}
  /\ pending = NoSocket
  /\ leaving = NoSocket
  /\ tasks = {}
  /\ row = [holder |-> NoSocket, online |-> FALSE, stale |-> FALSE]
  /\ attempt = [status |-> "none", paused |-> FALSE]
  /\ announced = FALSE
  /\ restarts = 0

------------------------------------------------------------------------------
(* Visits.                                                                  *)

IsOpen(s, p) == visits[s][p].opened > visits[s][p].left

\* A socket without a record counts as open, and so does a later opening.
visitIsOpen(s, p, opening) == opening > visits[s][p].left

leaveVisit(s, p) ==
  visits' = [visits EXCEPT ![s][p].left = visits[s][p].opened]

\* The page is mounted: its socket connects if it has to and sends its event.
openVisit(s, p) ==
  /\ net[s] # "down"
  /\ visits[s][p].opened < MaxVisits[s][p]
  /\ Cardinality(tasks) < MaxTasks
  /\ net' = [net EXCEPT ![s] = "up"]
  /\ visits' = [visits EXCEPT ![s][p].opened = @ + 1]

HeldBy(s) == [holder |-> s, online |-> TRUE, stale |-> FALSE]
Touched == [row EXCEPT !.stale = FALSE]
Released == [row EXCEPT !.holder = NoSocket, !.online = FALSE]

------------------------------------------------------------------------------
(* attempt:join                                                             *)

Join(s) ==
  /\ attempt.status # "none"
  /\ ~ IsOpen(s, "attempt")
  /\ openVisit(s, "attempt")
  /\ tasks' = tasks \cup
       {[kind |-> "join", step |-> "load", socket |-> s,
         opening |-> visits[s]["attempt"].opened + 1, previous |-> NoSocket,
         paused |-> FALSE, refresh |-> FALSE]}
  /\ UNCHANGED <<bound, lobbies, listed, pending, leaving, rows,
                 announced, restarts>>

\* A task goes on to its next step, or ends.
Becomes(t, u) == tasks' = (tasks \ {t}) \cup {u}
Ends(t) == tasks' = tasks \ {t}

JoinLoad(t) ==
  /\ t.kind = "join" /\ t.step = "load"
  /\ IF attempt.status = "open"
     THEN Becomes(t, [t EXCEPT !.step = "upsert", !.paused = attempt.paused])
     ELSE Ends(t)
  /\ UNCHANGED <<net, maps, rows, announced, restarts>>

\* The previous holder is read; what is pending belongs to this Coder's last
\* departure, which this join makes a refresh.
JoinUpsert(t) ==
  /\ t.kind = "join" /\ t.step = "upsert"
  /\ IF visitIsOpen(t.socket, "attempt", t.opening)
     THEN /\ Becomes(t, [t EXCEPT !.step = "claim", !.previous = row.holder,
                                  !.refresh = pending # NoSocket])
          /\ pending' = NoSocket
          /\ leaving' = NoSocket
     ELSE Ends(t) /\ UNCHANGED <<pending, leaving>>
  /\ UNCHANGED <<net, visits, bound, lobbies, listed, rows,
                 announced, restarts>>

\* (Variant: the visit is checked once, before the row is claimed.)
StillOnPageAssumed(t) == TRUE

StillOnPage(t) == visitIsOpen(t.socket, "attempt", t.opening)

JoinClaim(t) ==
  LET s == t.socket IN
  /\ t.kind = "join" /\ t.step = "claim"
  /\ row' = HeldBy(s)
  /\ lobbies' = [lobbies EXCEPT ![s] = {}]
  /\ listed' = listed \cup {s}
  /\ IF StillOnPage(t)
     THEN /\ bound' = bound \cup {s}
          /\ pending' = pending
          /\ IF t.refresh THEN Ends(t) ELSE Becomes(t, [t EXCEPT !.step = "welcome"])
     ELSE /\ bound' = bound \ {s}
          /\ pending' = s
          /\ Ends(t)
  /\ UNCHANGED <<net, visits, leaving, attempt, announced, restarts>>

\* What `handleDisconnect` does to the maps for a socket that goes.
Forget(s) ==
  /\ net' = [net EXCEPT ![s] = "down"]
  /\ visits' = [visits EXCEPT ![s] = [p \in Pages |-> [opened |-> 0, left |-> 0]]]
  /\ bound' = bound \ {s}
  /\ lobbies' = [lobbies EXCEPT ![s] = {}]
  /\ listed' = listed \ {s}
  /\ leaving' = IF lobbies[s] = {} THEN leaving ELSE s

\* Another connection held the attempt when the join read the row, and is
\* still there.
Displaces(t) ==
  \E s \in Sockets \ {t.socket} : t.previous = s /\ net[s] = "up"

\* Takeover: another connection still held the attempt and is dropped.  Its
\* own disconnect handler runs at once and finds it superseded.
JoinTakeover(t) ==
  /\ t.kind = "join" /\ t.step = "welcome"
  /\ Displaces(t)
  /\ Forget(t.previous)
  /\ Ends(t)
  /\ UNCHANGED <<pending, rows, announced, restarts>>

\* Return: a clock that was paused when the join read it is started again.
JoinReturn(t) ==
  /\ t.kind = "join" /\ t.step = "welcome"
  /\ ~ Displaces(t)
  /\ attempt' = IF t.paused /\ attempt.status = "open" /\ attempt.paused
                THEN [attempt EXCEPT !.paused = FALSE]
                ELSE attempt
  /\ Ends(t)
  /\ UNCHANGED <<net, maps, row, announced, restarts>>

------------------------------------------------------------------------------
(* attempt:ready                                                            *)

\* The lobby is mounted, or the Coder says something else in it, which opens
\* it once more.  What they say is left out.
Ready(s) ==
  /\ openVisit(s, "lobby")
  /\ tasks' = tasks \cup
       {[kind |-> "ready", step |-> "load", socket |-> s,
         opening |-> visits[s]["lobby"].opened + 1]}
  /\ UNCHANGED <<bound, lobbies, listed, pending, leaving, rows, announced, restarts>>

\* There is a lobby until the session starts.
ReadyLoad(t) ==
  /\ t.kind = "ready" /\ t.step = "load"
  /\ IF attempt.status = "none" /\ visitIsOpen(t.socket, "lobby", t.opening)
     THEN Becomes(t, [t EXCEPT !.step = "claim"]) /\ leaving' = NoSocket
     ELSE Ends(t) /\ leaving' = leaving
  /\ UNCHANGED <<net, visits, bound, lobbies, listed, pending, rows, announced, restarts>>

ReadyClaim(t) ==
  LET s == t.socket IN
  /\ t.kind = "ready" /\ t.step = "claim"
  /\ row' = HeldBy(s)
  /\ IF visitIsOpen(s, "lobby", t.opening)
     THEN /\ lobbies' = [lobbies EXCEPT ![s] = @ \cup {"waiting"}]
          /\ listed' = listed \cup {s}
          /\ leaving' = leaving
     ELSE leaving' = s /\ UNCHANGED <<lobbies, listed>>
  /\ Ends(t)
  /\ UNCHANGED <<net, visits, bound, pending, attempt, announced, restarts>>

------------------------------------------------------------------------------
(* Departures.                                                              *)

handleAttemptLeave(s) ==
  /\ net[s] = "up"
  /\ IsOpen(s, "attempt")
  /\ leaveVisit(s, "attempt")
  /\ IF s \in bound
     THEN /\ bound' = bound \ {s}
          /\ pending' = s
          /\ UNCHANGED <<lobbies, listed, leaving>>
     ELSE /\ leaving' = IF "closed" \in lobbies[s] THEN s ELSE leaving
          /\ lobbies' = [lobbies EXCEPT ![s] = @ \ {"closed"}]
          /\ listed' = listed \cup {s}
          /\ UNCHANGED <<bound, pending>>
  /\ UNCHANGED <<net, tasks, rows, announced, restarts>>

handleLobbyLeave(s) ==
  /\ net[s] = "up"
  /\ IsOpen(s, "lobby")
  /\ leaveVisit(s, "lobby")
  /\ leaving' = IF "waiting" \in lobbies[s] THEN s ELSE leaving
  /\ lobbies' = [lobbies EXCEPT ![s] = @ \ {"waiting"}]
  /\ listed' = listed \cup {s}
  /\ UNCHANGED <<net, bound, pending, tasks, rows, announced, restarts>>

handleDisconnect(s) ==
  /\ net[s] = "up"
  /\ Forget(s)
  /\ pending' = IF s \in bound THEN s
                ELSE pending
  /\ UNCHANGED <<tasks, rows, announced, restarts>>

Settling(s) == [kind |-> "settle", step |-> "release", socket |-> s]

\* (Variant: the entry is read after it was deleted.)
SettledLate == Settling(pending')
Settled == Settling(pending)

\* The debounce window closes.
SettleFires ==
  /\ pending # NoSocket
  /\ pending' = NoSocket
  /\ tasks' = tasks \cup {Settled}
  /\ UNCHANGED <<net, visits, bound, lobbies, listed, leaving, rows, announced, restarts>>

\* A socket that has bound the attempt since is the workspace's to release.
LobbySettleFires ==
  /\ leaving # NoSocket
  /\ leaving' = NoSocket
  /\ tasks' = IF leaving \in bound THEN tasks
              ELSE tasks \cup {[kind |-> "settleLobby", step |-> "release",
                                socket |-> leaving]}
  /\ UNCHANGED <<net, visits, bound, lobbies, listed, pending, rows, announced, restarts>>

\* (Variant: the release is not conditional on the connection.)
StillHoldsAssumed(t) == TRUE

\* A departure is stale once any socket has claimed the row since.
StillHolds(t) == row.holder = t.socket

SettleRelease(t) ==
  /\ t.kind = "settle" /\ t.step = "release"
  /\ IF StillHolds(t)
     THEN row' = Released /\ Becomes(t, [t EXCEPT !.step = "load"])
     ELSE row' = row /\ Ends(t)
  /\ UNCHANGED <<net, maps, attempt, announced, restarts>>

SettleLobbyRelease(t) ==
  /\ t.kind = "settleLobby"
  /\ row' = IF row.holder = t.socket THEN Released ELSE row
  /\ Ends(t)
  /\ UNCHANGED <<net, maps, attempt, announced, restarts>>

\* pauseIfIndividual, on the row as it is read.  A clock that was already out
\* when the Coder went is left running, so that it closes the attempt.
PauseLoad(t) ==
  /\ t.kind \in {"settle", "retire"} /\ t.step = "load"
  /\ \/ /\ attempt.status = "open"
        /\ ~ attempt.paused
        /\ Becomes(t, [t EXCEPT !.step = "pause"])
     \/ Ends(t)
  /\ UNCHANGED <<net, maps, rows, announced, restarts>>

\* (Variant: conditional on the pause alone.)
NotPaused == ~ attempt.paused

Running == attempt.status = "open" /\ ~ attempt.paused

PauseWrite(t) ==
  /\ t.kind \in {"settle", "retire"} /\ t.step = "pause"
  /\ attempt' = IF Running
                THEN [attempt EXCEPT !.paused = TRUE]
                ELSE attempt
  /\ Ends(t)
  /\ UNCHANGED <<net, maps, row, announced, restarts>>

------------------------------------------------------------------------------
(* refreshPresence, on its timer.                                           *)

held == bound \cup listed

\* (Variant: the comparison with the cutoff is the wrong way round.)
IsLostWhileFresh == ~ row.stale /\ row.holder \notin held /\ net[row.holder] # "up"

IsLost == row.stale /\ row.holder \notin held /\ net[row.holder] # "up"

\* Rows this server's sockets hold are touched; one that is stale is looked
\* for among the connections before it is retired.
refreshPresence ==
  /\ row.online
  /\ \/ /\ row.holder \in held \/ (row.stale /\ net[row.holder] = "up")
        /\ row' = Touched
        /\ tasks' = tasks
     \/ /\ IsLost
        /\ tasks' = tasks \cup {[kind |-> "retire", step |-> "release",
                                 socket |-> row.holder]}
        /\ row' = row
  /\ UNCHANGED <<net, maps, attempt, announced, restarts>>

RetireRelease(t) ==
  /\ t.kind = "retire" /\ t.step = "release"
  /\ IF row.online /\ row.holder = t.socket
     THEN /\ row' = Released
          /\ Becomes(t, [t EXCEPT !.step = "load"])
     ELSE row' = row /\ Ends(t)
  /\ UNCHANGED <<net, maps, attempt, announced, restarts>>

------------------------------------------------------------------------------
(* apps/web, time, and the process itself.                                  *)

\* The session starts, and the Coder's attempt in it.
StartAttempt ==
  /\ attempt.status = "none"
  /\ attempt' = [attempt EXCEPT !.status = "open"]
  /\ UNCHANGED <<net, maps, tasks, row, announced, restarts>>

\* Handed in, expired or closed with the session.
CloseAttempt ==
  /\ attempt.status = "open"
  /\ attempt' = [attempt EXCEPT !.status = "closed"]
  /\ UNCHANGED <<net, maps, tasks, row, announced, restarts>>

\* ATTEMPT_CLOSED: who was working on the attempt now only looks at it.
AttemptClosed ==
  /\ attempt.status = "closed" /\ ~ announced
  /\ announced' = TRUE
  /\ pending' = NoSocket
  /\ bound' = {}
  /\ lobbies' = [s \in Sockets |-> IF s \in bound THEN lobbies[s] \cup {"closed"}
                                   ELSE lobbies[s]]
  /\ listed' = listed \cup bound
  /\ UNCHANGED <<net, visits, leaving, tasks, rows, restarts>>

GrowStale ==
  /\ row.online /\ ~ row.stale
  /\ row' = [row EXCEPT !.stale = TRUE]
  /\ UNCHANGED <<net, maps, tasks, attempt, announced, restarts>>

\* The process restarts: its sockets are gone, and so is what it remembered.
Restart ==
  /\ restarts < MaxRestarts
  /\ restarts' = restarts + 1
  /\ net' = [s \in Sockets |-> IF net[s] = "up" THEN "down" ELSE net[s]]
  /\ visits' = [s \in Sockets |-> [p \in Pages |-> [opened |-> 0, left |-> 0]]]
  /\ bound' = {}
  /\ lobbies' = [s \in Sockets |-> {}]
  /\ listed' = {}
  /\ pending' = NoSocket
  /\ leaving' = NoSocket
  /\ tasks' = {}
  /\ UNCHANGED <<rows, announced>>

------------------------------------------------------------------------------
Step(t) ==
  \/ JoinLoad(t) \/ JoinUpsert(t) \/ JoinClaim(t) \/ JoinTakeover(t) \/ JoinReturn(t)
  \/ ReadyLoad(t) \/ ReadyClaim(t)
  \/ SettleRelease(t) \/ SettleLobbyRelease(t) \/ RetireRelease(t)
  \/ PauseLoad(t) \/ PauseWrite(t)

Next ==
  \/ \E s \in Sockets :
       \/ Join(s) \/ Ready(s)
       \/ handleAttemptLeave(s) \/ handleLobbyLeave(s) \/ handleDisconnect(s)
  \/ \E t \in tasks : Step(t)
  \/ SettleFires \/ LobbySettleFires \/ refreshPresence
  \/ StartAttempt \/ CloseAttempt \/ AttemptClosed
  \/ GrowStale \/ Restart

\* Statements are answered and timers run; people need not do anything.
Fairness ==
  /\ WF_vars(\E t \in tasks : Step(t))
  /\ WF_vars(SettleFires)
  /\ WF_vars(LobbySettleFires)
  /\ WF_vars(refreshPresence)
  /\ WF_vars(GrowStale)

Spec == Init /\ [][Next]_vars /\ Fairness

------------------------------------------------------------------------------
TypeOK ==
  /\ net \in [Sockets -> {"new", "up", "down"}]
  /\ visits \in [Sockets -> [Pages -> [opened : Nat, left : Nat]]]
  /\ bound \subseteq Sockets
  /\ lobbies \in [Sockets -> SUBSET {"waiting", "closed"}]
  /\ listed \subseteq Sockets
  /\ pending \in Sockets \cup {NoSocket}
  /\ leaving \in Sockets \cup {NoSocket}
  /\ tasks \subseteq Task
  /\ row \in [holder : Sockets \cup {NoSocket}, online : BOOLEAN, stale : BOOLEAN]
  /\ attempt \in [status : {"none", "open", "closed"}, paused : BOOLEAN]
  /\ announced \in BOOLEAN
  /\ restarts \in Nat

------------------------------------------------------------------------------
(* Safety.                                                                  *)

\* A page that was left does not stay bound, whatever its join was waiting
\* for when it was left: a socket that works on the attempt is on its page
\* (visits, assessment.ts:197-218, and the two checks of handleJoin).
LeftPageIsUnbound ==
  \A s \in Sockets : s \in bound /\ net[s] = "up" => IsOpen(s, "attempt")

Departed(s) ==
  net[s] = "down" \/ \E p \in Pages : visits[s][p].left > 0

\* Nobody's presence is taken back on account of somebody else: the
\* connection that a settle or a sweep releases has itself gone or left a
\* page, however many others came and went while it waited.
ReleasedOnlyIfDeparted ==
  [][row.holder # NoSocket /\ row'.holder = NoSocket => Departed(row.holder)]_vars

\* A disconnect or a join that read the attempt while it was open does not
\* touch the clock of an attempt that has closed since.
ClosedClockStands ==
  [][attempt.status = "closed" => UNCHANGED attempt]_vars

(* Liveness.                                                                *)

\* A connection that no server holds, because it dropped while nobody looked
\* or its server restarted, does not stay ONLINE: its own departure or the
\* presence refresh releases the row.
Lost == row.online /\ row.holder \notin held /\ net[row.holder] = "down"
LostConnectionIsRetired == Lost ~> ~ Lost

(* What the comments promise and interleavings break.                       *)

Quiet == tasks = {} /\ pending = NoSocket /\ leaving = NoSocket

\* refreshPresence "vouches for the connections this instance holds"
\* (assessment.ts:1088): a socket it vouches for is connected.
VouchesForConnections == \A s \in held : net[s] = "up"

\* A join binds "this socket as the attempt's one active connection"
\* (assessment.ts:422).
OneActiveConnection ==
  Quiet => Cardinality({s \in bound : net[s] = "up"}) <= 1

\* A browser that is still there is ONLINE only while one of its pages is on
\* the session: no row is left "ONLINE until the end of time"
\* (assessment.ts:1020-1022).
OnlineOnlyOnPage ==
  Quiet /\ row.online /\ net[row.holder] = "up" =>
    row.holder \in bound \/ lobbies[row.holder] # {}

\* A clock stops only for a Coder who is away: whoever works on the open
\* attempt finds it running.
ClockRunsWhileWorking ==
  Quiet /\ attempt.status = "open" /\ (\E s \in bound : net[s] = "up") => ~ attempt.paused
==============================================================================
