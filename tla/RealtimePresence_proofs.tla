----------------------- MODULE RealtimePresence_proofs -----------------------
(***************************************************************************)
(* Safety of RealtimePresence for any sockets, any number of visits, tasks *)
(* and restarts.                                                           *)
(*                                                                         *)
(* The properties are about what a task does with what it read earlier, so *)
(* the invariant says what can have been read: which socket a task is for, *)
(* which opening of a page, and that a departure under way is one.         *)
(***************************************************************************)
EXTENDS RealtimePresence, TLAPS

JoinTask ==
  [kind : {"join"}, step : {"load", "upsert", "claim", "welcome"},
   socket : Sockets, opening : Nat, previous : Sockets \cup {NoSocket},
   paused : BOOLEAN, refresh : BOOLEAN]
ReadyTask == [kind : {"ready"}, step : {"load", "claim"}, socket : Sockets, opening : Nat]
SettleTask ==
  [kind : {"settle", "retire"}, step : {"release", "load", "pause"}, socket : Sockets]
LobbyTask == [kind : {"settleLobby"}, step : {"release"}, socket : Sockets]

\* A task is one of its kind.
LEMMA TaskKinds ==
  ASSUME NEW t \in Task
  PROVE  /\ t.kind = "join" => t \in JoinTask
         /\ t.kind = "ready" => t \in ReadyTask
         /\ t.kind \in {"settle", "retire"} => t \in SettleTask
         /\ t.kind = "settleLobby" => t \in LobbyTask
         /\ t.socket \in Sockets
  <1>1. Task = JoinTask \cup ReadyTask \cup SettleTask \cup LobbyTask
    BY DEF Task, JoinTask, ReadyTask, SettleTask, LobbyTask
  <1>2. CASE t \in JoinTask
    BY <1>2 DEF JoinTask
  <1>3. CASE t \in ReadyTask
    BY <1>3 DEF ReadyTask
  <1>4. CASE t \in SettleTask
    BY <1>4 DEF SettleTask
  <1>5. CASE t \in LobbyTask
    BY <1>5 DEF LobbyTask
  <1> QED BY <1>1, <1>2, <1>3, <1>4, <1>5

\* A task of one of the kinds is a task.
LEMMA KindsAreTasks ==
  Task = JoinTask \cup ReadyTask \cup SettleTask \cup LobbyTask
  BY DEF Task, JoinTask, ReadyTask, SettleTask, LobbyTask

\* Going on to another step keeps a task a task.
LEMMA GoesOnAsTask ==
  ASSUME NEW t \in Task
  PROVE  /\ t.kind = "join" =>
              /\ \A b \in BOOLEAN : [t EXCEPT !.step = "upsert", !.paused = b] \in Task
              /\ \A p \in Sockets \cup {NoSocket}, b \in BOOLEAN :
                   [t EXCEPT !.step = "claim", !.previous = p, !.refresh = b] \in Task
              /\ [t EXCEPT !.step = "welcome"] \in Task
         /\ t.kind = "ready" => [t EXCEPT !.step = "claim"] \in Task
         /\ t.kind \in {"settle", "retire"} =>
              [t EXCEPT !.step = "load"] \in Task /\ [t EXCEPT !.step = "pause"] \in Task
  <1> USE TaskKinds, KindsAreTasks
  <1>1. CASE t.kind = "join"
    BY <1>1 DEF JoinTask
  <1>2. CASE t.kind = "ready"
    BY <1>2 DEF ReadyTask
  <1>3. CASE t.kind \in {"settle", "retire"}
    BY <1>3 DEF SettleTask
  <1> QED BY <1>1, <1>2, <1>3

------------------------------------------------------------------------------
(* Types.                                                                   *)

LEMMA InitTypeOK == Init => TypeOK
  <1> SUFFICES ASSUME Init PROVE TypeOK
    OBVIOUS
  <1>1. visits \in [Sockets -> [Pages -> [opened : Nat, left : Nat]]]
    <2>1. [p \in Pages |-> [opened |-> 0, left |-> 0]] \in [Pages -> [opened : Nat, left : Nat]]
      OBVIOUS
    <2> QED BY <2>1 DEF Init
  <1>2. row \in [holder : Sockets \cup {NoSocket}, online : BOOLEAN, stale : BOOLEAN]
    BY DEF Init
  <1>3. attempt \in [status : {"none", "open", "closed"}, paused : BOOLEAN]
    BY DEF Init
  <1>4. /\ net \in [Sockets -> {"new", "up", "down"}]
        /\ lobbies \in [Sockets -> SUBSET {"waiting", "closed"}]
    BY DEF Init
  <1> QED BY <1>1, <1>2, <1>3, <1>4 DEF Init, TypeOK

LEMMA VisitTypes ==
  ASSUME TypeOK, NEW s \in Sockets, NEW p \in Pages
  PROVE  /\ visits[s][p].opened \in Nat /\ visits[s][p].left \in Nat
         /\ openVisit(s, p) =>
              /\ net' \in [Sockets -> {"new", "up", "down"}]
              /\ visits' \in [Sockets -> [Pages -> [opened : Nat, left : Nat]]]
         /\ leaveVisit(s, p) =>
              visits' \in [Sockets -> [Pages -> [opened : Nat, left : Nat]]]
  <1>1. /\ visits[s] \in [Pages -> [opened : Nat, left : Nat]]
        /\ visits[s][p] \in [opened : Nat, left : Nat]
    BY DEF TypeOK
  <1>2. ASSUME NEW r \in [opened : Nat, left : Nat],
               visits' = [visits EXCEPT ![s] = [visits[s] EXCEPT ![p] = r]]
        PROVE  visits' \in [Sockets -> [Pages -> [opened : Nat, left : Nat]]]
    <2>1. [visits[s] EXCEPT ![p] = r] \in [Pages -> [opened : Nat, left : Nat]]
      BY <1>1
    <2> QED BY <1>2, <2>1 DEF TypeOK
  <1>3. /\ [visits[s][p] EXCEPT !.opened = @ + 1] \in [opened : Nat, left : Nat]
        /\ [visits[s][p] EXCEPT !.left = visits[s][p].opened] \in [opened : Nat, left : Nat]
    BY <1>1
  <1>4. ASSUME openVisit(s, p)
        PROVE  /\ net' \in [Sockets -> {"new", "up", "down"}]
               /\ visits' \in [Sockets -> [Pages -> [opened : Nat, left : Nat]]]
    <2>1. visits' = [visits EXCEPT ![s] =
            [visits[s] EXCEPT ![p] = [visits[s][p] EXCEPT !.opened = @ + 1]]]
      BY <1>4 DEF openVisit
    <2>2. visits' \in [Sockets -> [Pages -> [opened : Nat, left : Nat]]]
      BY <2>1, <1>2, <1>3
    <2>3. net' \in [Sockets -> {"new", "up", "down"}]
      BY <1>4 DEF openVisit, TypeOK
    <2> QED BY <2>2, <2>3
  <1>5. ASSUME leaveVisit(s, p)
        PROVE  visits' \in [Sockets -> [Pages -> [opened : Nat, left : Nat]]]
    <2>1. visits' = [visits EXCEPT ![s] =
            [visits[s] EXCEPT ![p] = [visits[s][p] EXCEPT !.left = visits[s][p].opened]]]
      BY <1>5 DEF leaveVisit
    <2> QED BY <2>1, <1>2, <1>3
  <1>6. visits[s][p].opened \in Nat /\ visits[s][p].left \in Nat
    BY <1>1
  <1> QED BY <1>4, <1>5, <1>6

LEMMA ForgetTypes ==
  ASSUME TypeOK, NEW s \in Sockets, Forget(s)
  PROVE  /\ net' \in [Sockets -> {"new", "up", "down"}]
         /\ visits' \in [Sockets -> [Pages -> [opened : Nat, left : Nat]]]
         /\ bound' \subseteq Sockets
         /\ lobbies' \in [Sockets -> SUBSET {"waiting", "closed"}]
         /\ listed' \subseteq Sockets
         /\ leaving' \in Sockets \cup {NoSocket}
  BY DEF TypeOK, Forget, Pages

LEMMA NewTasks ==
  /\ \A s \in Sockets, n \in Nat :
       /\ [kind |-> "join", step |-> "load", socket |-> s, opening |-> n,
           previous |-> NoSocket, paused |-> FALSE, refresh |-> FALSE] \in Task
       /\ [kind |-> "ready", step |-> "load", socket |-> s, opening |-> n] \in Task
  /\ \A s \in Sockets :
       /\ Settling(s) \in Task
       /\ [kind |-> "settleLobby", step |-> "release", socket |-> s] \in Task
       /\ [kind |-> "retire", step |-> "release", socket |-> s] \in Task
  BY KindsAreTasks DEF JoinTask, ReadyTask, SettleTask, LobbyTask, Settling

LEMMA SocketActionTypes ==
  ASSUME TypeOK, NEW s \in Sockets,
         Join(s) \/ Ready(s) \/ handleAttemptLeave(s) \/ handleLobbyLeave(s)
           \/ handleDisconnect(s)
  PROVE  TypeOK'
  <1>1. CASE Join(s)
    <2>1. /\ openVisit(s, "attempt") /\ "attempt" \in Pages
          /\ visits[s]["attempt"].opened + 1 \in Nat
      BY <1>1, VisitTypes DEF Join, Pages
    <2>2. tasks' \subseteq Task
      BY <1>1, <2>1, NewTasks DEF Join, TypeOK
    <2> QED BY <1>1, <2>1, <2>2, VisitTypes DEF TypeOK, Join, rows
  <1>2. CASE Ready(s)
    <2>1. /\ openVisit(s, "lobby") /\ "lobby" \in Pages
          /\ visits[s]["lobby"].opened + 1 \in Nat
      BY <1>2, VisitTypes DEF Ready, Pages
    <2>2. tasks' \subseteq Task
      BY <1>2, <2>1, NewTasks DEF Ready, TypeOK
    <2> QED BY <1>2, <2>1, <2>2, VisitTypes DEF TypeOK, Ready, rows
  <1>3. CASE handleAttemptLeave(s)
    BY <1>3, VisitTypes DEF TypeOK, handleAttemptLeave, rows, Pages
  <1>4. CASE handleLobbyLeave(s)
    BY <1>4, VisitTypes DEF TypeOK, handleLobbyLeave, rows, Pages
  <1>5. CASE handleDisconnect(s)
    BY <1>5, ForgetTypes DEF TypeOK, handleDisconnect, rows
  <1> QED BY <1>1, <1>2, <1>3, <1>4, <1>5

LEMMA ExceptTypes ==
  ASSUME NEW D, NEW R, NEW f \in [D -> R], NEW d \in D, NEW r \in R
  PROVE  [f EXCEPT ![d] = r] \in [D -> R]
  OBVIOUS

LEMMA StepTypes ==
  ASSUME TypeOK, NEW t \in tasks, Step(t)
  PROVE  TypeOK'
  <1>0. t \in Task
    BY DEF TypeOK
  <1> USE <1>0, TaskKinds, GoesOnAsTask DEF TypeOK, Becomes, Ends, maps, rows
  <1>1. CASE JoinLoad(t)
    BY <1>1 DEF JoinLoad
  <1>2. CASE JoinUpsert(t)
    <2>1. /\ t.kind = "join" /\ (pending # NoSocket) \in BOOLEAN
          /\ row.holder \in Sockets \cup {NoSocket}
      BY <1>2 DEF JoinUpsert
    <2>2. [t EXCEPT !.step = "claim", !.previous = row.holder,
                    !.refresh = pending # NoSocket] \in Task
      BY <2>1
    <2>3. /\ tasks' \subseteq Task
          /\ pending' \in Sockets \cup {NoSocket} /\ leaving' \in Sockets \cup {NoSocket}
      BY <1>2, <2>2 DEF JoinUpsert
    <2> QED BY <1>2, <2>3 DEF JoinUpsert
  <1>3. CASE JoinClaim(t)
    BY <1>3 DEF JoinClaim, HeldBy
  <1>4. CASE JoinTakeover(t)
    <2>1. t.previous \in Sockets
      BY <1>4 DEF JoinTakeover, Displaces
    <2> QED BY <1>4, <2>1, ForgetTypes DEF JoinTakeover
  <1>5. CASE JoinReturn(t)
    BY <1>5 DEF JoinReturn
  <1>6. CASE ReadyLoad(t)
    BY <1>6 DEF ReadyLoad
  <1>7. CASE ReadyClaim(t)
    <2>1. row' \in [holder : Sockets \cup {NoSocket}, online : BOOLEAN, stale : BOOLEAN]
      BY <1>7 DEF ReadyClaim, HeldBy
    <2>2. lobbies[t.socket] \cup {"waiting"} \in SUBSET {"waiting", "closed"}
      OBVIOUS
    <2>3. lobbies' \in [Sockets -> SUBSET {"waiting", "closed"}]
      <3>1. \/ lobbies' = lobbies
            \/ lobbies' = [lobbies EXCEPT ![t.socket] = lobbies[t.socket] \cup {"waiting"}]
        BY <1>7 DEF ReadyClaim
      <3>2. t.socket \in Sockets
        OBVIOUS
      <3>3. [lobbies EXCEPT ![t.socket] = lobbies[t.socket] \cup {"waiting"}]
              \in [Sockets -> SUBSET {"waiting", "closed"}]
        BY <2>2, <3>2, ExceptTypes, Zenon
      <3> QED BY <3>1, <3>3, Zenon
    <2>4. t.socket \in Sockets
      OBVIOUS
    <2>5. listed' \subseteq Sockets /\ leaving' \in Sockets \cup {NoSocket}
      BY <1>7, <2>4 DEF ReadyClaim
    <2>6. tasks' \subseteq Task
      BY <1>7 DEF ReadyClaim
    <2> QED BY <1>7, <2>1, <2>3, <2>5, <2>6 DEF ReadyClaim
  <1>8. CASE SettleRelease(t)
    <2>1. row' \in [holder : Sockets \cup {NoSocket}, online : BOOLEAN, stale : BOOLEAN]
      BY <1>8 DEF SettleRelease, Released
    <2>2. tasks' \subseteq Task
      BY <1>8 DEF SettleRelease
    <2> QED BY <1>8, <2>1, <2>2 DEF SettleRelease
  <1>9. CASE SettleLobbyRelease(t)
    BY <1>9 DEF SettleLobbyRelease, Released
  <1>10. CASE RetireRelease(t)
    BY <1>10 DEF RetireRelease, Released
  <1>11. CASE PauseLoad(t)
    BY <1>11 DEF PauseLoad
  <1>12. CASE PauseWrite(t)
    BY <1>12 DEF PauseWrite
  <1> QED BY <1>1, <1>2, <1>3, <1>4, <1>5, <1>6, <1>7, <1>8, <1>9, <1>10, <1>11,
             <1>12 DEF Step

LEMMA OtherTypes ==
  ASSUME TypeOK,
         \/ SettleFires \/ LobbySettleFires \/ StartAttempt \/ CloseAttempt
         \/ AttemptClosed \/ GrowStale \/ Restart
  PROVE  TypeOK'
  <1> USE NewTasks DEF TypeOK, maps, rows
  <1>1. CASE SettleFires
    BY <1>1 DEF SettleFires, Settled
  <1>2. CASE LobbySettleFires
    BY <1>2 DEF LobbySettleFires
  <1>3. CASE StartAttempt \/ CloseAttempt \/ GrowStale
    BY <1>3 DEF StartAttempt, CloseAttempt, GrowStale
  <1>4. CASE AttemptClosed
    BY <1>4 DEF AttemptClosed
  <1>5. CASE Restart
    BY <1>5 DEF Restart, Pages
  <1> QED BY <1>1, <1>2, <1>3, <1>4, <1>5

------------------------------------------------------------------------------
(* What a task can have read.                                               *)

\* Whoever is ONLINE is somebody, and whoever holds the row has connected.
HolderIsSomebody ==
  /\ row.online => row.holder \in Sockets
  /\ row.holder # NoSocket => net[row.holder] # "new"

\* What is done on a page is done by a socket that has connected, a join is
\* for an opening that has happened, and a departure under way is one.
FineTask(t) ==
  /\ t.kind \in {"join", "ready"} => net[t.socket] # "new" /\ t.opening >= 1
  /\ t.kind = "join" /\ net[t.socket] = "up" =>
       t.opening <= visits[t.socket]["attempt"].opened
  /\ t.kind \in {"settle", "settleLobby", "retire"} => Departed(t.socket)

TasksAreFine == \A t \in tasks : FineTask(t)
BoundConnected == \A s \in bound : net[s] # "new"

GoersDeparted ==
  /\ pending # NoSocket => Departed(pending)
  /\ leaving # NoSocket => Departed(leaving)

IInv ==
  /\ TypeOK /\ HolderIsSomebody /\ TasksAreFine /\ BoundConnected
  /\ LeftPageIsUnbound /\ GoersDeparted

LEMMA InitIInv == Init => IInv
  BY InitTypeOK, PresenceAssumption
     DEF Init, IInv, HolderIsSomebody, TasksAreFine, BoundConnected,
         LeftPageIsUnbound, GoersDeparted

\* What a socket cannot undo while the server runs: having connected, having
\* gone, having opened a page.
Onward ==
  /\ \A s \in Sockets : net[s] # "new" => net'[s] # "new"
  /\ \A s \in Sockets : net'[s] = "up" => net[s] # "down"
  /\ \A s \in Sockets : net[s] = "up" /\ net'[s] = "up" =>
       visits[s]["attempt"].opened <= visits'[s]["attempt"].opened
  /\ \A s \in Sockets : Departed(s) => Departed(s)'

LEMMA StillIsOnward ==
  ASSUME TypeOK, UNCHANGED <<net, visits>>
  PROVE  Onward
  BY DEF TypeOK, Onward, Departed, Pages

LEMMA OpenIsOnward ==
  ASSUME TypeOK, NEW s \in Sockets, NEW p \in Pages, openVisit(s, p)
  PROVE  /\ Onward /\ net'[s] = "up"
         /\ \A r \in Sockets, q \in Pages :
              /\ visits'[r][q].left = visits[r][q].left
              /\ visits'[r][q].opened =
                   IF r = s /\ q = p THEN visits[r][q].opened + 1 ELSE visits[r][q].opened
  <1>1. \A r \in Sockets, q \in Pages :
          /\ visits'[r][q].left = visits[r][q].left
          /\ visits'[r][q].opened =
               IF r = s /\ q = p THEN visits[r][q].opened + 1 ELSE visits[r][q].opened
    BY DEF TypeOK, openVisit
  <1>2. \A r \in Sockets : net'[r] = IF r = s THEN "up" ELSE net[r]
    BY DEF TypeOK, openVisit
  <1>3. \A r \in Sockets, q \in Pages : visits[r][q].opened \in Nat
    BY VisitTypes
  <1>4. net[s] # "down"
    BY DEF openVisit
  <1> QED BY <1>1, <1>2, <1>3, <1>4 DEF Onward, Departed, Pages

LEMMA LeaveIsOnward ==
  ASSUME TypeOK, NEW s \in Sockets, NEW p \in Pages, leaveVisit(s, p), UNCHANGED net,
         IsOpen(s, p)
  PROVE  /\ Onward /\ Departed(s)'
         /\ \A r \in Sockets, q \in Pages :
              /\ visits'[r][q].opened = visits[r][q].opened
              /\ visits'[r][q].left =
                   IF r = s /\ q = p THEN visits[r][q].opened ELSE visits[r][q].left
  <1>1. \A r \in Sockets, q \in Pages :
          /\ visits'[r][q].opened = visits[r][q].opened
          /\ visits'[r][q].left =
               IF r = s /\ q = p THEN visits[r][q].opened ELSE visits[r][q].left
    BY DEF TypeOK, leaveVisit
  <1>2. \A r \in Sockets, q \in Pages :
          visits[r][q].opened \in Nat /\ visits[r][q].left \in Nat
    BY VisitTypes
  <1>3. visits'[s][p].left > 0
    BY <1>1, <1>2 DEF IsOpen
  <1>4. \A r \in Sockets, q \in Pages :
          visits[r][q].left > 0 => visits'[r][q].left > 0
    BY <1>1, <1>2, <1>3
  <1>5. \A r \in Sockets : Departed(r) => Departed(r)'
    BY <1>4 DEF Departed
  <1> QED BY <1>1, <1>2, <1>3, <1>5 DEF Onward, Departed, Pages

LEMMA ForgetIsOnward ==
  ASSUME TypeOK, NEW s \in Sockets, Forget(s)
  PROVE  /\ Onward /\ net'[s] = "down" /\ Departed(s)'
         /\ \A r \in Sockets \ {s} : net'[r] = net[r] /\ visits'[r] = visits[r]
  <1>1. /\ net'[s] = "down"
        /\ \A r \in Sockets \ {s} : net'[r] = net[r] /\ visits'[r] = visits[r]
    BY DEF TypeOK, Forget
  <1>2. \A r \in Sockets : visits[r]["attempt"].opened \in Nat
    BY VisitTypes DEF Pages
  <1> QED BY <1>1, <1>2 DEF Onward, Departed

\* A fine task stays fine, also when it goes on to another step.
LEMMA FineStays ==
  ASSUME TypeOK, TypeOK', Onward, NEW t \in Task, FineTask(t),
         NEW u, u.kind = t.kind, u.socket = t.socket,
         t.kind \in {"join", "ready"} => u.opening = t.opening
  PROVE  FineTask(u)'
  <1>1. t.socket \in Sockets
    BY TaskKinds
  <1>2. ASSUME t.kind = "join"
        PROVE  /\ t.opening \in Nat
               /\ visits[t.socket]["attempt"].opened \in Nat
               /\ visits'[t.socket]["attempt"].opened \in Nat
    BY <1>2, <1>1, TaskKinds DEF JoinTask, Pages, TypeOK
  <1>3. net[t.socket] \in {"new", "up", "down"}
    BY <1>1 DEF TypeOK
  <1>4. ASSUME u.kind = "join", net'[u.socket] = "up"
        PROVE  u.opening <= visits'[u.socket]["attempt"].opened
    <2>1. net[t.socket] = "up"
      BY <1>1, <1>3, <1>4 DEF Onward, FineTask
    <2>2. t.opening <= visits[t.socket]["attempt"].opened
      BY <2>1, <1>4 DEF FineTask
    <2>3. visits[t.socket]["attempt"].opened <= visits'[t.socket]["attempt"].opened
      BY <1>1, <2>1, <1>4 DEF Onward
    <2> QED BY <2>2, <2>3, <1>4, <1>2
  <1> QED BY <1>1, <1>4 DEF Onward, FineTask

\* What a step must show: its own tasks are fine, and whatever it leaves
\* bound is on its page.
LEMMA Carries ==
  ASSUME IInv, TypeOK', Onward, HolderIsSomebody',
         \A u \in tasks' : u \in tasks \/ FineTask(u)',
         \A s \in bound' : s \in bound \/ net'[s] # "new",
         LeftPageIsUnbound',
         pending' \in {pending, NoSocket} \/ Departed(pending)',
         leaving' \in {leaving, NoSocket} \/ Departed(leaving)'
  PROVE  IInv'
  <1>1. TasksAreFine'
    <2> SUFFICES ASSUME NEW u \in tasks' PROVE FineTask(u)'
      BY DEF TasksAreFine
    <2>1. CASE u \in tasks
      BY <2>1, FineStays DEF IInv, TasksAreFine, TypeOK
    <2> QED BY <2>1
  <1>2. BoundConnected'
    BY DEF BoundConnected, Onward, IInv, TypeOK
  <1>3. GoersDeparted'
    BY DEF GoersDeparted, Onward, IInv, TypeOK
  <1> QED BY <1>1, <1>2, <1>3 DEF IInv

\* A step that moves neither a socket nor a visit, and binds nobody.
LEMMA CarriesStill ==
  ASSUME IInv, TypeOK', UNCHANGED <<net, visits>>, bound' \subseteq bound,
         HolderIsSomebody',
         \A u \in tasks' : u \in tasks \/ FineTask(u),
         pending' \in {pending, NoSocket} \/ Departed(pending)',
         leaving' \in {leaving, NoSocket} \/ Departed(leaving)'
  PROVE  IInv'
  <1>1. Onward
    BY StillIsOnward DEF IInv
  <1>2. LeftPageIsUnbound'
    BY DEF IInv, LeftPageIsUnbound, IsOpen
  <1>3. \A u : FineTask(u)' <=> FineTask(u)
    BY DEF FineTask, Departed
  <1> QED BY <1>1, <1>2, <1>3, Carries

LEMMA SameHolder ==
  ASSUME IInv, Onward, row'.online => row.online, row'.holder = row.holder
  PROVE  HolderIsSomebody'
  BY DEF IInv, HolderIsSomebody, Onward, TypeOK

LEMMA SocketActionsCarry ==
  ASSUME IInv, NEW s \in Sockets,
         Join(s) \/ Ready(s) \/ handleAttemptLeave(s) \/ handleLobbyLeave(s)
           \/ handleDisconnect(s)
  PROVE  IInv'
  <1> USE DEF rows
  <1>0. TypeOK /\ TypeOK'
    BY SocketActionTypes DEF IInv
  <1>a. \A r \in Sockets : r \in bound /\ net[r] = "up" => IsOpen(r, "attempt")
    BY DEF IInv, LeftPageIsUnbound
  <1>b. \A r \in bound : net[r] # "new"
    BY DEF IInv, BoundConnected
  <1>c. \A r \in Sockets, p \in Pages :
          /\ visits[r][p].opened \in Nat /\ visits[r][p].left \in Nat
          /\ net[r] \in {"new", "up", "down"}
    BY <1>0, VisitTypes DEF TypeOK
  <1>1. ASSUME NEW p \in Pages, openVisit(s, p), UNCHANGED <<bound, row, pending, leaving>>,
               \A u \in tasks' : u \in tasks \/ FineTask(u)'
        PROVE  IInv'
    <2>1. /\ Onward /\ net'[s] = "up"
          /\ \A r \in Sockets, q \in Pages :
               /\ visits'[r][q].left = visits[r][q].left
               /\ visits'[r][q].opened =
                    IF r = s /\ q = p THEN visits[r][q].opened + 1 ELSE visits[r][q].opened
      BY <1>0, <1>1, OpenIsOnward
    <2>2. \A r \in Sockets : r # s => net'[r] = net[r]
      BY <1>0, <1>1 DEF openVisit, TypeOK
    <2>3. net[s] \in {"new", "up"}
      BY <1>c, <1>1 DEF openVisit, Pages
    <2>4. ASSUME NEW r \in Sockets, r \in bound', net'[r] = "up"
          PROVE  IsOpen(r, "attempt")'
      <3>1. net[r] = "up"
        BY <1>b, <2>2, <2>3, <2>4, <1>1
      <3>2. IsOpen(r, "attempt")
        BY <3>1, <1>a, <2>4, <1>1
      <3>3. "attempt" \in Pages
        BY DEF Pages
      <3> QED BY <3>2, <3>3, <2>1, <1>c DEF IsOpen
    <2>5. LeftPageIsUnbound'
      BY <2>4 DEF LeftPageIsUnbound
    <2>6. HolderIsSomebody'
      BY <2>1, <1>1, SameHolder
    <2> QED BY <1>0, <1>1, <2>1, <2>5, <2>6, Carries
  <1>2. CASE Join(s)
    <2>1. openVisit(s, "attempt") /\ "attempt" \in Pages
      BY <1>2 DEF Join, Pages
    <2>2. /\ net'[s] = "up"
          /\ visits'[s]["attempt"].opened = visits[s]["attempt"].opened + 1
      BY <2>1, <1>0, OpenIsOnward
    <2>3. ASSUME NEW u \in tasks', u \notin tasks
          PROVE  FineTask(u)'
      <3>1. u.kind = "join" /\ u.socket = s /\ u.opening = visits[s]["attempt"].opened + 1
        BY <2>3, <1>2 DEF Join
      <3> QED BY <3>1, <2>1, <2>2, <1>c DEF FineTask
    <2> QED BY <1>1, <1>2, <2>1, <2>3 DEF Join
  <1>3. CASE Ready(s)
    <2>1. openVisit(s, "lobby") /\ "lobby" \in Pages
      BY <1>3 DEF Ready, Pages
    <2>2. net'[s] = "up"
      BY <2>1, <1>0, OpenIsOnward
    <2>3. ASSUME NEW u \in tasks', u \notin tasks
          PROVE  FineTask(u)'
      <3>1. u.kind = "ready" /\ u.socket = s /\ u.opening = visits[s]["lobby"].opened + 1
        BY <2>3, <1>3 DEF Ready
      <3> QED BY <3>1, <2>1, <2>2, <1>c DEF FineTask
    <2> QED BY <1>1, <1>3, <2>1, <2>3 DEF Ready
  <1>4. ASSUME NEW p \in Pages, leaveVisit(s, p), IsOpen(s, p),
               UNCHANGED <<net, row, tasks>>, bound' \subseteq bound,
               p = "attempt" => s \notin bound',
               pending' \in {pending, s}, leaving' \in {leaving, s}
        PROVE  IInv'
    <2>1. /\ Onward /\ Departed(s)'
          /\ \A r \in Sockets, q \in Pages :
               /\ visits'[r][q].opened = visits[r][q].opened
               /\ visits'[r][q].left =
                    IF r = s /\ q = p THEN visits[r][q].opened ELSE visits[r][q].left
      BY <1>0, <1>4, LeaveIsOnward
    <2>2. LeftPageIsUnbound'
      BY <1>a, <1>4, <2>1 DEF LeftPageIsUnbound, IsOpen, Pages
    <2>3. HolderIsSomebody'
      BY <2>1, <1>4, SameHolder
    <2>4. /\ pending' \in {pending, NoSocket} \/ Departed(pending)'
          /\ leaving' \in {leaving, NoSocket} \/ Departed(leaving)'
      BY <1>4, <2>1
    <2> QED BY <1>0, <1>4, <2>1, <2>2, <2>3, <2>4, Carries
  <1>5. CASE handleAttemptLeave(s)
    BY <1>5, <1>4 DEF handleAttemptLeave, Pages
  <1>6. CASE handleLobbyLeave(s)
    BY <1>6, <1>4 DEF handleLobbyLeave, Pages
  <1>7. CASE handleDisconnect(s)
    <2>1. /\ Onward /\ net'[s] = "down" /\ Departed(s)'
          /\ \A r \in Sockets \ {s} : net'[r] = net[r] /\ visits'[r] = visits[r]
      BY <1>0, <1>7, ForgetIsOnward DEF handleDisconnect
    <2>2. LeftPageIsUnbound'
      BY <1>a, <1>7, <2>1 DEF handleDisconnect, Forget, LeftPageIsUnbound, IsOpen
    <2>3. HolderIsSomebody'
      BY <2>1, <1>7, SameHolder DEF handleDisconnect
    <2>4. /\ pending' \in {pending, s} /\ leaving' \in {leaving, s}
          /\ tasks' = tasks /\ bound' \subseteq bound
      BY <1>7 DEF handleDisconnect, Forget
    <2>5. /\ pending' \in {pending, NoSocket} \/ Departed(pending)'
          /\ leaving' \in {leaving, NoSocket} \/ Departed(leaving)'
      BY <2>4, <2>1
    <2> QED BY <1>0, <2>1, <2>2, <2>3, <2>4, <2>5, Carries
  <1> QED BY <1>2, <1>3, <1>5, <1>6, <1>7

LEMMA StepsCarry ==
  ASSUME IInv, NEW t \in tasks, Step(t)
  PROVE  IInv'
  <1> USE DEF rows, maps
  <1>0. TypeOK /\ TypeOK' /\ t \in Task /\ t.socket \in Sockets /\ FineTask(t)
    BY StepTypes, TaskKinds DEF IInv, TypeOK, TasksAreFine
  <1>1. \A p \in Pages :
          visits[t.socket][p].opened \in Nat /\ visits[t.socket][p].left \in Nat
    BY <1>0, VisitTypes
  \* A task that goes on is as fine as it was.
  <1>2. ASSUME NEW u, u.kind = t.kind, u.socket = t.socket,
               t.kind \in {"join", "ready"} => u.opening = t.opening
        PROVE  FineTask(u)
    BY <1>0, <1>2 DEF FineTask
  <1>3. /\ t.kind = "join" =>
             /\ \A b \in BOOLEAN : FineTask([t EXCEPT !.step = "upsert", !.paused = b])
             /\ \A p \in Sockets \cup {NoSocket}, b \in BOOLEAN :
                  FineTask([t EXCEPT !.step = "claim", !.previous = p, !.refresh = b])
             /\ FineTask([t EXCEPT !.step = "welcome"])
        /\ t.kind = "ready" => FineTask([t EXCEPT !.step = "claim"])
        /\ t.kind \in {"settle", "retire"} =>
             FineTask([t EXCEPT !.step = "load"]) /\ FineTask([t EXCEPT !.step = "pause"])
    <2>1. CASE t.kind = "join"
      BY <1>0, <1>2, <2>1, TaskKinds DEF JoinTask
    <2>2. CASE t.kind = "ready"
      BY <1>0, <1>2, <2>2, TaskKinds DEF ReadyTask
    <2>3. CASE t.kind \in {"settle", "retire"}
      BY <1>0, <1>2, <2>3, TaskKinds DEF SettleTask
    <2> QED BY <2>1, <2>2, <2>3
  <1>4. ASSUME UNCHANGED <<net, visits, row>>, bound' \subseteq bound,
               \A u \in tasks' : u \in tasks \/ FineTask(u),
               pending' \in {pending, NoSocket}, leaving' \in {leaving, NoSocket}
        PROVE  IInv'
    BY <1>0, <1>4, CarriesStill, SameHolder, StillIsOnward
  <1>5. CASE JoinLoad(t)
    <2>1. attempt.paused \in BOOLEAN
      BY <1>0 DEF TypeOK
    <2> QED BY <1>3, <1>4, <1>5, <2>1 DEF JoinLoad, Becomes, Ends
  <1>6. CASE JoinUpsert(t)
    <2>1. row.holder \in Sockets \cup {NoSocket} /\ (pending # NoSocket) \in BOOLEAN
      BY <1>0 DEF TypeOK
    <2>2. FineTask([t EXCEPT !.step = "claim", !.previous = row.holder,
                             !.refresh = pending # NoSocket])
      BY <1>3, <1>6, <2>1 DEF JoinUpsert
    <2> QED BY <1>4, <1>6, <2>2 DEF JoinUpsert, Becomes, Ends
  <1>7. CASE JoinClaim(t)
    <2>1. /\ t.kind = "join" /\ t.opening \in Nat /\ "attempt" \in Pages
          /\ t.opening >= 1 /\ net[t.socket] # "new"
      BY <1>0, <1>7, TaskKinds DEF JoinClaim, JoinTask, FineTask, Pages
    <2>2. Onward
      BY <1>0, <1>7, StillIsOnward DEF JoinClaim
    <2>3. HolderIsSomebody'
      BY <1>0, <1>7, <2>1, <2>2 DEF JoinClaim, HeldBy, HolderIsSomebody, Onward
    <2>4. ASSUME NEW u \in tasks' PROVE u \in tasks \/ FineTask(u)'
      <3>1. u \in tasks \/ FineTask(u)
        BY <1>3, <1>7, <2>1 DEF JoinClaim, Becomes, Ends
      <3> QED BY <3>1, <1>7 DEF JoinClaim, FineTask, Departed
    <2>5. CASE StillOnPage(t)
      <3>1. net[t.socket] = "up" => IsOpen(t.socket, "attempt")
        BY <1>0, <1>1, <2>1, <2>5 DEF FineTask, StillOnPage, visitIsOpen, IsOpen
      <3>2. LeftPageIsUnbound'
        BY <3>1, <1>7, <2>5 DEF JoinClaim, IInv, LeftPageIsUnbound, IsOpen
      <3> QED BY <1>0, <1>7, <2>1, <2>2, <2>3, <2>4, <2>5, <3>2, Carries DEF JoinClaim
    <2>6. CASE ~ StillOnPage(t)
      <3>1. visits[t.socket]["attempt"].left > 0
        BY <1>1, <2>1, <2>6 DEF StillOnPage, visitIsOpen
      <3>2. Departed(pending)' /\ bound' \subseteq bound
        BY <3>1, <2>1, <1>7, <2>6 DEF JoinClaim, Departed
      <3>3. LeftPageIsUnbound'
        BY <3>2, <1>7, <2>6 DEF JoinClaim, IInv, LeftPageIsUnbound, IsOpen
      <3> QED BY <1>0, <1>7, <2>2, <2>3, <2>4, <3>2, <3>3, Carries DEF JoinClaim
    <2> QED BY <2>5, <2>6
  <1>8. CASE JoinTakeover(t)
    <2>1. t.previous \in Sockets /\ Forget(t.previous)
      BY <1>8 DEF JoinTakeover, Displaces
    <2>2. /\ Onward /\ net'[t.previous] = "down" /\ Departed(t.previous)'
          /\ \A r \in Sockets \ {t.previous} : net'[r] = net[r] /\ visits'[r] = visits[r]
      BY <1>0, <2>1, ForgetIsOnward
    <2>3. LeftPageIsUnbound'
      BY <2>1, <2>2 DEF Forget, IInv, LeftPageIsUnbound, IsOpen
    <2>4. HolderIsSomebody'
      BY <2>2, <1>8, SameHolder DEF JoinTakeover
    <2>5. /\ pending' = pending /\ leaving' \in {leaving, t.previous}
          /\ tasks' \subseteq tasks /\ bound' \subseteq bound
      BY <1>8 DEF JoinTakeover, Forget, Ends
    <2>6. leaving' \in {leaving, NoSocket} \/ Departed(leaving)'
      BY <2>2, <2>5
    <2> QED BY <1>0, <2>2, <2>3, <2>4, <2>5, <2>6, Carries
  <1>9. CASE JoinReturn(t)
    BY <1>4, <1>9 DEF JoinReturn, Ends
  <1>10. CASE ReadyLoad(t)
    BY <1>3, <1>4, <1>10 DEF ReadyLoad, Becomes, Ends
  <1>11. CASE ReadyClaim(t)
    <2>1. /\ t.kind = "ready" /\ t.opening \in Nat /\ "lobby" \in Pages
          /\ t.opening >= 1 /\ net[t.socket] # "new"
      BY <1>0, <1>11, TaskKinds DEF ReadyClaim, ReadyTask, FineTask, Pages
    <2>2. HolderIsSomebody'
      BY <1>0, <1>11, <2>1 DEF ReadyClaim, HeldBy, HolderIsSomebody
    <2>3. leaving' = leaving \/ Departed(leaving)'
      <3>1. CASE visitIsOpen(t.socket, "lobby", t.opening)
        BY <3>1, <1>11 DEF ReadyClaim
      <3>2. CASE ~ visitIsOpen(t.socket, "lobby", t.opening)
        <4>1. visits[t.socket]["lobby"].left > 0
          BY <1>1, <2>1, <3>2 DEF visitIsOpen
        <4> QED BY <4>1, <2>1, <3>2, <1>11 DEF ReadyClaim, Departed
      <3> QED BY <3>1, <3>2
    <2> QED BY <1>0, <1>11, <2>2, <2>3, CarriesStill DEF ReadyClaim, Ends
  <1>12. CASE SettleRelease(t) \/ SettleLobbyRelease(t) \/ RetireRelease(t)
    <2>1. /\ UNCHANGED <<net, visits, bound, pending, leaving>>
          /\ row' = row \/ row' = Released
          /\ \A u \in tasks' : u \in tasks \/ FineTask(u)
      BY <1>3, <1>12 DEF SettleRelease, SettleLobbyRelease, RetireRelease, Becomes, Ends
    <2>2. HolderIsSomebody'
      BY <1>0, <2>1 DEF IInv, HolderIsSomebody, Released, TypeOK
    <2> QED BY <1>0, <2>1, <2>2, CarriesStill
  <1>13. CASE PauseLoad(t) \/ PauseWrite(t)
    BY <1>3, <1>4, <1>13 DEF PauseLoad, PauseWrite, Becomes, Ends
  <1> QED BY <1>5, <1>6, <1>7, <1>8, <1>9, <1>10, <1>11, <1>12, <1>13 DEF Step

\* The presence refresh retires only a connection that has gone: whoever holds
\* the row has connected, and is not connected any more.
LEMMA RefreshCarries ==
  ASSUME IInv, refreshPresence
  PROVE  IInv'
  <1> USE DEF rows, maps
  <1>0. TypeOK /\ row.holder \in Sockets /\ net[row.holder] \in {"up", "down"}
    BY PresenceAssumption DEF IInv, HolderIsSomebody, refreshPresence, TypeOK
  <1>1. tasks' \subseteq Task
    <2>1. [kind |-> "retire", step |-> "release", socket |-> row.holder] \in Task
      BY <1>0, NewTasks
    <2>2. tasks \subseteq Task
      BY <1>0 DEF TypeOK
    <2> QED BY <2>1, <2>2 DEF refreshPresence
  <1>2. /\ row' \in [holder : Sockets \cup {NoSocket}, online : BOOLEAN, stale : BOOLEAN]
        /\ row'.holder = row.holder /\ row'.online = row.online
    BY <1>0 DEF refreshPresence, Touched, TypeOK
  <1>3. TypeOK'
    BY <1>0, <1>1, <1>2 DEF refreshPresence, TypeOK
  <1>4. ASSUME NEW u \in tasks' PROVE u \in tasks \/ FineTask(u)
    BY <1>0, <1>4 DEF refreshPresence, IsLost, FineTask, Departed
  <1>5. HolderIsSomebody'
    BY <1>2 DEF IInv, HolderIsSomebody, refreshPresence
  <1> QED BY <1>3, <1>4, <1>5, CarriesStill DEF refreshPresence

LEMMA OthersCarry ==
  ASSUME IInv,
         \/ SettleFires \/ LobbySettleFires \/ StartAttempt \/ CloseAttempt
         \/ AttemptClosed \/ GrowStale \/ Restart
  PROVE  IInv'
  <1> USE DEF rows, maps
  <1>0. TypeOK /\ TypeOK'
    BY OtherTypes DEF IInv
  <1>1. ASSUME UNCHANGED <<net, visits>>, bound' \subseteq bound,
               row'.holder = row.holder, row'.online => row.online,
               \A u \in tasks' : u \in tasks \/ FineTask(u),
               pending' \in {pending, NoSocket}, leaving' \in {leaving, NoSocket}
        PROVE  IInv'
    BY <1>0, <1>1, CarriesStill, SameHolder, StillIsOnward
  <1>2. CASE SettleFires
    <2>1. FineTask(Settled)
      BY <1>2 DEF SettleFires, Settled, Settling, FineTask, IInv, GoersDeparted
    <2> QED BY <1>1, <1>2, <2>1 DEF SettleFires
  <1>3. CASE LobbySettleFires
    <2>1. FineTask([kind |-> "settleLobby", step |-> "release", socket |-> leaving])
      BY <1>3 DEF LobbySettleFires, FineTask, IInv, GoersDeparted
    <2> QED BY <1>1, <1>3, <2>1 DEF LobbySettleFires
  <1>4. CASE StartAttempt \/ CloseAttempt
    BY <1>1, <1>4 DEF StartAttempt, CloseAttempt
  <1>5. CASE AttemptClosed
    BY <1>1, <1>5 DEF AttemptClosed
  <1>6. CASE GrowStale
    <2>1. row'.holder = row.holder /\ row'.online = row.online
      BY <1>0, <1>6 DEF GrowStale, TypeOK
    <2> QED BY <1>1, <1>6, <2>1 DEF GrowStale
  <1>7. CASE Restart
    <2>1. HolderIsSomebody'
      BY <1>0, <1>7 DEF Restart, IInv, HolderIsSomebody, TypeOK
    <2> QED BY <1>0, <1>7, <2>1
         DEF Restart, IInv, TasksAreFine, BoundConnected, LeftPageIsUnbound, GoersDeparted
  <1> QED BY <1>2, <1>3, <1>4, <1>5, <1>6, <1>7

LEMMA NextCarries == IInv /\ [Next]_vars => IInv'
  <1> SUFFICES ASSUME IInv, [Next]_vars PROVE IInv'
    OBVIOUS
  <1>1. CASE UNCHANGED vars
    <2>1. TypeOK'
      BY <1>1 DEF IInv, TypeOK, vars
    <2> QED BY <1>1, <2>1, CarriesStill, SameHolder, StillIsOnward DEF IInv, vars
  <1>2. CASE Next
    BY <1>2, SocketActionsCarry, StepsCarry, RefreshCarries, OthersCarry DEF Next
  <1> QED BY <1>1, <1>2

------------------------------------------------------------------------------
(* The theorems.                                                            *)

\* The invariant: what any task can have read, for any number of sockets,
\* visits, tasks and restarts.
THEOREM PresenceInvariant == Spec => []IInv
  BY InitIInv, NextCarries, PTL DEF Spec

\* The maps, the tasks and the rows keep their types: a retired row always
\* has a socket to release.
THEOREM TypeCorrect == Spec => []TypeOK
  <1>1. IInv => TypeOK
    BY DEF IInv
  <1> QED BY <1>1, PresenceInvariant, PTL

\* A socket that works on the attempt is on its page: a join whose page was
\* left while it waited undoes itself (handleJoin's second check).
THEOREM NoLeftPageBound == Spec => []LeftPageIsUnbound
  <1>1. IInv => LeftPageIsUnbound
    BY DEF IInv
  <1> QED BY <1>1, PresenceInvariant, PTL

LEMMA ReleaseStep ==
  ASSUME IInv, [Next]_vars, row.holder # NoSocket, row'.holder = NoSocket
  PROVE  Departed(row.holder)
  <1> USE DEF rows, maps
  <1>0. /\ TypeOK /\ NoSocket \notin Sockets
        /\ \A t \in tasks : t.socket \in Sockets /\ FineTask(t)
    BY PresenceAssumption, TaskKinds DEF IInv, TypeOK, TasksAreFine
  <1>1. row' # row
    OBVIOUS
  <1>2. PICK t \in tasks : Step(t)
    <2>1. ASSUME NEW s \in Sockets,
                 Join(s) \/ Ready(s) \/ handleAttemptLeave(s) \/ handleLobbyLeave(s)
                   \/ handleDisconnect(s)
          PROVE  row' = row
      BY <2>1 DEF Join, Ready, handleAttemptLeave, handleLobbyLeave, handleDisconnect
    <2>2. ASSUME \/ SettleFires \/ LobbySettleFires \/ StartAttempt \/ CloseAttempt
                 \/ AttemptClosed \/ GrowStale \/ Restart \/ refreshPresence
          PROVE  row'.holder = row.holder
      BY <1>0, <2>2 DEF SettleFires, LobbySettleFires, StartAttempt, CloseAttempt,
           AttemptClosed, GrowStale, Restart, refreshPresence, Touched, TypeOK
    <2> QED BY <1>1, <2>1, <2>2 DEF Next, vars
  <1>3. t.kind \in {"settle", "settleLobby", "retire"} /\ row.holder = t.socket
    BY <1>0, <1>1, <1>2
       DEF Step, JoinLoad, JoinUpsert, JoinClaim, JoinTakeover, JoinReturn, ReadyLoad,
           ReadyClaim, SettleRelease, StillHolds, SettleLobbyRelease, RetireRelease,
           PauseLoad, PauseWrite, HeldBy
  <1> QED BY <1>0, <1>3 DEF FineTask

\* Nobody's presence is taken back on account of somebody else, however many
\* sockets come and go while a departure waits out its debounce.
THEOREM OnlyTheDepartedAreReleased == Spec => ReleasedOnlyIfDeparted
  <1>1. IInv /\ [Next]_vars =>
          [row.holder # NoSocket /\ row'.holder = NoSocket => Departed(row.holder)]_vars
    BY ReleaseStep
  <1> QED BY <1>1, PresenceInvariant, PTL DEF Spec, ReleasedOnlyIfDeparted

\* Pauses and resumes are conditional on the attempt being open when they are
\* written, so none reaches an attempt that closed after it was read.
THEOREM ClosedClocksStand == Spec => ClosedClockStands
  <1>1. [Next]_vars => [attempt.status = "closed" => UNCHANGED attempt]_vars
    <2> SUFFICES ASSUME [Next]_vars, attempt.status = "closed" PROVE UNCHANGED attempt
      OBVIOUS
    <2>1. ASSUME NEW t \in tasks, Step(t) PROVE UNCHANGED attempt
      BY <2>1 DEF Step, JoinLoad, JoinUpsert, JoinClaim, JoinTakeover, JoinReturn,
           ReadyLoad, ReadyClaim, SettleRelease, SettleLobbyRelease, RetireRelease,
           PauseLoad, PauseWrite, Running, rows
    <2>2. ASSUME NEW s \in Sockets,
                 Join(s) \/ Ready(s) \/ handleAttemptLeave(s) \/ handleLobbyLeave(s)
                   \/ handleDisconnect(s)
          PROVE  UNCHANGED attempt
      BY <2>2 DEF Join, Ready, handleAttemptLeave, handleLobbyLeave, handleDisconnect, rows
    <2>3. ASSUME \/ SettleFires \/ LobbySettleFires \/ StartAttempt \/ CloseAttempt
                 \/ AttemptClosed \/ GrowStale \/ Restart \/ refreshPresence
          PROVE  UNCHANGED attempt
      BY <2>3 DEF SettleFires, LobbySettleFires, StartAttempt, CloseAttempt,
           AttemptClosed, GrowStale, Restart, refreshPresence, rows
    <2> QED BY <2>1, <2>2, <2>3 DEF Next, vars
  <1> QED BY <1>1, PTL DEF Spec, ClosedClockStands
==============================================================================
