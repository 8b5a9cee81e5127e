------------------------- MODULE DraftRecovery_proofs -------------------------
(***************************************************************************)
(* Safety of DraftRecovery for any number of edits, visits, outages and    *)
(* requests.                                                               *)
(***************************************************************************)
EXTENDS DraftRecovery, Functions, FiniteSetTheorems, TLAPS

LEMMA Bounds == MaxEdits \in Nat /\ MaxVisits \in Nat /\ MaxOutages \in Nat /\ MaxRequests \in Nat
  BY DraftAssumption

LEMMA TextsTyped ==
  /\ 0 \in Texts /\ NoText \notin Texts /\ NoText \in Maybe /\ Texts \subseteq Maybe
  /\ \A x \in Maybe : x # NoText => x \in Texts
  BY Bounds DEF Texts, Maybe, NoText

Page == [shown : BOOLEAN, buffer : Texts, lock : {"no", "submitting", "over"},
         failure : {"none", "offline", "closed"},
         throttle : BOOLEAN, exiting : BOOLEAN, wasOffline : BOOLEAN]

\* A Submit is only ever confirmed for an attempt that it has closed.
StoredSubmitIsClosed ==
  \A r \in requests : r.kind = "submit" /\ r.step = "stored" => ~ open

IInv == TypeOK /\ LocalCopyFollows /\ LockedForAReason /\ StoredSubmitIsClosed

Submitting == \E r \in requests : r.kind = "submit"

\* Ranks are numbers.
LEMMA RanksAreNumbers ==
  ASSUME NEW f, DOMAIN f = Stamped
  PROVE  Renumbered(f) \in [Stamped -> Nat]
  <1>1. IsFiniteSet(Stamped)
    <2>1. IsFiniteSet({"never", "edit"})
      <3>1. {"never", "edit"} = {"never"} \cup {"edit"}
        OBVIOUS
      <3>2. IsFiniteSet({"never"})
        BY FS_Singleton
      <3> QED BY <3>1, <3>2, FS_AddElement
    <2>2. IsFiniteSet({"never", "edit", "local"})
      <3>1. {"never", "edit", "local"} = {"never", "edit"} \cup {"local"}
        OBVIOUS
      <3> QED BY <2>1, <3>1, FS_AddElement
    <2>3. IsFiniteSet({"never", "edit", "local", "draft"})
      <3>1. {"never", "edit", "local", "draft"} = {"never", "edit", "local"} \cup {"draft"}
        OBVIOUS
      <3> QED BY <2>2, <3>1, FS_AddElement
    <2>4. Stamped = {"never", "edit", "local", "draft"} \cup {"read"}
      BY DEF Stamped
    <2> QED BY <2>3, <2>4, FS_AddElement
  <1>2. ASSUME NEW x \in Stamped
        PROVE  Cardinality({f[y] : y \in {z \in Stamped : f[z] < f[x]}}) \in Nat
    <2> DEFINE T == {z \in Stamped : f[z] < f[x]}
    <2>1. IsFiniteSet(T)
      BY <1>1, FS_Subset
    <2>2. IsFiniteSet({f[y] : y \in T})
      <3> HIDE DEF T
      <3> DEFINE I == {f[y] : y \in T}
                 g == [y \in T |-> f[y]]
      <3>1. g \in Surjection(T, I)
        BY DEF Surjection
      <3> QED BY <2>1, <3>1, FS_Surjection
    <2> QED BY <2>2, FS_CardinalityType
  <1> QED BY <1>2 DEF Renumbered

LEMMA StampTypes ==
  ASSUME stamps \in [Stamped -> Nat]
  PROVE  /\ \A x : Now(x) \in [Stamped -> Nat]
         /\ \A x, y : Copied(x, y) \in [Stamped -> Nat]
         /\ \A items : Without(items) \in [Stamped -> Nat]
         /\ \A x, v : Renumbered([stamps EXCEPT ![x] = v]) \in [Stamped -> Nat]
         /\ \A x, v, y, w :
              Renumbered([stamps EXCEPT ![x] = v, ![y] = w]) \in [Stamped -> Nat]
         /\ \A items, x, v :
              Renumbered([Without(items) EXCEPT ![x] = v]) \in [Stamped -> Nat]
  <1>1. \A x : Now(x) \in [Stamped -> Nat]
    BY RanksAreNumbers DEF Now
  <1>2. \A x, y : Copied(x, y) \in [Stamped -> Nat]
    BY RanksAreNumbers DEF Copied
  <1>3. \A items : Without(items) \in [Stamped -> Nat]
    BY RanksAreNumbers DEF Without
  <1>4. \A x, v : Renumbered([stamps EXCEPT ![x] = v]) \in [Stamped -> Nat]
    BY RanksAreNumbers
  <1>5. \A x, v, y, w : Renumbered([stamps EXCEPT ![x] = v, ![y] = w]) \in [Stamped -> Nat]
    BY RanksAreNumbers
  <1>6. \A items, x, v : Renumbered([Without(items) EXCEPT ![x] = v]) \in [Stamped -> Nat]
    BY <1>3, RanksAreNumbers
  <1> QED BY <1>1, <1>2, <1>3, <1>4, <1>5, <1>6

\* The choice never puts a copy on screen that does not exist.
LEMMA ChoiceExists ==
  ASSUME TypeOK
  PROVE  /\ Mine.text \in Maybe
         /\ chooseDraft = "LOCAL" => Mine.text \in Texts
         /\ chooseDraft # "LOCAL" /\ chooseDraft # "NONE" => recovery.draft \in Texts
  <1>1. Mine.text \in Maybe /\ recovery.draft \in Maybe
    BY TextsTyped DEF TypeOK, Mine, Recovery
  <1>2. CASE Mine.text = NoText /\ recovery.draft = NoText
    BY <1>1, <1>2 DEF chooseDraft, NothingSaved
  <1>3. CASE Mine.text = NoText /\ recovery.draft # NoText
    BY <1>1, <1>3, TextsTyped DEF chooseDraft, NothingSaved
  <1>4. CASE Mine.text # NoText /\ recovery.draft = NoText
    BY <1>1, <1>4, TextsTyped DEF chooseDraft, NothingSaved
  <1>5. CASE Mine.text # NoText /\ recovery.draft # NoText
    BY <1>1, <1>5, TextsTyped
  <1> QED BY <1>1, <1>2, <1>3, <1>4, <1>5

LEMMA InitIInv == Init => IInv
  <1> SUFFICES ASSUME Init PROVE IInv
    OBVIOUS
  <1>1. Away \in Page /\ NoRecovery \in Recovery /\ ~ Away.shown /\ Away.lock = "no"
    BY TextsTyped DEF Away, Page, NoRecovery, Recovery
  <1>2. TypeOK
    BY <1>1, TextsTyped DEF Init, TypeOK, Page
  <1> QED BY <1>1, <1>2
       DEF Init, IInv, LocalCopyFollows, enabled, LockedForAReason, StoredSubmitIsClosed

\* What is sent, and what is left of it when its page is gone.
LEMMA RequestTypes ==
  ASSUME TypeOK
  PROVE  /\ \A kind \in {"autosave", "restore", "exit", "submit", "orphan"}, text \in Texts :
              [kind |-> kind, step |-> "sent", text |-> text] \in Request
         /\ page.buffer \in Texts
         /\ \A sent \in SUBSET Request :
              Orphaned(sent) \in SUBSET Request /\ \A r \in Orphaned(sent) : r.step = "sent"
         /\ \A r \in Request :
              /\ r.text \in Texts
              /\ \A a \in {"stored", "refused", "failed"} :
                   /\ [r EXCEPT !.step = a] \in Request
                   /\ [r EXCEPT !.step = a].kind = r.kind
                   /\ [r EXCEPT !.step = a].step = a
  <1>1. ASSUME NEW r \in Request
        PROVE  /\ r.text \in Texts
               /\ \A a \in {"stored", "refused", "failed"} :
                    /\ [r EXCEPT !.step = a] \in Request
                    /\ [r EXCEPT !.step = a].kind = r.kind
                    /\ [r EXCEPT !.step = a].step = a
    BY DEF Request, Kinds, Awaited
  <1>2. \A kind \in {"autosave", "restore", "exit", "submit", "orphan"}, text \in Texts :
          [kind |-> kind, step |-> "sent", text |-> text] \in Request
    BY DEF Request, Kinds, Awaited
  <1>3. page.buffer \in Texts
    BY DEF TypeOK
  <1>4. ASSUME NEW sent \in SUBSET Request
        PROVE  Orphaned(sent) \in SUBSET Request /\ \A r \in Orphaned(sent) : r.step = "sent"
    <2>1. ASSUME NEW r \in Request
          PROVE  /\ [r EXCEPT !.kind = IF @ \in {"submit", "lateSubmit"} THEN "lateSubmit"
                                       ELSE "orphan"] \in Request
                 /\ [r EXCEPT !.kind = IF @ \in {"submit", "lateSubmit"} THEN "lateSubmit"
                                       ELSE "orphan"].step = r.step
      BY DEF Request, Kinds, Awaited
    <2> QED BY <1>4, <2>1 DEF Orphaned
  <1> QED BY <1>1, <1>2, <1>3, <1>4

LEMMA AwayTypes == Away \in Page /\ ~ Away.shown /\ Away.lock = "no" /\ NoRecovery \in Recovery
  BY TextsTyped DEF Away, Page, NoRecovery, Recovery

\* The page: opening, typing, writing the local copy, sending.
LEMMA PageKeeps ==
  ASSUME IInv,
         OpenWorkspace \/ edit \/ WriteLocal \/ save \/ confirmSubmit \/ confirmExit
  PROVE  IInv'
  <1> USE DEF IInv, LocalCopyFollows, LockedForAReason, StoredSubmitIsClosed, enabled
  <1>0. /\ TypeOK /\ page \in Page /\ stamps \in [Stamped -> Nat]
    BY DEF TypeOK, Page
  <1>1. CASE OpenWorkspace
    <2>1. /\ page' \in Page /\ page'.throttle /\ page'.lock = "no"
      BY <1>0, <1>1, AwayTypes, TextsTyped DEF OpenWorkspace, Away, Page, TypeOK
    <2>2. recovery' \in Recovery
      BY <1>0, <1>1 DEF OpenWorkspace, Recovery, TypeOK
    <2>3. stamps' \in [Stamped -> Nat]
      BY <1>0, <1>1, StampTypes DEF OpenWorkspace
    <2>4. visits' \in Nat
      BY <1>0, <1>1 DEF OpenWorkspace, TypeOK
    <2> QED BY <1>0, <1>1, <2>1, <2>2, <2>3, <2>4 DEF OpenWorkspace, TypeOK, Page
  <1>2. CASE edit
    <2>1. typed + 1 \in Texts /\ typed' \in Nat
      BY <1>0, <1>2, Bounds DEF edit, TypeOK, Texts
    <2>2. /\ page' \in Page /\ page'.throttle /\ page'.lock = page.lock
      BY <1>0, <1>2, <2>1 DEF edit, Typed, Page
    <2>3. stamps' \in [Stamped -> Nat]
      BY <1>0, <1>2, StampTypes DEF edit
    <2> QED BY <1>0, <1>2, <2>1, <2>2, <2>3 DEF edit, TypeOK, Page
  <1>3. CASE WriteLocal
    <2>1. /\ page' \in Page /\ page'.buffer = page.buffer /\ page'.lock = page.lock
      BY <1>0, <1>3 DEF WriteLocal, Page
    <2>2. stamps' \in [Stamped -> Nat] /\ local' = page.buffer /\ local' \in Maybe
      BY <1>0, <1>3, StampTypes, RequestTypes, TextsTyped DEF WriteLocal
    <2> QED BY <1>0, <1>3, <2>1, <2>2 DEF WriteLocal, TypeOK, Page
  <1>4. CASE save
    <2>1. /\ requests' \in SUBSET Request /\ requests \subseteq requests'
          /\ \A r \in requests' : r \in requests \/ r.step = "sent"
      BY <1>0, <1>4, RequestTypes DEF save, Send, TypeOK
    <2> QED BY <1>0, <1>4, <2>1 DEF save, TypeOK
  <1>5. CASE confirmSubmit
    <2>1. /\ requests' \in SUBSET Request
          /\ \A r \in requests' : r \in requests \/ r.step = "sent"
          /\ \E r \in requests' : r.kind = "submit"
      <3> DEFINE sent == [kind |-> "submit", step |-> "sent", text |-> page.buffer]
      <3>1. sent \in Request /\ sent.kind = "submit" /\ sent.step = "sent"
        BY <1>0, RequestTypes
      <3>2. requests' = requests \cup {sent}
        BY <1>5 DEF confirmSubmit, Send
      <3> HIDE DEF sent
      <3> QED BY <1>0, <3>1, <3>2 DEF TypeOK
    <2>2. page' \in Page /\ page'.lock = "submitting"
      BY <1>0, <1>5 DEF confirmSubmit, Page
    <2> QED BY <1>0, <1>5, <2>1, <2>2 DEF confirmSubmit, TypeOK, Page
  <1>6. CASE confirmExit
    <2>1. /\ requests' \in SUBSET Request /\ requests \subseteq requests'
          /\ \A r \in requests' : r \in requests \/ r.step = "sent"
      BY <1>0, <1>6, RequestTypes DEF confirmExit, Send, TypeOK
    <2>2. /\ page' \in Page /\ page'.lock = page.lock
          /\ page'.buffer = page.buffer /\ page'.throttle = page.throttle /\ page'.shown = page.shown
      BY <1>0, <1>6 DEF confirmExit, Page
    <2> QED BY <1>0, <1>6, <2>1, <2>2 DEF confirmExit, TypeOK, Page
  <1> QED BY <1>1, <1>2, <1>3, <1>4, <1>5, <1>6

\* The page goes away, of itself or after its last save.
LEMMA ClosingKeeps ==
  ASSUME IInv, ClosePage \/ \E r \in requests : ExitAnswered(r)
  PROVE  IInv'
  <1> USE DEF IInv, LocalCopyFollows, LockedForAReason, StoredSubmitIsClosed, enabled
  <1>0. /\ TypeOK /\ page \in Page /\ stamps \in [Stamped -> Nat] /\ requests \in SUBSET Request
    BY DEF TypeOK, Page
  <1>1. CASE ClosePage
    <2>1. /\ page' = Away /\ recovery' = NoRecovery
          /\ UNCHANGED <<typed, open, draft, online, visits, outages>>
      BY <1>1 DEF ClosePage
    <2>2. /\ requests' \in SUBSET Request /\ \A r \in requests' : r.step = "sent"
          /\ local' \in {local, page.buffer}
      <3>1. /\ Orphaned(requests) \in SUBSET Request /\ \A r \in Orphaned(requests) : r.step = "sent"
            /\ [kind |-> "orphan", step |-> "sent", text |-> page.buffer] \in Request
        BY <1>0, RequestTypes
      <3> QED BY <1>1, <3>1 DEF ClosePage
    <2>3. stamps' \in [Stamped -> Nat]
      <3>1. \/ stamps' = Without({"edit", "read"})
            \/ stamps' = Renumbered([Without({"edit", "read"}) EXCEPT
                                       !["local"] = Cardinality(Stamped)])
        BY <1>1 DEF ClosePage
      <3>2. Without({"edit", "read"}) \in [Stamped -> Nat]
        BY <1>0, StampTypes
      <3> DEFINE f == [Without({"edit", "read"}) EXCEPT !["local"] = Cardinality(Stamped)]
      <3>3. DOMAIN f = Stamped
        BY <3>2
      <3>4. Renumbered(f) \in [Stamped -> Nat]
        <4> HIDE DEF f
        <4> QED BY <3>3, RanksAreNumbers
      <3> QED BY <3>1, <3>2, <3>4
    <2>4. local' \in Maybe
      BY <1>0, <2>2, RequestTypes, TextsTyped DEF TypeOK
    <2> QED BY <1>0, <2>1, <2>2, <2>3, <2>4, AwayTypes DEF TypeOK, Page
  <1>2. ASSUME NEW r \in requests, ExitAnswered(r) PROVE IInv'
    <2>1. CASE r.step = "stored"
      <3>1. /\ page' = Away /\ recovery' = NoRecovery /\ requests' = Orphaned(requests \ {r})
            /\ stamps' = Without({"edit", "read"})
            /\ UNCHANGED <<typed, open, draft, local, online, visits, outages>>
        BY <1>2, <2>1 DEF ExitAnswered
      <3>2. requests' \in SUBSET Request /\ \A q \in requests' : q.step = "sent"
        BY <1>0, <3>1, RequestTypes
      <3>3. stamps' \in [Stamped -> Nat]
        BY <1>0, <3>1, StampTypes
      <3> QED BY <1>0, <3>1, <3>2, <3>3, AwayTypes DEF TypeOK, Page
    <2>2. CASE r.step # "stored"
      <3>1. /\ page' \in Page /\ page'.lock = page.lock
            /\ page'.buffer = page.buffer /\ page'.throttle = page.throttle
            /\ page'.shown = page.shown
        BY <1>0, <1>2, <2>2 DEF ExitAnswered, Page
      <3>2. requests' \subseteq requests /\ (Submitting => Submitting')
        BY <1>2, <2>2 DEF ExitAnswered, Retire, Submitting
      <3> QED BY <1>0, <1>2, <2>2, <3>1, <3>2 DEF ExitAnswered, TypeOK, Page, Submitting
    <2> QED BY <2>1, <2>2
  <1> QED BY <1>1, <1>2

\* The answer to a Submit is kept for the page that waits for it.
LEMMA AnswerTypes ==
  ASSUME TypeOK, NEW r \in requests, NEW served \in BOOLEAN, Answered(r, served)
  PROVE  /\ requests' \in SUBSET Request
         /\ Submitting => Submitting'
         /\ \A q \in requests' :
              \/ q \in requests
              \/ q.kind = r.kind /\ (q.step = "stored" => served)
  <1>1. r \in Request /\ requests \in SUBSET Request
    BY DEF TypeOK
  <1>2. PICK answer \in {"stored", "refused", "failed"} :
          /\ answer = "stored" => served
          /\ requests' = (requests \ {r}) \cup
               (IF r.kind \in Awaited THEN {[r EXCEPT !.step = answer]} ELSE {})
    BY DEF Answered
  <1> DEFINE q == [r EXCEPT !.step = answer]
  <1>3. q \in Request /\ q.kind = r.kind /\ q.step = answer
    BY <1>1, RequestTypes
  <1>4. CASE r.kind \in Awaited
    <2>1. requests' = (requests \ {r}) \cup {q}
      BY <1>2, <1>4
    <2> HIDE DEF q
    <2> QED BY <1>1, <1>2, <1>3, <2>1 DEF Submitting
  <1>5. CASE r.kind \notin Awaited
    <2>1. requests' = requests \ {r} /\ r.kind # "submit"
      BY <1>2, <1>5 DEF Awaited
    <2> QED BY <1>1, <2>1 DEF Submitting
  <1> QED BY <1>4, <1>5

\* A Submit is confirmed by the step that closes the attempt, for good.
LEMMA ServerKeeps ==
  ASSUME IInv,
         AutoSubmit \/ onAttemptState \/ \E r \in requests : saveDraft(r) \/ submitAttempt(r)
  PROVE  IInv'
  <1> USE DEF IInv, LocalCopyFollows, LockedForAReason, StoredSubmitIsClosed, enabled
  <1>0. /\ TypeOK /\ page \in Page /\ stamps \in [Stamped -> Nat] /\ requests \in SUBSET Request
        /\ open \in BOOLEAN
    BY DEF TypeOK, Page
  <1>1. CASE AutoSubmit
    <2>1. /\ page' \in Page /\ (page'.lock = "over" \/ (page' = page /\ local' = local))
          /\ local' \in Maybe
      BY <1>0, <1>1, TextsTyped DEF AutoSubmit, Page, TypeOK
    <2> QED BY <1>0, <1>1, <2>1 DEF AutoSubmit, TypeOK, Page
  <1>2. CASE onAttemptState
    <2>1. page' \in Page /\ page'.lock = "over"
      BY <1>0, <1>2 DEF onAttemptState, Page
    <2> QED BY <1>0, <1>2, <2>1 DEF onAttemptState, TypeOK, Page
  <1>3. ASSUME NEW r \in requests, saveDraft(r) PROVE IInv'
    <2>1. PICK served \in BOOLEAN :
            /\ draft' = IF served /\ open THEN r.text ELSE draft
            /\ stamps' = IF served /\ open THEN Now("draft") ELSE stamps
            /\ Answered(r, served)
      BY <1>3 DEF saveDraft
    <2>2. draft' \in Maybe /\ stamps' \in [Stamped -> Nat]
      <3>1. r.text \in Maybe /\ draft \in Maybe /\ Now("draft") \in [Stamped -> Nat]
        BY <1>0, RequestTypes, StampTypes, TextsTyped DEF TypeOK
      <3> QED BY <1>0, <2>1, <3>1
    <2>3. /\ requests' \in SUBSET Request
          /\ Submitting => Submitting'
          /\ \A q \in requests' : q \in requests \/ q.kind # "submit"
      BY <1>0, <1>3, <2>1, AnswerTypes DEF saveDraft
    <2> QED BY <1>0, <1>3, <2>2, <2>3 DEF saveDraft, TypeOK, Submitting
  <1>4. ASSUME NEW r \in requests, submitAttempt(r) PROVE IInv'
    <2>1. PICK served \in BOOLEAN : open' = (open /\ ~ served) /\ Answered(r, served)
      BY <1>4 DEF submitAttempt
    <2>2. /\ requests' \in SUBSET Request
          /\ Submitting => Submitting'
          /\ \A q \in requests' : q \in requests \/ (q.step = "stored" => ~ open')
      BY <1>0, <2>1, AnswerTypes
    <2>3. open' \in BOOLEAN /\ (~ open => ~ open')
      BY <2>1
    <2> QED BY <1>0, <1>4, <2>2, <2>3 DEF submitAttempt, TypeOK, Submitting
  <1> QED BY <1>1, <1>2, <1>3, <1>4

\* The editor that opens again arms its throttle.
LEMMA UnlockedTypes ==
  ASSUME page \in Page
  PROVE  /\ Unlocked \in Page /\ Unlocked.buffer = page.buffer /\ Unlocked.shown = page.shown
         /\ Unlocked.lock # "submitting"
         /\ Unlocked.lock = "over" => page.lock = "over"
         /\ Unlocked.throttle \/ (Unlocked.throttle = page.throttle /\ Unlocked.lock = page.lock)
  BY DEF Unlocked, Page

\* Whatever ends a Submit unlocks the editor it had locked, unless the attempt
\* is over.
LEMMA AnswersKeep ==
  ASSUME IInv, NEW r \in requests, SaveAnswered(r) \/ SubmitAnswered(r) \/ NetworkError(r)
  PROVE  IInv'
  <1> USE DEF IInv, LocalCopyFollows, LockedForAReason, StoredSubmitIsClosed, enabled
  <1>0. /\ TypeOK /\ page \in Page /\ requests \in SUBSET Request
    BY DEF TypeOK, Page
  <1>1. /\ requests' \subseteq requests
        /\ r.kind # "submit" /\ Submitting => Submitting'
    BY DEF SaveAnswered, SubmitAnswered, NetworkError, Retire, Submitting
  <1>2. CASE SaveAnswered(r)
    <2>1. r.step \in {"stored", "refused", "failed"}
      BY <1>0, <1>2 DEF SaveAnswered, Request
    <2>2. /\ page' \in Page /\ page'.lock = page.lock
          /\ page'.buffer = page.buffer /\ page'.throttle = page.throttle
          /\ page'.shown = page.shown
      BY <1>0, <1>2, <2>1 DEF SaveAnswered, describeSave, Page
    <2>3. r.kind # "submit"
      BY <1>2 DEF SaveAnswered
    <2> QED BY <1>0, <1>1, <1>2, <2>2, <2>3 DEF SaveAnswered, TypeOK, Page, Submitting
  <1>3. CASE SubmitAnswered(r)
    <2>1. CASE r.step = "stored"
      <3>1. page' \in Page /\ page'.lock = "over" /\ local' \in Maybe
        BY <1>0, <1>3, <2>1, TextsTyped DEF SubmitAnswered, Page
      <3>2. ~ open
        BY <1>3, <2>1 DEF SubmitAnswered
      <3> QED BY <1>0, <1>1, <1>3, <3>1, <3>2 DEF SubmitAnswered, TypeOK, Page
    <2>2. CASE r.step # "stored"
      <3>1. page' = Unlocked /\ local' = local
        BY <1>3, <2>2 DEF SubmitAnswered
      <3> QED BY <1>0, <1>1, <1>3, <3>1, UnlockedTypes DEF SubmitAnswered, TypeOK, Page
    <2> QED BY <2>1, <2>2
  <1>4. CASE NetworkError(r)
    <2>1. CASE r.kind = "submit"
      <3>1. page' = Unlocked
        BY <1>4, <2>1 DEF NetworkError
      <3> QED BY <1>0, <1>1, <1>4, <3>1, UnlockedTypes DEF NetworkError, TypeOK, Page
    <2>2. CASE r.kind # "submit"
      <3>1. /\ page' \in Page /\ page'.buffer = page.buffer /\ page'.shown = page.shown
            /\ page'.throttle = page.throttle /\ page'.lock = page.lock
        <4>1. CASE r.kind = "autosave"
          BY <1>0, <1>4, <4>1 DEF NetworkError, describeSave, Page
        <4>2. CASE r.kind = "exit"
          BY <1>0, <1>4, <4>2 DEF NetworkError, Page
        <4>3. CASE r.kind \notin {"autosave", "exit"}
          BY <1>0, <1>4, <2>2, <4>3 DEF NetworkError
        <4> QED BY <4>1, <4>2, <4>3
      <3> QED BY <1>0, <1>1, <1>4, <2>2, <3>1 DEF NetworkError, TypeOK, Page, Submitting
    <2> QED BY <2>1, <2>2
  <1> QED BY <1>2, <1>3, <1>4

\* A text that a recovery puts on screen arms the throttle, as one that was
\* typed does.
LEMMA RecoveryKeeps ==
  ASSUME IInv, Disconnect \/ Reconnect \/ FetchDraft \/ FetchFails \/ reconcile
  PROVE  IInv'
  <1> USE DEF IInv, LocalCopyFollows, LockedForAReason, StoredSubmitIsClosed, enabled
  <1>0. /\ TypeOK /\ page \in Page /\ stamps \in [Stamped -> Nat] /\ requests \in SUBSET Request
    BY DEF TypeOK, Page
  <1>1. CASE Disconnect
    <2>1. /\ page' \in Page /\ page'.lock = page.lock
          /\ page'.buffer = page.buffer /\ page'.throttle = page.throttle
          /\ page'.shown = page.shown
      BY <1>0, <1>1 DEF Disconnect, Page
    <2>2. outages' \in Nat
      BY <1>0, <1>1 DEF Disconnect, TypeOK
    <2> QED BY <1>0, <1>1, <2>1, <2>2 DEF Disconnect, TypeOK, Page
  <1>2. CASE Reconnect
    <2>1. /\ page' \in Page /\ page'.lock = page.lock
          /\ page'.buffer = page.buffer /\ page'.throttle = page.throttle
          /\ page'.shown = page.shown
      BY <1>0, <1>2 DEF Reconnect, Page
    <2>2. recovery' \in Recovery
      BY <1>0, <1>2, AwayTypes DEF Reconnect, TypeOK, Recovery
    <2> QED BY <1>0, <1>2, <2>1, <2>2 DEF Reconnect, TypeOK, Page
  <1>3. CASE FetchDraft
    <2>1. recovery' \in Recovery /\ stamps' \in [Stamped -> Nat]
      BY <1>0, <1>3, StampTypes DEF FetchDraft, Recovery, TypeOK
    <2> QED BY <1>0, <1>3, <2>1 DEF FetchDraft, TypeOK
  <1>4. CASE FetchFails
    BY <1>0, <1>4, AwayTypes DEF FetchFails, TypeOK
  <1>5. CASE reconcile
    <2> DEFINE text == IF chooseDraft = "LOCAL" THEN Mine.text ELSE recovery.draft
    <2>1. chooseDraft # "NONE" => text \in Texts
      BY <1>0, ChoiceExists
    <2>2. /\ requests' \in SUBSET Request /\ requests \subseteq requests'
          /\ \A r \in requests' : r \in requests \/ r.step = "sent"
      <3>1. CASE chooseDraft = "LOCAL"
        <4>1. [kind |-> "restore", step |-> "sent", text |-> text] \in Request
          BY <1>0, <2>1, <3>1, RequestTypes
        <4> QED BY <1>0, <1>5, <3>1, <4>1 DEF reconcile
      <3>2. CASE chooseDraft # "LOCAL"
        BY <1>0, <1>5, <3>2 DEF reconcile
      <3> QED BY <3>1, <3>2
    <2>3. stamps' \in [Stamped -> Nat] /\ recovery' \in Recovery
      BY <1>0, <1>5, StampTypes, AwayTypes DEF reconcile
    <2>4. CASE chooseDraft = "NONE"
      BY <1>0, <1>5, <2>2, <2>3, <2>4 DEF reconcile, TypeOK, Page
    <2>5. CASE chooseDraft # "NONE"
      <3>1. /\ page' \in Page /\ page'.buffer = text
            /\ page'.throttle = (page.throttle \/ (enabled /\ text # page.buffer))
            /\ page'.lock = page.lock
            /\ page'.shown = page.shown
        <4>1. (page.throttle \/ (enabled /\ text # page.buffer)) \in BOOLEAN
          BY <1>0 DEF Page
        <4>2. page' = [page EXCEPT !.buffer = text,
                         !.throttle = page.throttle \/ (enabled /\ text # page.buffer)]
          BY <1>5, <2>5 DEF reconcile
        <4> HIDE DEF text
        <4> QED BY <1>0, <2>1, <2>5, <4>1, <4>2 DEF Page
      <3>2. local' = local /\ open' = open
        BY <1>5 DEF reconcile
      <3>3. LocalCopyFollows' /\ LockedForAReason' /\ StoredSubmitIsClosed'
        <4> HIDE DEF text
        <4> QED BY <2>2, <3>1, <3>2
      <3>4. TypeOK'
        BY <1>0, <1>5, <2>2, <2>3, <3>1 DEF reconcile, TypeOK, Page
      <3> QED BY <3>3, <3>4
    <2> QED BY <2>4, <2>5
  <1> QED BY <1>1, <1>2, <1>3, <1>4, <1>5

LEMMA NextKeeps == IInv /\ [Next]_vars => IInv'
  <1> SUFFICES ASSUME IInv, [Next]_vars PROVE IInv'
    OBVIOUS
  <1>1. CASE UNCHANGED vars
    BY <1>1 DEF vars, IInv, TypeOK, LocalCopyFollows, LockedForAReason,
                StoredSubmitIsClosed, enabled
  <1>2. CASE Next
    BY <1>2, PageKeeps, ClosingKeeps, ServerKeeps, AnswersKeep, RecoveryKeeps DEF Next
  <1> QED BY <1>1, <1>2

------------------------------------------------------------------------------
(* The theorems.                                                            *)

\* The invariant, for any number of edits, visits, outages and requests.
THEOREM DraftInvariant == Spec => []IInv
  BY InitIInv, NextKeeps, PTL DEF Spec

\* The buffer, the copies and the requests keep their types: no recovery puts
\* a copy on screen that does not exist.
THEOREM TypeCorrect == Spec => []TypeOK
  <1>1. IInv => TypeOK
    BY DEF IInv
  <1> QED BY <1>1, DraftInvariant, PTL

\* What is on screen while the editor accepts work is in the browser's own
\* copy, or the throttle is armed that will put it there.
THEOREM LocalCopyKeepsUp == Spec => []LocalCopyFollows
  <1>1. IInv => LocalCopyFollows
    BY DEF IInv
  <1> QED BY <1>1, DraftInvariant, PTL

\* No answer to a Submit, and no want of one, leaves a Coder locked out of an
\* attempt that still accepts work.
THEOREM NobodyIsLockedOut == Spec => []LockedForAReason
  <1>1. IInv => LockedForAReason
    BY DEF IInv
  <1> QED BY <1>1, DraftInvariant, PTL
==============================================================================
