----------------------------- MODULE DraftRecovery -----------------------------
(***************************************************************************)
(* The Coder's work on its way from the editor to the grader: the buffer   *)
(* on screen, the browser's own copy (IndexedDB), the server's draft, and  *)
(* the requests between them.  One Coder, one browser, one attempt.        *)
(*                                                                         *)
(* A text is the number of the edit that produced it: a larger text was    *)
(* typed later, 0 is the starter code.  Which copy a recovery prefers      *)
(* depends only on the order of their time stamps, so stamps are ranks,    *)
(* renumbered after every use; the browser's skew is taken as measured     *)
(* exactly.                                                                *)
(*                                                                         *)
(* The debounced and the periodic autosave call the same function; either  *)
(* may run whenever its timer does, which here is at any time.  The        *)
(* countdown that locks the editor at zero, and the takeover by another    *)
(* tab, are left out.                                                      *)
(***************************************************************************)
EXTENDS Naturals, FiniteSets

CONSTANTS
  MaxEdits,     \* bound: edits made
  MaxVisits,    \* bound: times the workspace is opened
  MaxOutages,   \* bound: times the network goes away
  MaxRequests   \* bound: requests on the way when the page sends another

ASSUME DraftAssumption ==
  {MaxEdits, MaxVisits, MaxOutages, MaxRequests} \subseteq Nat

Texts == 0..MaxEdits
NoText == MaxEdits + 1
Maybe == Texts \cup {NoText}

\* "read" is the server's draft as a recovery read it.
Stamped == {"never", "edit", "local", "draft", "read"}

VARIABLES
  typed,      \* edits made so far
  open,       \* does the attempt accept work?
  draft,      \* the server's draft row
  local,      \* the browser's own copy
  stamps,     \* when each was last written, as ranks
  page,       \* the workspace, and what it knows
  online,
  requests,   \* what the page has sent and not been answered
  recovery,   \* `reconcile`, between its awaits
  visits, outages

vars == <<typed, open, draft, local, stamps, page, online, requests, recovery,
          visits, outages>>

------------------------------------------------------------------------------
\* The page waits for the answers to some of its requests.
Awaited == {"autosave", "exit", "submit"}
Kinds == Awaited \cup {"restore", "orphan", "lateSubmit"}

Request ==
  [kind : Kinds, step : {"sent", "stored", "refused", "failed"}, text : Texts]

Recovery ==
  [step : {"idle", "fetch", "choose"}, draft : Maybe]

NoRecovery == [step |-> "idle", draft |-> NoText]

\* A page that is not on screen.
Away == [shown |-> FALSE, buffer |-> 0, lock |-> "no", failure |-> "none",
         throttle |-> FALSE, exiting |-> FALSE, wasOffline |-> FALSE]

Init ==
  /\ typed = 0
  /\ open = TRUE
  /\ draft = NoText /\ local = NoText
  /\ stamps = [x \in Stamped |-> 0]
  /\ page = Away
  /\ online = TRUE
  /\ requests = {}
  /\ recovery = NoRecovery
  /\ visits = 0 /\ outages = 0

------------------------------------------------------------------------------
\* Ranks keep the order of the stamps and nothing else.
Renumbered(f) ==
  [x \in DOMAIN f |-> Cardinality({f[y] : y \in {z \in DOMAIN f : f[z] < f[x]}})]

\* x is stamped with the present moment, later than every stamp there is.
Now(x) == Renumbered([stamps EXCEPT ![x] = Cardinality(Stamped)])

\* x takes the stamp that y has.
Copied(x, y) == Renumbered([stamps EXCEPT ![x] = stamps[y]])

\* Stamps that nothing compares any more.
Without(items) ==
  Renumbered([x \in Stamped |-> IF x \in items THEN stamps["never"] ELSE stamps[x]])

Later(x, y) == stamps[x] > stamps[y]

enabled == page.shown /\ page.lock = "no"
inFlight == \E r \in requests : r.kind = "autosave"

\* The page sends its buffer.
Send(kind) ==
  /\ Cardinality(requests) < MaxRequests
  /\ requests' = requests \cup {[kind |-> kind, step |-> "sent", text |-> page.buffer]}

------------------------------------------------------------------------------
(* The workspace on screen.                                                 *)

\* The page is rendered by the server with its draft, then looks for a local
\* copy.  The first render arms the local throttle.
OpenWorkspace ==
  /\ ~ page.shown /\ online /\ open
  /\ visits < MaxVisits
  /\ visits' = visits + 1
  /\ page' = [Away EXCEPT !.shown = TRUE, !.throttle = TRUE,
                          !.buffer = IF draft = NoText THEN 0 ELSE draft]
  /\ recovery' = [step |-> "choose", draft |-> draft]
  /\ stamps' = Renumbered([stamps EXCEPT !["edit"] = stamps["never"],
                                         !["read"] = stamps["draft"]])
  /\ UNCHANGED <<typed, open, draft, local, online, requests, outages>>

\* (Variant: the throttle effect does not depend on the buffer.)
TypedUnseen(text) == [page EXCEPT !.buffer = text]

Typed(text) == [page EXCEPT !.buffer = text, !.throttle = TRUE]

edit ==
  /\ enabled /\ ~ page.exiting
  /\ typed < MaxEdits
  /\ typed' = typed + 1
  /\ page' = Typed(typed + 1)
  /\ stamps' = Now("edit")
  /\ UNCHANGED <<open, draft, local, online, requests, recovery, visits, outages>>

\* The throttle timer writes what the buffer holds when it fires, locked or not.
WriteLocal ==
  /\ page.shown /\ page.throttle
  /\ page' = [page EXCEPT !.throttle = FALSE]
  /\ local' = page.buffer
  /\ stamps' = Now("local")
  /\ UNCHANGED <<typed, open, draft, online, requests, recovery, visits, outages>>

\* (Variant: any failure ends the autosave.)
StillSavesOnce == page.failure = "none"

StillSaves == page.failure # "closed"

save ==
  /\ enabled /\ StillSaves /\ ~ inFlight
  /\ Send("autosave")
  /\ UNCHANGED <<typed, open, draft, local, stamps, page, online, recovery,
                 visits, outages>>

confirmSubmit ==
  /\ enabled /\ ~ page.exiting
  /\ page' = [page EXCEPT !.lock = "submitting"]
  /\ Send("submit")
  /\ UNCHANGED <<typed, open, draft, local, stamps, online, recovery, visits, outages>>

\* Leaving under the RESUME policy waits for a save of its own.
confirmExit ==
  /\ enabled /\ ~ page.exiting
  /\ page' = [page EXCEPT !.exiting = TRUE]
  /\ Send("exit")
  /\ UNCHANGED <<typed, open, draft, local, stamps, online, recovery, visits, outages>>

\* What was sent goes on without the page, to be stored or not.
Orphaned(sent) ==
  {[r EXCEPT !.kind = IF @ \in {"submit", "lateSubmit"} THEN "lateSubmit" ELSE "orphan"]
     : r \in {q \in sent : q.step = "sent"}}

\* The tab crashes or is closed.  On the way out it writes both copies, as far
\* as the browser lets it.
ClosePage ==
  /\ page.shown
  /\ page' = Away
  /\ recovery' = NoRecovery
  /\ \/ /\ requests' = Orphaned(requests)
        /\ stamps' = Without({"edit", "read"})
        /\ local' = local
     \/ /\ enabled
        /\ local' = page.buffer
        /\ stamps' = Renumbered([Without({"edit", "read"}) EXCEPT
                                   !["local"] = Cardinality(Stamped)])
        /\ requests' = Orphaned(requests) \cup
             (IF ~ StillSaves \/ inFlight \/ ~ online THEN {}
              ELSE {[kind |-> "orphan", step |-> "sent", text |-> page.buffer]})
  /\ UNCHANGED <<typed, open, draft, online, visits, outages>>

------------------------------------------------------------------------------
(* The server.                                                              *)

\* The answer goes back to a page that waits for one.  Whether or not the
\* server has done what was asked, it may also be an error: it failed, timed
\* out behind its proxy, or no longer knows who asks.
Answered(r, served) ==
  \E answer \in {"failed"} \cup (IF ~ served THEN {}
                                 ELSE IF open THEN {"stored"} ELSE {"refused"}) :
    requests' = (requests \ {r}) \cup
      (IF r.kind \in Awaited THEN {[r EXCEPT !.step = answer]} ELSE {})

\* saveDraft: the draft is dated when it is stored, not when it was written.
saveDraft(r) ==
  /\ online
  /\ r.kind \notin {"submit", "lateSubmit"} /\ r.step = "sent"
  /\ \E served \in BOOLEAN :
       /\ draft' = IF served /\ open THEN r.text ELSE draft
       /\ stamps' = IF served /\ open THEN Now("draft") ELSE stamps
       /\ Answered(r, served)
  /\ UNCHANGED <<typed, open, local, page, online, recovery, visits, outages>>

submitAttempt(r) ==
  /\ online
  /\ r.kind \in {"submit", "lateSubmit"} /\ r.step = "sent"
  /\ \E served \in BOOLEAN :
       /\ open' = (open /\ ~ served)
       /\ Answered(r, served)
  /\ UNCHANGED <<typed, draft, local, stamps, page, online, recovery, visits, outages>>

\* The deadline or the end of the session closes the attempt with the draft
\* the server has.  A connected page that hears of it closes its editor, and
\* drops the local copy if the draft was handed in.
AutoSubmit ==
  /\ open
  /\ open' = FALSE
  /\ \/ /\ page.shown /\ online
        /\ page' = [page EXCEPT !.lock = "over"]
        /\ local' = IF draft = NoText THEN local ELSE NoText
     \/ UNCHANGED <<page, local>>
  /\ UNCHANGED <<typed, draft, stamps, online, requests, recovery, visits, outages>>

\* The attempt's state comes with every connection and every closing.
onAttemptState ==
  /\ page.shown /\ online /\ ~ open
  /\ page.lock # "over"
  /\ page' = [page EXCEPT !.lock = "over"]
  /\ UNCHANGED <<typed, open, draft, local, stamps, online, requests, recovery,
                 visits, outages>>

------------------------------------------------------------------------------
(* Answers.                                                                 *)

Retire(r) == requests' = requests \ {r}

\* What the outcome of a save means for the next one: whatever error answers
\* it is taken for a refusal.
describeSave(answer) ==
  CASE answer = "stored" -> "none"
    [] answer \in {"refused", "failed"} -> "closed"
    [] answer = "unanswered" -> "offline"

\* The autosave is answered: stored, or never to be tried again.
SaveAnswered(r) ==
  /\ online /\ r.kind = "autosave" /\ r.step # "sent"
  /\ Retire(r)
  /\ page' = [page EXCEPT !.failure = describeSave(r.step)]
  /\ UNCHANGED <<typed, open, draft, local, stamps, online, recovery, visits, outages>>

\* (Variant: a page that has submitted stays locked, whatever the answer.)
UnlockedNever == page

\* The editor opens again, and its effects run anew.
Unlocked == IF page.lock = "submitting" THEN [page EXCEPT !.lock = "no", !.throttle = TRUE]
            ELSE page

\* On success the browser's copy goes; any error is shown, and no more.
SubmitAnswered(r) ==
  /\ online /\ r.kind = "submit" /\ r.step # "sent"
  /\ Retire(r)
  /\ IF r.step = "stored"
     THEN page' = [page EXCEPT !.lock = "over"] /\ local' = NoText
     ELSE page' = Unlocked /\ local' = local
  /\ UNCHANGED <<typed, open, draft, stamps, online, recovery, visits, outages>>

\* The save made on leaving is answered; the Coder goes, or is told why not.
ExitAnswered(r) ==
  /\ online /\ r.kind = "exit" /\ r.step # "sent"
  /\ IF r.step = "stored"
     THEN /\ page' = Away
          /\ recovery' = NoRecovery
          /\ requests' = Orphaned(requests \ {r})
          /\ stamps' = Without({"edit", "read"})
     ELSE /\ page' = [page EXCEPT !.exiting = FALSE]
          /\ Retire(r)
          /\ UNCHANGED <<recovery, stamps>>
  /\ UNCHANGED <<typed, open, draft, local, online, visits, outages>>

\* Without a network the browser gives up, on a request that never arrived or
\* on the answer to one that did.
NetworkError(r) ==
  /\ ~ online
  /\ Retire(r)
  /\ page' = CASE r.kind = "autosave" -> [page EXCEPT !.failure = describeSave("unanswered")]
               [] r.kind = "exit" -> [page EXCEPT !.exiting = FALSE]
               [] r.kind = "submit" -> Unlocked
               [] OTHER -> page
  /\ UNCHANGED <<typed, open, draft, local, stamps, online, recovery, visits, outages>>

------------------------------------------------------------------------------
(* The connection and the recovery.                                         *)

Disconnect ==
  /\ online /\ outages < MaxOutages
  /\ online' = FALSE
  /\ outages' = outages + 1
  /\ page' = [page EXCEPT !.wasOffline = page.shown]
  /\ UNCHANGED <<typed, open, draft, local, stamps, requests, recovery, visits>>

\* The attempt is read again, for its draft and when that was saved.
Reconnect ==
  /\ ~ online
  /\ recovery.step # "choose"
  /\ online' = TRUE
  /\ page' = [page EXCEPT !.wasOffline = FALSE]
  /\ recovery' = IF page.wasOffline THEN [NoRecovery EXCEPT !.step = "fetch"]
                 ELSE recovery
  /\ UNCHANGED <<typed, open, draft, local, stamps, requests, visits, outages>>

\* GET of the attempt, with the draft and when it was saved.
FetchDraft ==
  /\ online /\ recovery.step = "fetch"
  /\ recovery' = [step |-> "choose", draft |-> draft]
  /\ stamps' = Copied("read", "draft")
  /\ UNCHANGED <<typed, open, draft, local, page, online, requests, visits, outages>>

\* Without a network, or because the server fails.
FetchFails ==
  /\ recovery.step = "fetch"
  /\ recovery' = NoRecovery
  /\ UNCHANGED <<typed, open, draft, local, stamps, page, online, requests, visits, outages>>

\* The buffer counts as the local copy when it was typed into since.  The
\* local copy is read in an instant, with the choice that follows.
Mine == IF Later("edit", IF local = NoText THEN "never" ELSE "local")
        THEN [text |-> page.buffer, at |-> "edit"]
        ELSE [text |-> local, at |-> "local"]

\* (Variant: two copies are compared before either is known to exist.)
NothingSavedIgnored == FALSE

NothingSaved == Mine.text = NoText /\ recovery.draft = NoText

chooseDraft ==
  CASE NothingSaved -> "NONE"
    [] Mine.text = NoText /\ recovery.draft # NoText -> "SERVER"
    [] Mine.text # NoText /\ recovery.draft = NoText -> "LOCAL"
    [] OTHER -> IF Mine.text = recovery.draft \/ Later("read", Mine.at)
                THEN "SERVER" ELSE "LOCAL"

\* The choice goes on screen, and to the server when it is the browser's.
reconcile ==
  LET text == IF chooseDraft = "LOCAL" THEN Mine.text ELSE recovery.draft IN
  /\ recovery.step = "choose"
  /\ recovery' = NoRecovery
  /\ IF chooseDraft = "NONE"
     THEN UNCHANGED page
     ELSE page' = [page EXCEPT !.buffer = text,
                               !.throttle = @ \/ (enabled /\ text # page.buffer)]
  /\ requests' = IF chooseDraft = "LOCAL"
                 THEN requests \cup {[kind |-> "restore", step |-> "sent", text |-> text]}
                 ELSE requests
  /\ stamps' = Without({"read"})
  /\ UNCHANGED <<typed, open, draft, local, online, visits, outages>>

------------------------------------------------------------------------------
Next ==
  \/ OpenWorkspace \/ edit \/ WriteLocal \/ save \/ confirmSubmit \/ confirmExit
  \/ ClosePage \/ AutoSubmit \/ onAttemptState
  \/ \E r \in requests :
       \/ saveDraft(r) \/ submitAttempt(r)
       \/ SaveAnswered(r) \/ SubmitAnswered(r) \/ ExitAnswered(r)
       \/ NetworkError(r)
  \/ Disconnect \/ Reconnect
  \/ FetchDraft \/ FetchFails \/ reconcile

\* The autosave's timer runs, and a network that works delivers what was sent,
\* and answers; the Coder, the deadline, the recovery and the network itself
\* promise nothing.  No request takes the timer away, but the bound on requests
\* does for a while.
Fairness ==
  /\ SF_vars(save)
  /\ \A kind \in Kinds :
       WF_vars(\E r \in requests : r.kind = kind /\ (saveDraft(r) \/ submitAttempt(r)))
  /\ \A kind \in Awaited :
       WF_vars(\E r \in requests :
                 r.kind = kind /\ (SaveAnswered(r) \/ SubmitAnswered(r) \/ ExitAnswered(r)))

Spec == Init /\ [][Next]_vars /\ Fairness

------------------------------------------------------------------------------
TypeOK ==
  /\ typed \in Nat
  /\ open \in BOOLEAN /\ online \in BOOLEAN
  /\ draft \in Maybe /\ local \in Maybe
  /\ stamps \in [Stamped -> Nat]
  /\ page \in [shown : BOOLEAN, buffer : Texts,
               lock : {"no", "submitting", "over"},
               failure : {"none", "offline", "closed"},
               throttle : BOOLEAN, exiting : BOOLEAN, wasOffline : BOOLEAN]
  /\ requests \subseteq Request
  /\ recovery \in Recovery
  /\ visits \in Nat /\ outages \in Nat

\* Whatever is typed or restored while the editor accepts work is in the
\* browser's own copy, or a timer is armed that will put it there: the local
\* copy is "written on every change" (local-draft.ts; the throttle effect of
\* use-attempt-draft.ts).
LocalCopyFollows == enabled /\ local # page.buffer => page.throttle

\* No Coder is locked out of an attempt that still accepts work: the editor is
\* closed while a Submit is on its way, and for good only when the attempt is
\* over -- whatever answers the Submit, overtakes it or never comes
\* (use-attempt-submission.ts:134-147, attempt-workspace.tsx:143-146).
LockedForAReason ==
  /\ page.lock = "submitting" => \E r \in requests : r.kind = "submit"
  /\ page.lock = "over" => ~ open

\* A Coder who stays on a working connection and stops typing has, in the
\* end, the buffer on the server, where the auto-submit will find it --
\* whatever was lost, restored or late before, and whatever failed but a save
\* of this page's (use-attempt-draft.ts:69-134).
Undisturbed ==
  page.shown /\ online /\ open /\ page.lock = "no" /\ page.failure # "closed"
AutosaveCatchesUp == <>[]Undisturbed => <>[](draft = page.buffer)

(* What the comments promise and the code does not keep.                    *)

\* "`closed` means it reached the server and was refused -- the attempt is
\* submitted, expired, or its session has ended" (use-attempt-draft.ts:39-41):
\* any other error that is answered, a 500 or a proxy's 502 on an open attempt,
\* stops the autosave too.
StopsOnlyWhenClosed == page.failure = "closed" => ~ open

\* "Nothing the Coder typed is ever silently discarded.  Where the local copy
\* and the server's disagree, the local one wins" (attempt-workspace.tsx): the
\* editor is never put back to an older text than it shows.
NothingTypedIsDiscarded ==
  [][page.shown /\ page'.shown => page'.buffer >= page.buffer]_vars

\* A local copy is dropped with the attempt, "so a shared lab machine does not
\* keep one Coder's source" (local-draft.ts).
NoCopyLeftBehind ==
  page.shown /\ page.lock = "over" /\ ~ page.throttle /\ requests = {} => local = NoText
==============================================================================
