---------------------------- MODULE FormalAttempt ----------------------------
(***************************************************************************)
(* What an assessment promises each Coder, with no handlers, locks, clocks *)
(* or queues in sight: a record of numbered attempts of which only the     *)
(* last is alive, one answer handed in per attempt at most, and at most    *)
(* one attempt that counts.  AttemptLifecycle is shown to implement it.    *)
(***************************************************************************)
EXTENDS Integers, Sequences

CONSTANTS Coders, Sources, NoAttempt, MaxAttempts

VARIABLES
  standing,   \* of each attempt
  answers,    \* what was handed in for it
  official    \* the attempt that counts for each Coder, or NoAttempt

vars == <<standing, answers, official>>

Attempts == Coders \X (1..MaxAttempts)

Init ==
  /\ standing = [a \in Attempts |-> "none"]
  /\ answers = [a \in Attempts |-> <<>>]
  /\ official = [c \in Coders |-> NoAttempt]

\* The first attempt of a record comes into being, begun or already lapsed,
\* and counts.
First(c, how) ==
  /\ standing[<<c, 1>>] = "none" /\ official[c] = NoAttempt
  /\ standing' = [standing EXCEPT ![<<c, 1>>] = how]
  /\ official' = [official EXCEPT ![c] = <<c, 1>>]
  /\ UNCHANGED answers

Begin(a) ==
  /\ standing[a] = "waiting"
  /\ standing' = [standing EXCEPT ![a] = "open"]
  /\ UNCHANGED <<answers, official>>

\* An answer handed in may count only when no other attempt of the record does.
\* It need not: the Architect may be taking the mark off another attempt at
\* that moment, as if just after.
HandIn(a, s) ==
  /\ standing[a] = "open" /\ answers[a] = <<>>
  /\ standing' = [standing EXCEPT ![a] = "handedIn"]
  /\ answers' = [answers EXCEPT ![a] = <<s>>]
  /\ \/ UNCHANGED official
     \/ official[a[1]] = NoAttempt /\ official' = [official EXCEPT ![a[1]] = a]

Lapse(a) ==
  /\ standing[a] = "open"
  /\ standing' = [standing EXCEPT ![a] = "lapsed"]
  /\ UNCHANGED <<answers, official>>

\* The latest attempt is voided, its answer kept, and the next one waits;
\* nothing counts until an answer is handed in or the Architect chooses.
Retake(c, n) ==
  /\ standing[<<c, n>>] \notin {"none", "void"}
  /\ standing[<<c, n + 1>>] = "none"
  /\ standing' = [standing EXCEPT ![<<c, n>>] = "void", ![<<c, n + 1>>] = "waiting"]
  /\ official' = [official EXCEPT ![c] = NoAttempt]
  /\ UNCHANGED answers

\* The Architect's choice of the attempt that counts, or of none.
Choose(c, a) ==
  /\ a # NoAttempt => a[1] = c /\ standing[a] # "none"
  /\ official' = [official EXCEPT ![c] = a]
  /\ UNCHANGED <<standing, answers>>

Next ==
  \/ \E c \in Coders, how \in {"open", "lapsed"} : First(c, how)
  \/ \E a \in Attempts : Begin(a) \/ Lapse(a) \/ \E s \in Sources : HandIn(a, s)
  \/ \E c \in Coders, n \in 1..(MaxAttempts - 1) : Retake(c, n)
  \/ \E c \in Coders, a \in Attempts \cup {NoAttempt} : Choose(c, a)

Spec == Init /\ [][Next]_vars
==============================================================================
