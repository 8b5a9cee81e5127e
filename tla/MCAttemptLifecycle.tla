-------------------------- MODULE MCAttemptLifecycle --------------------------
(* AttemptLifecycle on small instances: one Coder with two tabs, and one who *)
(* is listed and never opens the page.                                       *)
EXTENDS AttemptLifecycle, TLC

CONSTANTS alice, bob, tab1, tab2

TwoTabs == tab1 :> alice @@ tab2 :> alice
OneTab == tab1 :> alice

Kind(m, c) == [mode |-> m, closes |-> c]
Timed == {Kind("LIVE", TRUE), Kind("INDIVIDUAL", TRUE)}
EveryKind == {Kind("LIVE", TRUE), Kind("INDIVIDUAL", TRUE), Kind("INDIVIDUAL", FALSE),
              Kind("UNTIMED", TRUE), Kind("UNTIMED", FALSE)}

\* The two tabs are alike: both are alice's.
SameTabs == Permutations({tab1, tab2})

\* No guard and no property of these runs reads the clock or the draft of an
\* attempt that is not open, and a draft is only ever written over: two states
\* that differ in nothing else have the same future.
OpenView ==
  <<session, subs, jobs, req, closing, crashes,
    [a \in AttemptIds |->
       [row |-> IF Open(a) THEN attempts[a] ELSE [attempts[a] EXCEPT !.clock = "running"],
        draft |-> IF attempts[a].status \in Closed THEN NoSource ELSE draft[a]]]>>
===============================================================================
