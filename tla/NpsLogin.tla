------------------------------ MODULE NpsLogin ------------------------------
(***************************************************************************)
(* The sign-in of the NPS console, web/controllers/login.go: failures are  *)
(* counted by address, in a record that every browser behind the address   *)
(* shares; at the limit nobody there is let in, until a time has passed    *)
(* since the last failure that was counted.  The record is looked at       *)
(* before the password is, and changed after.                              *)
(***************************************************************************)
EXTENDS Naturals, FiniteSets

CONSTANTS
  Browser,    \* browsers behind one address
  MaxFails,   \* the failures that lock the address; ten in the code
  Period      \* how long the lock lasts; sixty seconds in the code

ASSUME LoginAssumption ==
  IsFiniteSet(Browser) /\ MaxFails \in Nat \ {0} /\ Period \in Nat

VARIABLES
  ipRecord,   \* [there, times, age]: the address's record, age up to Period
  session,    \* of each browser: [auth, isAdmin, client]
  attempt,    \* of each browser: the sign-in under way
  wrong       \* how many wrong passwords each browser will still try

loginVars == <<ipRecord, session, attempt, wrong>>

NoRecord == [there |-> FALSE, times |-> 0, age |-> 0]
NoAttempt == [at |-> "none", as |-> "nobody", explicit |-> TRUE]

\* A scene: how many wrong passwords there are to come, and the browsers that are
\* signed in as client 1.
NoLogin == [wrong |-> [b \in Browser |-> 0], in |-> Browser]

LoginInit(s) ==
  /\ wrong = s.wrong /\ ipRecord = NoRecord
  /\ session = [b \in Browser |-> [auth |-> b \in s.in, isAdmin |-> FALSE,
                                  client |-> IF b \in s.in THEN 1 ELSE 0]]
  /\ attempt = [b \in Browser |-> NoAttempt]

\* A browser opens the page, which signs in with no name and no password, or
\* sends the form: as the administrator, as client 1, or with a wrong password.
Submit(b, as, explicit) ==
  /\ attempt[b].at = "none" /\ ~session[b].auth
  /\ as = "nobody" => wrong[b] > 0
  /\ wrong' = IF as = "nobody" THEN [wrong EXCEPT ![b] = @ - 1] ELSE wrong
  /\ attempt' = [attempt EXCEPT ![b] = [at |-> "look", as |-> as, explicit |-> explicit]]
  /\ UNCHANGED <<ipRecord, session>>

\* doLogin looks at the record: an old one starts again, a full one is a refusal
\* that is not counted.
Expired == ipRecord.age >= Period
\* Mutant: a refusal counts as a failure.
doLoginLookCounted(b) ==
  /\ attempt[b].at = "look"
  /\ LET r == IF ipRecord.there /\ Expired THEN [ipRecord EXCEPT !.times = 0] ELSE ipRecord
     IN IF r.times >= MaxFails
        THEN /\ ipRecord' = [r EXCEPT !.age = 0]
             /\ attempt' = [attempt EXCEPT ![b] = NoAttempt]
        ELSE /\ ipRecord' = r /\ attempt' = [attempt EXCEPT ![b].at = "decide"]
  /\ UNCHANGED <<session, wrong>>
doLoginLook(b) ==
  /\ attempt[b].at = "look"
  /\ LET r == IF ipRecord.there /\ Expired THEN [ipRecord EXCEPT !.times = 0] ELSE ipRecord
     IN /\ ipRecord' = r
        /\ attempt' = [attempt EXCEPT ![b] =
                         IF r.times >= MaxFails THEN NoAttempt ELSE [@ EXCEPT !.at = "decide"]]
  /\ UNCHANGED <<session, wrong>>

\* It compares the passwords, sets up the session and forgets the record, or
\* counts the failure; a first one counts even if it was the page's own.
\* Two that count at once may count as one.
Fail(explicit, counted) ==
  IF ~ipRecord.there THEN [there |-> TRUE, times |-> 1, age |-> 0]
  ELSE IF explicit THEN [ipRecord EXCEPT !.times = @ + counted, !.age = 0]
  ELSE ipRecord
Counted(b) == IF \E c \in Browser \ {b} : attempt[c].at = "decide" THEN {0, 1} ELSE {1}
\* The administrator's session loses the client it may have been another time.
SignedIn(sess, as) ==
  IF as = "admin" THEN [sess EXCEPT !.auth = TRUE, !.isAdmin = TRUE, !.client = 0]
  ELSE [sess EXCEPT !.auth = TRUE, !.isAdmin = FALSE, !.client = 1]
doLogin(b) ==
  /\ attempt[b].at = "decide" /\ attempt' = [attempt EXCEPT ![b] = NoAttempt]
  /\ IF attempt[b].as = "nobody"
     THEN /\ ipRecord' \in {Fail(attempt[b].explicit, n) : n \in Counted(b)}
          /\ UNCHANGED session
     ELSE /\ ipRecord' = NoRecord
          /\ session' = [session EXCEPT ![b] = SignedIn(@, attempt[b].as)]
  /\ UNCHANGED wrong

\* Out leaves the rest of the session as it is.
Out(b) ==
  /\ session[b].auth /\ wrong[b] > 0
  /\ session' = [session EXCEPT ![b].auth = FALSE]
  /\ UNCHANGED <<ipRecord, attempt, wrong>>

\* clearIprecord, with which one sign-in in a hundred starts.
clearIprecord ==
  /\ ipRecord.there /\ Expired /\ ipRecord' = NoRecord
  /\ UNCHANGED <<session, attempt, wrong>>

Tick ==
  /\ ipRecord.there /\ ipRecord.age < Period
  /\ ipRecord' = [ipRecord EXCEPT !.age = @ + 1]
  /\ UNCHANGED <<session, attempt, wrong>>

Right(b) == \E as \in {"admin", "client"} : Submit(b, as, TRUE)
LoginStep(b) == doLoginLook(b) \/ doLogin(b)
LoginNext ==
  \/ \E b \in Browser : Right(b) \/ Submit(b, "nobody", TRUE) \/ Submit(b, "nobody", FALSE)
                          \/ LoginStep(b) \/ Out(b)
  \/ clearIprecord \/ Tick
LoginFair ==
  /\ WF_loginVars(Tick)
  /\ \A b \in Browser : WF_loginVars(LoginStep(b)) /\ WF_loginVars(Right(b))

-----------------------------------------------------------------------------
\* Type invariant: the record counts up to the limit, and beyond it only what was
\* under way when it was reached.
LoginTypeOK ==
  /\ ipRecord.times <= MaxFails + Cardinality(Browser) - 1
  /\ ipRecord.age <= Period
  /\ ~ipRecord.there => ipRecord = NoRecord

\* A refusal does not prolong itself: who has the right password and keeps trying
\* gets in (login.go, doLogin).
GetsIn == \A b \in Browser : []<>session[b].auth

\* A signed-in browser is who it signed in as: no administrator carries a client,
\* and no client is an administrator.
OneIdentity == \A b \in Browser : session[b].auth => (session[b].isAdmin <=> session[b].client = 0)

\* Who is signed in is one person, and who is counted was refused.
SignInSound == LoginTypeOK /\ OneIdentity
=============================================================================
