------------------------------ MODULE Sessions ------------------------------
(***************************************************************************)
(* The session of one operator in the tabs of a browser.  Every page keeps *)
(* its own idle time and reports activity at most every WriteGap; the      *)
(* cloud keeps the time of the last activity it heard of and refuses       *)
(* requests after IdleLimit; the tabs share one Supabase session.          *)
(*                                                                         *)
(* Times are ages, which stop to grow where they make no difference any    *)
(* more.  A tick is two minutes, and every request is answered within one: *)
(* the answer to a request is known to its page when the cloud has handled *)
(* it, except that acting on a refusal takes a step of its own.  The idle  *)
(* limits of the page (30 minutes) and of the cloud's default are equal.   *)
(***************************************************************************)
EXTENDS Access

CONSTANTS
  Me,         \* the operator whose browser it is
  Tabs,
  IdleLimit,  \* USER_IDLE_MS and user_session_idle_timeout_minutes
  WriteGap,   \* the two minutes of recordMeaningfulActivity
  MaxFaults   \* bound on requests that fail for another reason

ASSUME SessionsAssumption ==
  /\ Me \in Operators
  /\ IdleLimit \in Nat /\ WriteGap \in 1..IdleLimit
  /\ MaxFaults \in Nat

VARIABLES
  activity,  \* age of last_user_activity_at, or Never
  signedIn,  \* the browser's storage has a Supabase session
  tab,       \* the tabs
  faults,    \* requests that failed so far
  excused    \* since the sign-in there was a reason to be signed out
             \* (history)

sessionVars == <<activity, signedIn, tab, faults, excused>>
allVars == <<accessVars, sessionVars>>

Never == IdleLimit + 1

(* "app" stands for every page that initProtectedPage guards.              *)
Pages == {"login", "app", "waiting", "unauthorized"}

Blank(page) == [page |-> page, stage |-> "idle", idle |-> 0,
                wrote |-> WriteGap, beat |-> "none", call |-> "none"]

Tab == [page  : Pages,
        stage : {"idle", "register", "me", "refused"},  \* ensureProfile
        idle  : 0..IdleLimit,          \* age of lastUserInteractionAt
        wrote : 0..WriteGap,           \* age of lastActivityWriteAt
        beat  : {"none", "sent", "refused"},  \* POST session/activity
        call  : {"none", "sent", "refused"}]  \* a request of the page

SessionsTypeOK ==
  /\ AccessTypeOK
  /\ activity \in 0..Never
  /\ signedIn \in BOOLEAN /\ excused \in BOOLEAN
  /\ tab \in [Tabs -> Tab]
  /\ faults \in 0..MaxFaults

SessionsInit ==
  /\ activity = Never /\ signedIn = FALSE
  /\ tab = [t \in Tabs |-> Blank("login")]
  /\ faults = 0 /\ excused = TRUE

Guarded(t) == tab[t].page = "app"

Quiet(t) == tab[t].stage = "idle" /\ tab[t].beat = "none"
              /\ tab[t].call = "none"

Expired == activity = IdleLimit

(* A page is left, and with it what it waited for.                         *)
Go(t, page) == tab' = [tab EXCEPT ![t] = Blank(page)]

SignOut(t) == signedIn' = FALSE /\ Go(t, "login")

-----------------------------------------------------------------------------
(* What the user does.                                                     *)

(* The submit handler of initLogin: signInWithPassword has succeeded.      *)
SignIn(t) ==
  /\ tab[t].page = "login" /\ tab[t].stage = "idle"
  /\ signedIn' = TRUE
  /\ tab' = [tab EXCEPT ![t].stage = "register"]
  /\ excused' = (~MayWork(Me) \/ \E other \in Tabs \ {t} :
                    Guarded(other) \/ ~Quiet(other))
  /\ UNCHANGED <<accessVars, activity, faults>>

(* initProtectedPage, with startIdleGuard.                                 *)
OpenPage(t) ==
  /\ Quiet(t)
  /\ IF signedIn
       THEN tab' = [tab EXCEPT ![t] =
                      [Blank("app") EXCEPT !.stage = "register",
                                           !.wrote = 0, !.beat = "sent"]]
       ELSE Go(t, "login")
  /\ UNCHANGED <<accessVars, activity, signedIn, faults, excused>>

RecordedEachTime(tb) ==
  IF tb.idle < WriteGap THEN [tb EXCEPT !.idle = 0]
  ELSE [tb EXCEPT !.idle = 0, !.wrote = 0, !.beat = "sent"]

(* recordMeaningfulActivity.                                               *)
Recorded(tb) ==
  IF tb.wrote < WriteGap THEN [tb EXCEPT !.idle = 0]
  ELSE [tb EXCEPT !.idle = 0, !.wrote = 0, !.beat = "sent"]

(* A click or a key, which may start a request as well; getSession finds   *)
(* out when another tab has signed out.                                    *)
Touch(t) ==
  /\ Guarded(t) /\ Quiet(t)
  /\ \E asks \in BOOLEAN :
       LET touched == Recorded(tab[t]) IN
       IF ~signedIn /\ (asks \/ touched.beat = "sent") THEN Go(t, "login")
       ELSE tab' = [tab EXCEPT ![t] =
              [touched EXCEPT !.call = IF asks THEN "sent" ELSE "none"]]
  /\ UNCHANGED <<accessVars, activity, signedIn, faults, excused>>

Logout(t) ==
  /\ tab[t].page # "login" /\ Quiet(t)
  /\ SignOut(t)
  /\ excused' = TRUE
  /\ UNCHANGED <<accessVars, activity, faults>>

-----------------------------------------------------------------------------
(* What the page does.                                                     *)

(* The timers that refresh what a page shows.                              *)
Refresh(t) ==
  /\ Guarded(t) /\ Quiet(t)
  /\ IF signedIn THEN tab' = [tab EXCEPT ![t].call = "sent"]
                 ELSE Go(t, "login")
  /\ UNCHANGED <<accessVars, activity, signedIn, faults, excused>>

(* The timer of startIdleGuard, and the return to a hidden page.           *)
IdleCheck(t) ==
  /\ Guarded(t) /\ tab[t].idle = IdleLimit
  /\ SignOut(t)
  /\ UNCHANGED <<accessVars, activity, faults, excused>>

(* authenticatedResponse on a 401.                                         *)
Refused(t) ==
  /\ "refused" \in {tab[t].stage, tab[t].beat, tab[t].call}
  /\ SignOut(t)
  /\ UNCHANGED <<accessVars, activity, faults, excused>>

-----------------------------------------------------------------------------
(* What the cloud does.                                                    *)

(* A profile is registered; that of an active operator is active now.      *)
RegisterHandled(t) ==
  /\ tab[t].stage = "register"
  /\ Registered(Me)
  /\ activity' = IF account[Me].status = "active" THEN 0 ELSE activity
  /\ tab' = [tab EXCEPT ![t].stage = "me"]
  /\ UNCHANGED <<inviting, grantVars, edits, signedIn, faults, excused>>

(* The first request of an account starts its idle time.                   *)
Seen == IF activity = Never THEN 0 ELSE activity

(* require_known_user_auth, and redirectForRole on the answer.             *)
PageFor ==
  IF account[Me].status = "disabled" THEN "unauthorized"
  ELSE IF MayWork(Me) THEN "app" ELSE "waiting"

MeHandled(t) ==
  /\ tab[t].stage = "me"
  /\ activity' = Seen
  /\ IF Expired THEN tab' = [tab EXCEPT ![t].stage = "refused"]
     ELSE IF PageFor = "app" /\ Guarded(t)
          THEN tab' = [tab EXCEPT ![t].stage = "idle"]
     ELSE IF PageFor = "app"   \* the app is loaded from the login page
          THEN tab' = [tab EXCEPT ![t] =
                         [Blank("app") EXCEPT !.stage = "register",
                                              !.wrote = 0, !.beat = "sent"]]
          ELSE Go(t, PageFor)
  /\ UNCHANGED <<accessVars, signedIn, faults, excused>>

(* record_user_activity does not ask how old the last activity is.         *)
BeatHandled(t) ==
  /\ tab[t].beat = "sent"
  /\ IF account[Me].status = "active"
       THEN activity' = 0 /\ tab' = [tab EXCEPT ![t].beat = "none"]
       ELSE UNCHANGED activity /\ tab' = [tab EXCEPT ![t].beat = "refused"]
  /\ UNCHANGED <<accessVars, signedIn, faults, excused>>

CallHandledAsActivity(t) ==
  /\ tab[t].call = "sent"
  /\ activity' = IF MayWork(Me) THEN Seen ELSE activity
  /\ tab' = [tab EXCEPT ![t].idle = 0, ![t].call =
               IF MayWork(Me) /\ ~Expired THEN "none" ELSE "refused"]
  /\ UNCHANGED <<accessVars, signedIn, faults, excused>>

(* require_operator_auth.                                                  *)
CallHandled(t) ==
  /\ tab[t].call = "sent"
  /\ activity' = IF MayWork(Me) THEN Seen ELSE activity
  /\ tab' = [tab EXCEPT ![t].call =
               IF MayWork(Me) /\ ~Expired THEN "none" ELSE "refused"]
  /\ UNCHANGED <<accessVars, signedIn, faults, excused>>

(* A request fails otherwise: a record of activity is not repeated, and a  *)
(* page whose profile could not be read stays as it is.                    *)
RequestFails(t) ==
  /\ faults < MaxFaults /\ faults' = faults + 1
  /\ \/ tab[t].beat = "sent" /\ tab' = [tab EXCEPT ![t].beat = "none"]
     \/ tab[t].stage \in {"register", "me"}
          /\ tab' = [tab EXCEPT ![t].stage = "idle"]
  /\ excused' = TRUE
  /\ UNCHANGED <<accessVars, activity, signedIn>>

(* An administrator changes the account.                                   *)
Administer(status, role) ==
  /\ Upsert(Me, status, role)
  /\ excused' = (excused \/ status # "active" \/ role = "pending")
  /\ UNCHANGED <<activity, signedIn, tab, faults>>

(* A page is left alone for too long when the cloud, which may have missed *)
(* the last activities of a gap, reaches its limit before the page does.   *)
Lapses(tb) == tb.page = "app" /\ tb.idle > IdleLimit - WriteGap

Aged(age, limit) == IF age < limit THEN age + 1 ELSE age

Tick ==
  /\ \A t \in Tabs : Quiet(t)
  /\ activity' = IF activity = Never THEN Never ELSE Aged(activity, IdleLimit)
  /\ tab' = [t \in Tabs |->
       IF Guarded(t)
       THEN [tab[t] EXCEPT !.idle = Aged(@, IdleLimit),
                           !.wrote = Aged(@, WriteGap)]
       ELSE tab[t]]
  /\ excused' = (excused \/ \E t \in Tabs : Lapses(tab'[t]))
  /\ UNCHANGED <<accessVars, signedIn, faults>>

-----------------------------------------------------------------------------
UserActs(t) == SignIn(t) \/ OpenPage(t) \/ Touch(t) \/ Logout(t)

Handled(t) ==
  RegisterHandled(t) \/ MeHandled(t) \/ BeatHandled(t) \/ CallHandled(t)

SessionsNext ==
  \/ \E t \in Tabs : \/ UserActs(t) \/ Refresh(t) \/ IdleCheck(t)
                     \/ Refused(t) \/ Handled(t) \/ RequestFails(t)
  \/ \E status \in Statuses, role \in Roles : Administer(status, role)
  \/ Tick

(* Requests are answered, browsers run timers, and time passes, as there   *)
(* are always moments later at which no request is under way.              *)
SessionsFairness ==
  /\ \A t \in Tabs : /\ WF_allVars(Handled(t)) /\ WF_allVars(Refused(t))
                     /\ WF_allVars(IdleCheck(t))
  /\ []<>(\A t \in Tabs : Quiet(t))
  /\ SF_allVars(Tick)

SessionsSpec ==
  /\ AccessInit /\ SessionsInit /\ [][SessionsNext]_allVars
  /\ SessionsFairness

-----------------------------------------------------------------------------
(* An operator who uses every page they have open, with no pause that is   *)
(* longer than the limit less the gap between two records, is not signed   *)
(* out: neither by the page, nor by the cloud, whose record is older.      *)
ActiveStays ==
  [][signedIn /\ ~signedIn' =>
       excused \/ \E t \in Tabs : Logout(t)]_allVars

(* A page that nobody touches any more is left in the end, whatever it     *)
(* refreshes by itself and whatever becomes of its requests.               *)
IdlePageIsLeft ==
  \A t \in Tabs :
    <>[][~UserActs(t)]_allVars => <>[]~Guarded(t)

(* Both are not the case for pages that are only in use together, and for  *)
(* accounts that wait for their approval.                                  *)
UsedTogether == \E t \in Tabs : tab[t].page = "app" /\ ~Lapses(tab[t])

ActiveAnywhereStays ==
  [][signedIn /\ ~signedIn' /\ MayWork(Me) =>
       ~UsedTogether \/ \E t \in Tabs : Logout(t)]_allVars

WaitingIsTold ==
  \A t \in Tabs : tab[t].stage = "refused" => account[Me].status # "pending"
=============================================================================
