------------------------------- MODULE Session -------------------------------
(***************************************************************************)
(* Signing up, logging in and out, and what outlives the session that      *)
(* started it (loginViewController, signupViewController, ViewController,  *)
(* TableFormViewController), against Firebase Auth and Storage.            *)
(*                                                                         *)
(* Auth works on a queue of its own: an answer from the backend changes    *)
(* the current user there, and then posts the completion to the main       *)
(* queue.  Handlers run on the main queue, and so do the completions of    *)
(* Firestore and Storage, which ask for the current user again, whoever    *)
(* that is by then, and unwrap it.                                         *)
(***************************************************************************)
EXTENDS Naturals, Sequences

CONSTANTS Users,    \* the e-mail addresses, and the uids of their accounts
          NoUser,   \* nobody is signed in
          MaxTaps,  \* bound: taps on Login and Sign Up
          MaxTasks  \* bound: requests to Firestore and Storage from a map

ASSUME NoUserAssumption == NoUser \notin Users
ASSUME BoundsAssumption == MaxTaps \in Nat /\ MaxTasks \in Nat

VARIABLES
  accounts, \* the accounts that exist
  profiles, \* profiles[u]: how many documents "users" has for account u
  user,     \* Auth.auth().currentUser, which the keychain keeps
  screen,   \* what the window shows; "crashed" when the application aborted
  owner,    \* history: for whom the map was opened
  expelled, \* history: Auth has signed the last user out by force
  requests, \* requests[r]: the r-th tap on Login or Sign Up
  mainQ,    \* completions of those requests on their way to the main queue
  tasks,    \* tasks[t]: the t-th request made from a map
  images,   \* the users u for whom Storage holds images/u.png
  stored,   \* history: the users for whom an image was ever stored
  photos,   \* the documents of the collection "Photos"
  crossed,  \* history: who signed in while another's download URL was fetched
  wiped     \* history: who has confirmed the delete of a table

authVars  == <<accounts, profiles, user, owner, expelled, requests, mainQ>>
photoVars == <<tasks, images, stored, photos, crossed, wiped>>
vars == <<authVars, screen, photoVars>>

\* live: the screen that was tapped is still in the window.
Request == [do : {"login", "signup"}, who : Users, live : BOOLEAN,
            state : {"sent", "accepted", "refused", "over"}]
Task == [do : {"load", "put", "stored", "url", "found", "wipe", "over"}, as : Users]

Forms == {"login", "signup"}

----------------------------------------------------------------------------
(* Screens.                                                                *)

Abandon(rs) == [r \in DOMAIN rs |-> [rs[r] EXCEPT !.live = FALSE]]

Show(f) ==
  /\ screen = "welcome" /\ f \in Forms
  /\ screen' = f
  /\ UNCHANGED <<authVars, photoVars>>

Back ==
  /\ screen \in Forms
  /\ screen' = "welcome"
  /\ requests' = Abandon(requests)
  /\ UNCHANGED <<accounts, profiles, user, owner, expelled, mainQ, photoVars>>

Tap(do, u) ==
  /\ screen = do
  /\ Len(requests) < MaxTaps
  /\ requests' = Append(requests, [do |-> do, who |-> u, live |-> TRUE, state |-> "sent"])
  /\ UNCHANGED <<accounts, profiles, user, owner, expelled, mainQ, screen, photoVars>>

loginTapped(u) == Tap("login", u)

\* With valid fields; invalid ones show a message and change nothing.
signUpTapped(u) == Tap("signup", u)

----------------------------------------------------------------------------
(* Auth's queue.                                                           *)

\* Mutant of Decorated: the user is left as it was.
DecoratedOnly(r, ok) ==
  /\ requests' = [requests EXCEPT ![r].state = IF ok THEN "accepted" ELSE "refused"]
  /\ mainQ' = Append(mainQ, r)
  /\ UNCHANGED <<user, expelled, crossed>>

\* Mutant of Decorated: only success is reported.
DecoratedSuccess(r, ok) ==
  /\ requests' = [requests EXCEPT ![r].state = IF ok THEN "accepted" ELSE "refused"]
  /\ mainQ' = IF ok THEN Append(mainQ, r) ELSE mainQ
  /\ user' = IF ok THEN requests[r].who ELSE user
  /\ UNCHANGED <<expelled, crossed>>

\* signInFlowAuthDataResultCallbackByDecoratingCallback: update the current
\* user, then post the completion.
Decorated(r, ok) ==
  /\ requests' = [requests EXCEPT ![r].state = IF ok THEN "accepted" ELSE "refused"]
  /\ mainQ' = Append(mainQ, r)
  /\ user' = IF ok THEN requests[r].who ELSE user
  /\ expelled' = (expelled /\ ~ok)
  /\ crossed' = IF ok /\ \E t \in DOMAIN tasks : /\ tasks[t].do \in {"url", "found"}
                                                 /\ tasks[t].as # requests[r].who
                THEN crossed \cup {requests[r].who} ELSE crossed

LoginAnswered(r, ok) ==
  /\ requests[r].do = "login" /\ requests[r].state = "sent"
  /\ ok => requests[r].who \in accounts
  /\ Decorated(r, ok)
  /\ UNCHANGED <<accounts, profiles, owner, screen, tasks, images, stored, photos, wiped>>

\* The account may have been created although its answer is lost, or although
\* the keychain cannot keep the user.
SignUpAnswered(r, ok) ==
  /\ requests[r].do = "signup" /\ requests[r].state = "sent"
  /\ ok => requests[r].who \notin accounts
  /\ \E made \in BOOLEAN : accounts' = IF made \/ ok THEN accounts \cup {requests[r].who}
                                       ELSE accounts
  /\ Decorated(r, ok)
  /\ UNCHANGED <<profiles, owner, screen, tasks, images, stored, photos, wiped>>

\* A token is refused for good: signOutByForce.
Expel ==
  /\ user # NoUser /\ screen # "crashed"
  /\ user' = NoUser
  /\ expelled' = TRUE
  /\ UNCHANGED <<accounts, profiles, owner, requests, mainQ, screen, photoVars>>

----------------------------------------------------------------------------
(* The completions of Login and Sign Up, in the order they were posted.    *)

\* The map becomes the root of the window the form is in.  A form that has left
\* its window opens no map, and the map's outlet is unwrapped all the same.
TransitionToMap(r) ==
  /\ screen' = IF requests[r].live THEN "map" ELSE "crashed"
  /\ owner' = requests[r].who
  /\ requests' = [Abandon(requests) EXCEPT ![r].state = "over"]

loginCompleted ==
  /\ mainQ # <<>> /\ requests[Head(mainQ)].do = "login" /\ screen # "crashed"
  /\ mainQ' = Tail(mainQ)
  /\ LET r == Head(mainQ)
     IN  IF requests[r].state = "accepted"
           THEN TransitionToMap(r)
           ELSE /\ requests' = [requests EXCEPT ![r].state = "over"]
                /\ UNCHANGED <<screen, owner>>
  /\ UNCHANGED <<accounts, profiles, user, expelled, photoVars>>

\* Mutant of signUpCompleted: the profile is written whether or not there is a
\* result.
signUpCompletedAnyway ==
  /\ mainQ # <<>> /\ requests[Head(mainQ)].do = "signup" /\ screen # "crashed"
  /\ mainQ' = Tail(mainQ)
  /\ profiles' = [profiles EXCEPT ![requests[Head(mainQ)].who] = @ + 1]
  /\ TransitionToMap(Head(mainQ))
  /\ UNCHANGED <<accounts, user, expelled, photoVars>>

\* The profile is written, then the screen changes.  After a failure the missing
\* result is unwrapped.  What was enqueued just before a crash may be lost.
signUpCompleted ==
  /\ mainQ # <<>> /\ requests[Head(mainQ)].do = "signup" /\ screen # "crashed"
  /\ mainQ' = Tail(mainQ)
  /\ LET r == Head(mainQ)
     IN  IF requests[r].state = "accepted"
           THEN /\ \E kept \in BOOLEAN :
                     /\ kept \/ ~requests[r].live
                     /\ profiles' = [profiles EXCEPT ![requests[r].who] =
                                       IF kept THEN @ + 1 ELSE @]
                /\ TransitionToMap(r)
           ELSE /\ screen' = "crashed"
                /\ requests' = [requests EXCEPT ![r].state = "over"]
                /\ UNCHANGED <<profiles, owner>>
  /\ UNCHANGED <<accounts, user, expelled, photoVars>>

----------------------------------------------------------------------------
(* The map and the form over it.                                           *)

\* The welcome screen replaces the map even when the keychain keeps the user.
logout(ok) ==
  /\ screen = "map"
  /\ user' = IF ok THEN NoUser ELSE user
  /\ screen' = "welcome"
  /\ UNCHANGED <<accounts, profiles, owner, expelled, requests, mainQ, photoVars>>

\* Placing a marker, submitting, deleting and picking a photo unwrap the user.
NeedUser ==
  /\ screen = "map" /\ user = NoUser
  /\ screen' = "crashed"
  /\ UNCHANGED <<authVars, photoVars>>

Begin(do, u) ==
  /\ screen = "map" /\ Len(tasks) < MaxTasks
  /\ tasks' = Append(tasks, [do |-> do, as |-> u])

\* A form is opened, and reads its document.
setElements ==
  /\ Begin("load", owner)
  /\ UNCHANGED <<authVars, screen, images, stored, photos, crossed, wiped>>

imagePicked ==
  /\ user # NoUser
  /\ Begin("put", user)
  /\ UNCHANGED <<authVars, screen, images, stored, photos, crossed, wiped>>

remove_marker ==
  /\ user # NoUser
  /\ Begin("wipe", user)
  /\ wiped' = wiped \cup {user}
  /\ UNCHANGED <<authVars, screen, images, stored, photos, crossed>>

----------------------------------------------------------------------------
(* Storage, and the completions of the tasks.                              *)

Becomes(t, do) == tasks' = [tasks EXCEPT ![t].do = do]

Stored(t) ==
  /\ tasks[t].do = "put" /\ Becomes(t, "stored")
  /\ images' = images \cup {tasks[t].as}
  /\ stored' = stored \cup {tasks[t].as}
  /\ UNCHANGED <<authVars, screen, photos, crossed, wiped>>

\* Mutant of Found: the completion goes on without a URL.
FoundOrNot(t) ==
  /\ tasks[t].do = "url" /\ Becomes(t, "found")
  /\ UNCHANGED <<authVars, screen, images, stored, photos, crossed, wiped>>

\* There is a download URL for an image that is there.
Found(t) ==
  /\ tasks[t].do = "url" /\ tasks[t].as \in images /\ Becomes(t, "found")
  /\ UNCHANGED <<authVars, screen, images, stored, photos, crossed, wiped>>

\* Mutant of Wiped: the path names whoever is signed in when the request is sent.
WipedCurrent(t) ==
  /\ tasks[t].do = "wipe" /\ Becomes(t, "over")
  /\ images' = images \ {user}
  /\ UNCHANGED <<authVars, screen, stored, photos, crossed, wiped>>

Wiped(t) ==
  /\ tasks[t].do = "wipe" /\ Becomes(t, "over")
  /\ images' = images \ {tasks[t].as}
  /\ UNCHANGED <<authVars, screen, stored, photos, crossed, wiped>>

\* A completion returns early: a request failed, or a form has no document.
Failed(t) ==
  /\ tasks[t].do \in {"load", "put", "url", "wipe"} /\ Becomes(t, "over")
  /\ UNCHANGED <<authVars, screen, images, stored, photos, crossed, wiped>>

\* isAuthor, downloadURL and setData ask for the current user.
Unwrapped(t) ==
  /\ tasks[t].do \in {"load", "stored", "found"} /\ screen # "crashed"
  /\ IF user = NoUser
       THEN screen' = "crashed" /\ UNCHANGED <<tasks, photos>>
       ELSE /\ tasks' = [tasks EXCEPT ![t] =
                 [do |-> IF tasks[t].do = "stored" THEN "url" ELSE "over", as |-> user]]
            /\ photos' = IF tasks[t].do = "found" THEN photos \cup {user} ELSE photos
            /\ UNCHANGED screen
  /\ UNCHANGED <<authVars, images, stored, crossed, wiped>>

----------------------------------------------------------------------------
\* Mutant of Relaunch: completions outlive the application.
RelaunchPosted ==
  /\ screen' = "welcome"
  /\ requests' = <<>>
  /\ UNCHANGED <<accounts, profiles, user, owner, expelled, mainQ, photoVars>>

\* The application is killed, or has crashed, and is launched again.  A request
\* already sent may still reach the backend.
Relaunch ==
  /\ screen' = "welcome"
  /\ \E R \in SUBSET {r \in DOMAIN requests : /\ requests[r].do = "signup"
                                              /\ requests[r].state = "sent"},
        T \in SUBSET {t \in DOMAIN tasks : tasks[t].do = "put"} :
       /\ accounts' = accounts \cup {requests[r].who : r \in R}
       /\ images' = images \cup {tasks[t].as : t \in T}
       /\ stored' = stored \cup {tasks[t].as : t \in T}
  /\ requests' = [r \in DOMAIN requests |->
                    [requests[r] EXCEPT !.live = FALSE, !.state = "over"]]
  /\ mainQ' = <<>>
  /\ tasks' = [t \in DOMAIN tasks |-> [tasks[t] EXCEPT !.do = "over"]]
  /\ UNCHANGED <<profiles, user, owner, expelled, photos, crossed, wiped>>

Init ==
  /\ accounts \in SUBSET Users
  /\ profiles = [u \in Users |-> 0]
  /\ user = NoUser
  /\ screen = "welcome" /\ owner = NoUser /\ expelled = FALSE
  /\ requests = <<>> /\ mainQ = <<>>
  /\ tasks = <<>>
  /\ images = {} /\ stored = {} /\ photos = {} /\ crossed = {} /\ wiped = {}

Person ==
  \/ \E f \in Forms : Show(f)
  \/ Back
  \/ \E u \in Users : loginTapped(u) \/ signUpTapped(u)
  \/ \E ok \in BOOLEAN : logout(ok)
  \/ NeedUser \/ setElements \/ imagePicked \/ remove_marker

Auth == \E r \in DOMAIN requests, ok \in BOOLEAN :
          screen # "crashed" /\ (LoginAnswered(r, ok) \/ SignUpAnswered(r, ok))

Completions == loginCompleted \/ signUpCompleted

Answers == \E t \in DOMAIN tasks :
  Stored(t) \/ Found(t) \/ Wiped(t) \/ Failed(t) \/ Unwrapped(t)

Next == Person \/ Auth \/ Expel \/ Completions \/ Answers \/ Relaunch

\* Auth answers each request, with an error if nothing else, and posts it; the
\* main queue is served.
Fairness == WF_vars(Auth) /\ WF_vars(Completions)

Spec == Init /\ [][Next]_vars /\ Fairness

----------------------------------------------------------------------------
TypeOK ==
  /\ accounts \subseteq Users
  /\ profiles \in [Users -> Nat]
  /\ user \in Users \cup {NoUser}
  /\ screen \in {"welcome", "login", "signup", "map", "crashed"}
  /\ owner \in Users \cup {NoUser} /\ expelled \in BOOLEAN
  /\ requests \in Seq(Request) /\ Len(requests) <= MaxTaps
  /\ mainQ \in Seq(1..Len(requests))
  /\ tasks \in Seq(Task) /\ Len(tasks) <= MaxTasks
  /\ images \subseteq Users /\ stored \subseteq Users /\ photos \subseteq Users
  /\ crossed \subseteq Users /\ wiped \subseteq Users

\* A completion is posted that unwraps the map's outlet without a window.
CrashPosted == \E i \in 1..Len(mainQ) : /\ requests[mainQ[i]].state = "accepted"
                                        /\ ~requests[mainQ[i]].live

\* The map is used by the user it was opened for, who is the author of all it
\* writes (TableFormViewController.swift:327).  Another user only gets there by a
\* second answer whose completion is about to abort the application; nobody, only
\* when Auth has refused the user's token.
OwnMap ==
  screen = "map" /\ user # owner => CrashPosted \/ (user = NoUser /\ expelled)

\* An account has one profile at most, and a failed sign-up leaves none, however
\* often it is tapped, killed or refused (signupViewController.swift:141).
OneProfileEach ==
  \A u \in Users : profiles[u] <= 1 /\ (profiles[u] > 0 => u \in accounts)

\* The document of u in Photos says that u has stored an image, although each step
\* of the upload asks again who u is (TableFormViewController.swift:194-206); only a
\* user who signs in between the last two is taken for the one who uploads.
PhotoHasImage == photos \subseteq stored \cup crossed

\* An image is deleted from Storage for the user who confirmed the delete, whoever
\* is signed in when the request gets there (ViewController.swift:263).
ImagesGoByOwner == stored \ images \subseteq wiped

\* Every tap on Login or Sign Up comes to an end.
SignInEnds ==
  \A r \in 1..MaxTaps :
    r <= Len(requests) ~>
      screen = "crashed" \/ (r <= Len(requests) /\ requests[r].state = "over")

\* Login.md:9: the app will sign you in, and load a map view, unless it is killed
\* before it can.
LoginLoadsMap ==
  [][\A r \in DOMAIN requests :
       /\ requests[r].do = "login" /\ requests[r].state = "accepted"
       /\ requests'[r].state = "over" /\ screen' # "welcome"
       => screen' = "map"]_vars
=============================================================================
