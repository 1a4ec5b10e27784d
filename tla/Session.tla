-------------------------------- MODULE Session --------------------------------
(***************************************************************************)
(* Signing up, logging in and logging out on one phone                     *)
(* (ViewController, SignUpViewController, LogInViewController, and the     *)
(* side menu of HomeViewController).                                       *)
(*                                                                         *)
(* An account is made in Firebase Authentication; the user's document is   *)
(* then written by the phone that made it.  The two are separate: an       *)
(* account without a document cannot be told from any other.               *)
(*                                                                         *)
(* The answer to a sign-up or a log-in may find its screen gone; then it   *)
(* changes who is signed in but not what is on the screen.  The screens    *)
(* behind Home unwrap currentUser: with nobody signed in the app traps.    *)
(***************************************************************************)
EXTENDS Naturals, FiniteSets, SequencesExt

CONSTANTS
    User,               \* the accounts that may be made, by e-mail
    Nobody,
    Refusable,          \* the users whose document the server's rules refuse
    MaxRequests         \* bound: sign-ups and log-ins not yet answered

ASSUME UserAssumption == Nobody \notin User /\ Refusable \subseteq User

VARIABLES
    accounts,   \* Authentication: the users that have an account
    documents,  \* Firestore: the users that have a document
    currentUser,\* who is signed in on the phone, restarts included
    waiting,    \* the users whose document waits in the phone's client
    trapped,    \* has a forced unwrap stopped the app?
    onScreen,   \* what is on the screen
    homeOf,     \* who was signed in when the Home on the screen was made
    requests,   \* sign-ups and log-ins under way
    reading,    \* is a post cell of some Home waiting for its author?
    severed,    \* history: users whose sign-up was not answered with success
    strayed     \* history: Home was reached, or left behind, some other way
                \* than by a successful log-in or sign-up

server == <<accounts, documents>>
phone == <<currentUser, waiting, trapped, onScreen, homeOf, requests, reading>>
history == <<severed, strayed>>
sessionVars == <<server, phone, history>>

Screens == {"initial", "signUp", "logIn", "home"}

\* status is what the server made of a request; live, whether the screen it
\* was sent from is still there.
Request == [kind : {"signUp", "logIn"}, user : User,
            status : {"sent", "success", "failure"}, live : BOOLEAN]

\* viewDidLoad of the first screen goes on to Home if somebody is signed in.
RootScreen(user) == IF user = Nobody THEN "initial" ELSE "home"

SessionInit ==
    /\ accounts = {} /\ documents = {}
    /\ currentUser = Nobody /\ waiting = {} /\ trapped = FALSE
    /\ onScreen = "initial" /\ homeOf = Nobody
    /\ requests = <<>> /\ reading = FALSE
    /\ severed = {} /\ strayed = FALSE

\* The requests, once the screen they were sent from is gone.
Orphaned == [r \in DOMAIN requests |-> [requests[r] EXCEPT !.live = FALSE]]

WithSuccess(kinds) ==
    {requests[r].user : r \in {q \in DOMAIN requests :
                                  /\ requests[q].kind \in kinds
                                  /\ requests[q].status = "success"}}
------------------------------------------------------------------------------
(* The way in.                                                             *)

\* The two buttons of the first screen, and the way back.
Go(from, to) ==
    /\ ~ trapped
    /\ onScreen = from
    /\ onScreen' = to
    /\ requests' = Orphaned
    /\ UNCHANGED <<server, currentUser, waiting, trapped, homeOf, reading,
                   history>>

\* signUpPressed, logInPressed, with fields that are valid; the button stays
\* pressable.
Press(kind, u) ==
    /\ ~ trapped
    /\ onScreen = kind
    /\ Len(requests) < MaxRequests
    /\ requests' = Append(requests, [kind |-> kind, user |-> u,
                                     status |-> "sent", live |-> TRUE])
    /\ UNCHANGED <<server, currentUser, waiting, trapped, onScreen, homeOf,
                   reading, history>>

\* An account can be made once; logging in takes one, and the password.
Authenticate(r, status) ==
    LET u == requests[r].user IN
    /\ requests[r].status = "sent"
    /\ requests' = [requests EXCEPT ![r].status = status]
    /\ \/ /\ requests[r].kind = "signUp"
          /\ status = (IF u \in accounts THEN "failure" ELSE "success")
          /\ accounts' = accounts \union {u}
       \/ /\ requests[r].kind = "logIn"
          /\ status = "success" => u \in accounts
          /\ UNCHANGED accounts
    /\ UNCHANGED <<documents, currentUser, waiting, trapped, onScreen, homeOf,
                   reading, history>>

\* The request, or the answer to it, is lost.
LoseRequest(r) ==
    /\ requests[r].status \in {"sent", "success"}
    /\ requests' = [requests EXCEPT ![r].status = "failure"]
    /\ severed' = severed \union
          {u \in {requests[r].user} : requests[r].kind = "signUp"
                                      /\ requests[r].status = "success"}
    /\ UNCHANGED <<server, currentUser, waiting, trapped, onScreen, homeOf,
                   reading, strayed>>

Answers(r, status) ==
    /\ ~ trapped
    /\ requests[r].status = status

\* goToHome does nothing for a screen that is gone.
GoToHome(r, user) ==
    /\ onScreen' = IF requests[r].live THEN "home" ELSE onScreen
    /\ homeOf' = IF requests[r].live THEN user ELSE homeOf
    /\ requests' = RemoveAt(IF requests[r].live THEN Orphaned ELSE requests, r)

\* Slip: the document is written by the screen, if it is still there.
AnswerSuccessIfLive(r) ==
    /\ Answers(r, "success")
    /\ currentUser' = requests[r].user
    /\ waiting' = IF requests[r].kind = "signUp" /\ requests[r].live
                  THEN waiting \union {requests[r].user} ELSE waiting
    /\ GoToHome(r, currentUser')
    /\ strayed' = ~ requests[r].live
    /\ UNCHANGED <<server, trapped, reading, severed>>

AnswerSuccess(r) ==
    /\ Answers(r, "success")
    /\ currentUser' = requests[r].user
    /\ waiting' = IF requests[r].kind = "signUp"
                  THEN waiting \union {requests[r].user} ELSE waiting
    /\ GoToHome(r, currentUser')
    /\ strayed' = ~ requests[r].live
    /\ UNCHANGED <<server, trapped, reading, severed>>

\* The error is shown, and the user taken to Home all the same.
AnswerFailedSignUp(r) ==
    /\ Answers(r, "failure")
    /\ requests[r].kind = "signUp"
    /\ GoToHome(r, currentUser)
    /\ strayed' = (strayed \/ requests[r].live)
    /\ UNCHANGED <<server, currentUser, waiting, trapped, reading, severed>>

\* Slip: as the sign-up does.
AnswerFailedLogInAtHome(r) ==
    /\ Answers(r, "failure")
    /\ requests[r].kind = "logIn"
    /\ GoToHome(r, currentUser)
    /\ UNCHANGED <<server, currentUser, waiting, trapped, reading, history>>

AnswerFailedLogIn(r) ==
    /\ Answers(r, "failure")
    /\ requests[r].kind = "logIn"
    /\ requests' = RemoveAt(requests, r)
    /\ UNCHANGED <<server, currentUser, waiting, trapped, onScreen, homeOf,
                   reading, history>>
------------------------------------------------------------------------------
(* Home, and the way out.                                                  *)

\* Posts are listed; their cells read the authors' documents.
ShowPosts ==
    /\ ~ trapped
    /\ onScreen = "home"
    /\ reading' = TRUE
    /\ UNCHANGED <<server, currentUser, waiting, trapped, onScreen, homeOf,
                   requests, history>>

\* The author has come: the cell goes on to the user's own document.
ShowAuthor ==
    /\ ~ trapped
    /\ reading
    /\ reading' = FALSE
    /\ trapped' = (currentUser = Nobody)
    /\ UNCHANGED <<server, currentUser, waiting, onScreen, homeOf, requests,
                   history>>

FailAuthor ==
    /\ ~ trapped
    /\ reading
    /\ reading' = FALSE
    /\ UNCHANGED <<server, currentUser, waiting, trapped, onScreen, homeOf,
                   requests, history>>

\* The side menu, the profile, Upload and the bookmark unwrap currentUser.
UseHome ==
    /\ ~ trapped
    /\ onScreen = "home"
    /\ currentUser = Nobody
    /\ trapped' = TRUE
    /\ UNCHANGED <<server, currentUser, waiting, onScreen, homeOf, requests,
                   reading, history>>

\* Slip: the first screen is shown only when signing out has failed.
LogOutStaying ==
    /\ ~ trapped
    /\ onScreen = "home" /\ currentUser # Nobody
    /\ currentUser' = Nobody
    /\ strayed' = reading
    /\ UNCHANGED <<server, waiting, trapped, onScreen, homeOf, requests,
                   reading, severed>>

\* signOut, which may throw; the first screen is presented in any case.  The
\* Home behind it, and what its cells are waiting for, are still there.
LogOut ==
    /\ ~ trapped
    /\ onScreen = "home" /\ currentUser # Nobody
    /\ currentUser' \in {Nobody, currentUser}
    /\ onScreen' = RootScreen(currentUser')
    /\ homeOf' = currentUser'
    /\ strayed' = (reading /\ currentUser' = Nobody)
    /\ UNCHANGED <<server, waiting, trapped, requests, reading, severed>>
------------------------------------------------------------------------------
(* The Firestore client, which sends only the writes of who is signed in,  *)
(* and the process.                                                        *)

CommitDocument(u) ==
    /\ ~ trapped
    /\ currentUser = u /\ u \in waiting
    /\ documents' = documents \union {u}
    /\ waiting' = waiting \ {u}
    /\ UNCHANGED <<accounts, currentUser, trapped, onScreen, homeOf, requests,
                   reading, history>>

\* "User data could not be saved.", on a screen that is gone.
RefuseDocument(u) ==
    /\ ~ trapped
    /\ currentUser = u /\ u \in waiting /\ u \in Refusable
    /\ waiting' = waiting \ {u}
    /\ UNCHANGED <<server, currentUser, trapped, onScreen, homeOf, requests,
                   reading, history>>

RelaunchAs(user, kept) ==
    /\ currentUser' = user
    /\ waiting' = kept
    /\ trapped' = FALSE
    /\ onScreen' = RootScreen(user) /\ homeOf' = user
    /\ requests' = <<>> /\ reading' = FALSE
    /\ severed' = severed \union WithSuccess({"signUp"})
    /\ strayed' = FALSE
    /\ UNCHANGED server

\* Slip: only the signed-in user's writes are kept.
RelaunchKeepingOwn(user) == RelaunchAs(user, waiting \intersect {user})

\* The app is killed, or has trapped, and is opened again.  An answer that
\* has come changes who is signed in even if its block never runs.
Relaunch(user) == RelaunchAs(user, waiting)

WayIn ==
    \/ \E kind \in {"signUp", "logIn"} :
          \/ Go("initial", kind)
          \/ Go(kind, "initial")
          \/ \E u \in User : Press(kind, u)
    \/ \E r \in DOMAIN requests :
          \/ Authenticate(r, "success") \/ Authenticate(r, "failure")
          \/ LoseRequest(r)
          \/ AnswerSuccess(r)
          \/ AnswerFailedSignUp(r)
          \/ AnswerFailedLogIn(r)

Home == ShowPosts \/ ShowAuthor \/ FailAuthor \/ UseHome \/ LogOut

SessionNext ==
    \/ WayIn
    \/ Home
    \/ \E u \in User : CommitDocument(u) \/ RefuseDocument(u)
    \/ \E user \in {currentUser} \union WithSuccess({"signUp", "logIn"}) :
          Relaunch(user)

SessionSpec == SessionInit /\ [][SessionNext]_sessionVars

\* The write stream is reopened for as long as a write waits.
LiveSessionSpec ==
    /\ SessionSpec
    /\ \A u \in User : SF_sessionVars(CommitDocument(u) \/ RefuseDocument(u))
------------------------------------------------------------------------------
(* Properties.                                                             *)

SessionTypeOK ==
    /\ accounts \subseteq User /\ documents \subseteq User
    /\ currentUser \in User \union {Nobody}
    /\ waiting \subseteq User /\ trapped \in BOOLEAN
    /\ onScreen \in Screens /\ homeOf \in User \union {Nobody}
    /\ requests \in Seq(Request) /\ reading \in BOOLEAN
    /\ severed \subseteq User /\ strayed \in BOOLEAN

\* Every account has a document, or the phone that made it still has one to
\* send - however often users change on the phone and it is restarted - unless
\* the rules refuse it, or the answer to the sign-up never came to its block.
AccountsHaveDocuments ==
    accounts \subseteq documents \union waiting \union Refusable
                      \union severed \union WithSuccess({"signUp"})

\* What is on Home was made for who is signed in, and somebody is, unless Home
\* was reached by a sign-up that failed or the user was changed behind it by
\* an answer whose screen was gone.
HomeIsOfUser ==
    onScreen = "home" /\ ~ strayed =>
        currentUser # Nobody /\ homeOf = currentUser

\* Nothing else traps but such a Home, and one left by logging out while an
\* author was being read.
OnlyStraysTrap == trapped => strayed

\* A new user's document reaches the server, or is refused, if the user is
\* signed in again and again, whoever uses the phone in between.
DocumentsArrive ==
    \A u \in User :
        []<>(currentUser = u /\ ~ trapped)
            => (u \in waiting ~> u \in documents \union Refusable)
------------------------------------------------------------------------------
(* The inductive invariants behind the theorems of Account_proofs.         *)

DocumentsInv == SessionTypeOK /\ AccountsHaveDocuments

\* Somebody is signed in while an author is being read, too: with the author
\* the cell goes on to the user.
HomeInv ==
    /\ SessionTypeOK
    /\ HomeIsOfUser
    /\ reading /\ ~ strayed => currentUser # Nobody
    /\ OnlyStraysTrap
==============================================================================
