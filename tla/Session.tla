-------------------------------- MODULE Session --------------------------------
(***************************************************************************)
(* Who the application believes is signed in. The session is a cookie the  *)
(* script cannot read; AuthProvider asks the server once when the page is  *)
(* loaded, again after every login, and forgets the user on logout. Those  *)
(* requests overlap, and a 401 on any other request reloads the            *)
(* application at /login.                                                  *)
(***************************************************************************)
EXTENDS Naturals

CONSTANTS
  Users,
  Nobody,
  MaxEvents  \* bound: logins, logouts, reloads and expiries together

ASSUME Nobody \notin Users /\ MaxEvents \in Nat

VARIABLES
  cookie,   \* whose session the server finds
  token,    \* the bearer token of an older version in localStorage: its owner
  path,     \* "login", or "app" for every page inside AppShell
  auth,     \* the user AuthProvider holds
  loading,
  load,     \* loadAuth: the request it waits for, and its answer
  post,     \* the login or registration in flight
  mes,      \* the me() requests of logins that have not come back
  logout,   \* the logout in flight
  request,  \* a request of a page in flight
  events

sessionVars ==
  <<cookie, token, path, auth, loading, load, post, mes, logout, request, events>>

Waiting(step) == [step |-> step, answer |-> "none", user |-> Nobody]
Answered(r, answer, u) == [r EXCEPT !.answer = answer, !.user = u]

SessionInit ==
  /\ cookie \in Users \cup {Nobody}
  /\ token \in Users \cup {Nobody}
  /\ path \in {"login", "app"}
  /\ auth = Nobody /\ loading = TRUE /\ load = Waiting("me")
  /\ post = Waiting("idle") /\ mes = {}
  /\ logout = "idle" /\ request = "idle"
  /\ events = 0

Event == events < MaxEvents /\ events' = events + 1

(* Loading the application anew keeps the cookie and localStorage only.    *)
Restart(p) ==
  /\ path' = p
  /\ auth' = Nobody /\ loading' = TRUE /\ load' = Waiting("me")
  /\ post' = Waiting("idle") /\ mes' = {}
  /\ logout' = "idle" /\ request' = "idle"

(* The server answers me() with the owner of the cookie; the network may   *)
(* fail instead.                                                           *)
MeAnswers(r) ==
  (IF cookie = Nobody THEN {} ELSE {Answered(r, "ok", cookie)})
    \cup {Answered(r, "failed", Nobody)}

LoadAnswered ==
  /\ load.step # "done" /\ load.answer = "none"
  /\ IF load.step = "session"
     THEN \/ /\ cookie' = load.user
             /\ load' \in {Answered(load, a, Nobody) : a \in {"ok", "failed"}}
          \/ cookie' = cookie /\ load' = Answered(load, "failed", Nobody)
     ELSE cookie' = cookie /\ load' \in MeAnswers(load)
  /\ UNCHANGED <<token, path, auth, loading, post, mes, logout, request, events>>

(* Without a session, the old token is turned into one.                    *)
Migrates == load.step = "me" /\ load.answer = "failed" /\ token # Nobody
Migrated == load.step = "session" /\ load.answer = "ok"

TryOldToken ==
  /\ Migrates
  /\ load' = [Waiting("session") EXCEPT !.user = token]
  /\ UNCHANGED <<cookie, token, path, auth, loading, post, mes, logout, request, events>>

AskAgain ==
  /\ Migrated
  /\ token' = Nobody /\ load' = Waiting("me again")
  /\ UNCHANGED <<cookie, path, auth, loading, post, mes, logout, request, events>>

(* loadAuth ends: it sets the user it found, or none, over whatever a      *)
(* login has set meanwhile.                                                *)
LoadFinishes ==
  /\ load.answer # "none" /\ ~Migrates /\ ~Migrated
  /\ token' = IF load.step = "session" THEN Nobody ELSE token
  /\ auth' = load.user /\ loading' = FALSE /\ load' = Waiting("done")
  /\ UNCHANGED <<cookie, path, post, mes, logout, request, events>>

(* The login and the registration form.                                    *)
Submit ==
  /\ path = "login" /\ post.step = "idle"
  /\ \E u \in Users : post' = [Waiting("sent") EXCEPT !.user = u]
  /\ Event
  /\ UNCHANGED <<cookie, token, path, auth, loading, load, mes, logout, request>>

SubmitAnswered ==
  /\ post.step = "sent" /\ post.answer = "none"
  /\ \/ cookie' = post.user /\ post' \in {Answered(post, a, post.user) : a \in {"ok", "failed"}}
     \/ cookie' = cookie /\ post' = Answered(post, "failed", Nobody)
  /\ UNCHANGED <<token, path, auth, loading, load, mes, logout, request, events>>

(* login(): seeds the user and asks for the rest; the page moves on once   *)
(* there is a user and the initial load is over.                           *)
SubmitReceived ==
  /\ post.answer # "none"
  /\ IF post.answer = "ok"
     THEN token' = Nobody /\ auth' = post.user /\ mes' = mes \cup {Waiting("me")}
     ELSE UNCHANGED <<token, auth, mes>>
  /\ post' = Waiting("idle")
  /\ UNCHANGED <<cookie, path, loading, load, logout, request, events>>

MeAnswered ==
  /\ \E r \in mes : /\ r.answer = "none"
                    /\ \E a \in MeAnswers(r) : mes' = (mes \ {r}) \cup {a}
  /\ UNCHANGED <<cookie, token, path, auth, loading, load, post, logout, request, events>>

(* The user is set and the page navigates, even if the user has logged out *)
(* or gone elsewhere since.                                                *)
MeReceived ==
  /\ \E r \in mes : /\ r.answer # "none"
                    /\ mes' = mes \ {r}
                    /\ auth' = IF r.answer = "ok" THEN r.user ELSE auth
  /\ path' = "app"
  /\ UNCHANGED <<cookie, token, loading, load, post, logout, request, events>>

LeaveLogin ==
  /\ path = "login" /\ ~loading /\ auth # Nobody
  /\ path' = "app"
  /\ UNCHANGED <<cookie, token, auth, loading, load, post, mes, logout, request, events>>

AppShellRedirects ==
  /\ path = "app" /\ ~loading /\ auth = Nobody
  /\ path' = "login"
  /\ UNCHANGED <<cookie, token, auth, loading, load, post, mes, logout, request, events>>

(* The pages make requests; the server refuses those without a session.    *)
PageRequests ==
  /\ path = "app" /\ ~loading /\ auth # Nobody /\ request = "idle"
  /\ request' = IF cookie = Nobody THEN "unauthorized" ELSE "served"
  /\ UNCHANGED <<cookie, token, path, auth, loading, load, post, mes, logout, events>>

(* Mutant: no one looks at the status of the answer.                       *)
PageReceivesAnything ==
  /\ request # "idle" /\ request' = "idle"
  /\ UNCHANGED <<cookie, token, path, auth, loading, load, post, mes, logout, events>>

PageReceives ==
  /\ request # "idle"
  /\ IF request = "unauthorized" /\ path # "login"
     THEN Restart("login") /\ token' = Nobody
     ELSE request' = "idle" /\ UNCHANGED <<token, path, auth, loading, load, post, mes, logout>>
  /\ UNCHANGED <<cookie, events>>

SignOut ==
  /\ path = "app" /\ auth # Nobody /\ logout = "idle"
  /\ logout' = "sent"
  /\ Event
  /\ UNCHANGED <<cookie, token, path, auth, loading, load, post, mes, request>>

SignOutAnswered ==
  /\ logout = "sent"
  /\ \/ cookie # Nobody /\ cookie' = Nobody /\ logout' = "answered"
     \/ cookie = Nobody /\ cookie' = cookie /\ logout' = "unauthorized"
     \/ cookie' = cookie /\ logout' = "answered"
  /\ UNCHANGED <<token, path, auth, loading, load, post, mes, request, events>>

(* Success or failure, the user is forgotten; a 401 reloads as well.       *)
SignOutReceived ==
  /\ logout \in {"answered", "unauthorized"}
  /\ token' = Nobody
  /\ IF logout = "unauthorized" /\ path # "login"
     THEN Restart("login")
     ELSE /\ auth' = Nobody /\ logout' = "idle"
          /\ UNCHANGED <<path, loading, load, post, mes, request>>
  /\ UNCHANGED <<cookie, events>>

SessionExpires ==
  /\ cookie # Nobody /\ cookie' = Nobody
  /\ Event
  /\ UNCHANGED <<token, path, auth, loading, load, post, mes, logout, request>>

Reload ==
  /\ Restart(path)
  /\ Event
  /\ UNCHANGED <<cookie, token>>

SessionNext ==
  \/ LoadAnswered \/ TryOldToken \/ AskAgain \/ LoadFinishes
  \/ Submit \/ SubmitAnswered \/ SubmitReceived
  \/ MeAnswered \/ MeReceived \/ LeaveLogin \/ AppShellRedirects
  \/ PageRequests \/ PageReceives \/ SignOut \/ SignOutAnswered \/ SignOutReceived
  \/ SessionExpires \/ Reload

SessionSpec == SessionInit /\ [][SessionNext]_sessionVars

-----------------------------------------------------------------------------
(* A user who is shown as signed in without a session - it expired, or a   *)
(* late me() answer brought the user back after the logout - does not      *)
(* stay: the next refused request takes the application to /login.         *)
GhostUserIsCaught ==
  (auth # Nobody /\ cookie = Nobody) ~> (auth = Nobody \/ cookie # Nobody)
=============================================================================
