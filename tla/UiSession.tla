------------------------------ MODULE UiSession ------------------------------
(***************************************************************************)
(* How a browser tab is unlocked and locked again: guardd's bootstrap      *)
(* codes, UI sessions and CSRF tokens, the one cookie all tabs of the      *)
(* browser share, and in every tab the App component with its own copy of  *)
(* the CSRF token.                                                         *)
(*                                                                         *)
(* A session is named by the code it was made from.  Times are left out: a *)
(* code or a session may end whenever it exists.  A request and what the   *)
(* server does about it are one step, what the tab makes of the answer is  *)
(* part of it unless the answer is lost.                                   *)
(***************************************************************************)
EXTENDS Naturals

CONSTANTS Tabs, Codes,
          MaxCsrf,           \* bound: CSRF tokens made for one session
          NoCode, NoToken

ASSUME UiSessionAssumption ==
  /\ MaxCsrf \in Nat \ {0}
  /\ NoCode \notin Codes
  /\ NoToken \notin [of : Codes, number : 1..MaxCsrf]

VARIABLES
  bootstrap,   \* guardd: what became of each bootstrap code
  sessions,    \* guardd: the number of a session's CSRF token, 0 without a session
  cookie,      \* the browser: the session in guard_ui_session
  tabs         \* App: what a tab shows, the code in its address, its token and operator

sessionVars == <<bootstrap, sessions, cookie, tabs>>

Locked(at, code) == [at |-> at, code |-> code, csrf |-> NoToken, operator |-> NoCode]
Shell(s, n) ==
  [at |-> "shell", code |-> NoCode, csrf |-> [of |-> s, number |-> n], operator |-> s]

(* Only an unlocked tab has a token and an operator, and both are of the   *)
(* same session.                                                           *)
LockedTab == [at : {"closed", "loading", "guide"}, code : Codes \union {NoCode},
              csrf : {NoToken}, operator : {NoCode}]
ShellTab == {Shell(s, n) : s \in Codes, n \in 1..MaxCsrf}

SessionTypeOK ==
  /\ bootstrap \in [Codes -> {"unissued", "live", "gone"}]
  /\ sessions \in [Codes -> 0..MaxCsrf]
  /\ cookie \in Codes \union {NoCode}
  /\ tabs \in [Tabs -> LockedTab \union ShellTab]

(* The other codes were made and ran out before.                           *)
SessionInit(codes) ==
  /\ bootstrap = [c \in Codes |-> IF c \in codes THEN "unissued" ELSE "gone"]
  /\ sessions = [c \in Codes |-> 0]
  /\ cookie = NoCode
  /\ tabs = [t \in Tabs |-> Locked("closed", NoCode)]

-----------------------------------------------------------------------------
(* What guardd makes of a request with the browser's cookie.               *)

HasSession == cookie # NoCode /\ sessions[cookie] # 0

(* Mutant: the token is not compared with the session's own.               *)
AnyToken(t) == HasSession /\ tabs[t].csrf # NoToken

(* write_session: the cookie's session, and its latest token.              *)
Accepted(t) ==
  /\ HasSession
  /\ tabs[t].csrf = [of |-> cookie, number |-> sessions[cookie]]

-----------------------------------------------------------------------------
(* connect: on opening or reloading a tab and on the guide's retry.        *)

Opens(t, code) ==
  /\ tabs[t].at # "loading"
  /\ \/ code = tabs[t].code
     \/ tabs[t].at \in {"closed", "guide"} /\ code \in Codes /\ bootstrap[code] # "unissued"
  /\ tabs' = [tabs EXCEPT ![t] = Locked("loading", code)]
  /\ UNCHANGED <<bootstrap, sessions, cookie>>

(* The code is taken out of the address only when it was exchanged.        *)
ConsumeBootstrap(t) ==
  LET c == tabs[t].code
      rejected == [tabs EXCEPT ![t] = Locked("guide", c)]
  IN /\ tabs[t].at = "loading"
     /\ c # NoCode
     /\ \/ /\ bootstrap[c] # "live"
           /\ tabs' = rejected
           /\ UNCHANGED <<bootstrap, sessions, cookie>>
        \/ /\ bootstrap[c] = "live"
           /\ bootstrap' = [bootstrap EXCEPT ![c] = "gone"]
           /\ sessions' = [sessions EXCEPT ![c] = 1]
           /\ \/ cookie' = c /\ tabs' = [tabs EXCEPT ![t] = Shell(c, 1)]
              \/ cookie' = cookie /\ tabs' = rejected

(* Every restore makes a new token, also when the answer is lost.          *)
RestoreSession(t) ==
  /\ tabs[t].at = "loading"
  /\ tabs[t].code = NoCode
  /\ \/ /\ ~HasSession
        /\ tabs' = [tabs EXCEPT ![t] = Locked("guide", NoCode)]
        /\ UNCHANGED sessions
     \/ /\ HasSession
        /\ sessions[cookie] < MaxCsrf
        /\ sessions' = [sessions EXCEPT ![cookie] = @ + 1]
        /\ \/ tabs' = [tabs EXCEPT ![t] = Shell(cookie, sessions[cookie] + 1)]
           \/ tabs' = [tabs EXCEPT ![t] = Locked("guide", NoCode)]
  /\ UNCHANGED <<bootstrap, cookie>>

-----------------------------------------------------------------------------
(* api tells the App of a 401 on any path but the session's own.           *)

(* Mutant: a 401 is only thrown.                                           *)
NoExpiryEvent(t) == tabs[t]

(* Mutant: the tab is locked, and keeps its token.                         *)
ExpireKeepsToken(t) == [tabs[t] EXCEPT !.at = "guide"]

Expire(t) == Locked("guide", NoCode)

(* A request of a tab without a session: the overview's, every 10 seconds, *)
(* or any other.                                                           *)
Finds401(t) ==
  /\ tabs[t].at = "shell"
  /\ ~HasSession
  /\ tabs' = [tabs EXCEPT ![t] = Expire(t)]
  /\ UNCHANGED <<bootstrap, sessions, cookie>>

(* logout locks the tab whatever becomes of the request: it may not arrive *)
(* and leave the session alive, and its answer, which takes the cookie     *)
(* back, may not arrive either.                                            *)
Logout(t) ==
  /\ tabs[t].at = "shell"
  /\ tabs' = [tabs EXCEPT ![t] = Locked("guide", NoCode)]
  /\ \/ /\ Accepted(t)
        /\ sessions' = [sessions EXCEPT ![cookie] = 0]
        /\ cookie' \in {NoCode, cookie}
     \/ UNCHANGED <<sessions, cookie>>
  /\ UNCHANGED bootstrap

-----------------------------------------------------------------------------
(* guardctl ui makes a code; codes and sessions run out.                   *)

CreateBootstrap(c) ==
  /\ bootstrap[c] = "unissued"
  /\ bootstrap' = [bootstrap EXCEPT ![c] = "live"]
  /\ UNCHANGED <<sessions, cookie, tabs>>

CodeRunsOut(c) ==
  /\ bootstrap[c] = "live"
  /\ bootstrap' = [bootstrap EXCEPT ![c] = "gone"]
  /\ UNCHANGED <<sessions, cookie, tabs>>

SessionRunsOut(c) ==
  /\ sessions[c] # 0
  /\ sessions' = [sessions EXCEPT ![c] = 0]
  /\ UNCHANGED <<bootstrap, cookie, tabs>>

ServerSide(c) == CreateBootstrap(c) \/ CodeRunsOut(c) \/ SessionRunsOut(c)
=============================================================================
