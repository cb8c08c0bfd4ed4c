------------------------------ MODULE Browser ------------------------------
(***************************************************************************)
(* A browser's side of a session: the store of each tab                    *)
(* (frontend/src/stores/authStore.ts), the client that repeats a call      *)
(* after a refresh (frontend/src/lib/apiClient.ts), the one cookie the     *)
(* tabs share, and the handlers that answer                                *)
(* (transport/http/handler/auth_handler.go, middleware/auth.go).           *)
(*                                                                         *)
(* A call is sent, served and arrives; calls overtake each other on both   *)
(* ways.  What the server does for one is a single step here: the          *)
(* statements of a refresh are taken apart in Sessions.  A tab runs one    *)
(* continuation at a time, up to the next await.                           *)
(*                                                                         *)
(* Left out: registration, passwords, suspension, the session's cap (it    *)
(* refuses a refresh like a revoked session does), and roles.              *)
(***************************************************************************)
EXTENDS Naturals, FiniteSets

CONSTANTS
    Tabs,
    Calls,         \* calls that are under way at a time, of one tab or of two
    Destinations,  \* what a switch goes to, of the scopes below
    MaxFamilies,   \* bound: families of refresh tokens, numbered as they begin
    MaxRefreshes,  \* bound: tokens of one family
    MaxBwFaults    \* bound: requests or answers lost, pages loaded anew, idle sessions

\* What a token is for: an organisation, or one project another one shares.
Scopes == {"home", "other", "project"}

ASSUME BrowserAssumption ==
    {MaxFamilies, MaxRefreshes, MaxBwFaults} \subseteq Nat /\ Destinations \subseteq Scopes

BwFamilies == 1 .. MaxFamilies

VARIABLES
    tabOf,     \* the tab that makes a call
    call,      \* what each call is at
    flight,    \* the refresh a call has started
    tab,       \* accessToken and user of each tab's store
    cookie,    \* the refresh token the browser holds
    broughtBy, \* the tab whose answer set it
    sessions,  \* scope of a family, its latest token
    dead,      \* families that were revoked
    idleOut,   \* families whose latest token has expired
    reused,    \* families revoked because a token came twice
    doubled,   \* two tabs have refreshed with the same token
    lostOne,   \* the answer to a refresh was lost
    mixedUp,   \* tabs where two answers about who the user is overtook each other
    halfSwitched, \* tabs that could not ask who the user is after a switch
    bwFaults   \* faults so far

ServerVars == <<sessions, dead, idleOut, reused>>
Jar == <<cookie, broughtBy>>
GhostVars == <<doubled, lostOne, mixedUp, halfSwitched, bwFaults>>
BwVars == <<tabOf, call, flight, tab, Jar, ServerVars, GhostVars>>

NoCookie == <<>>
NoAccess == [scope |-> "none", fresh |-> FALSE]
Token(s) == [scope |-> s, fresh |-> TRUE]
NoCall == [at |-> "idle"]
NoFlight == [at |-> "none"]
SignedOut == [access |-> NoAccess, user |-> "none"]

NoAnswer == [result |-> "none", scope |-> "none", cookie |-> NoCookie, clears |-> FALSE]
Ok(s, ck) == [result |-> "ok", scope |-> s, cookie |-> ck, clears |-> FALSE]
Refusal(clears) == [NoAnswer EXCEPT !.result = "refused", !.clears = clears]
Expired(clears) == [NoAnswer EXCEPT !.result = "expired", !.clears = clears]

\* A request as it leaves the tab: where is what a login or a switch asks for,
\* the cookie goes along and matters to a logout.
Request(kind, where, access, retry, ck) ==
    [at |-> "sent", kind |-> kind, where |-> where, access |-> access, retry |-> retry,
     carries |-> IF kind = "logout" THEN ck ELSE NoCookie,
     on |-> "nobody", answer |-> NoAnswer]

CallsOf(t) == {c \in Calls : tabOf[c] = t}
Kind(c, kinds) == call[c].at # "idle" /\ call[c].kind \in kinds
MeUnderWay(t) == \E c \in CallsOf(t) : Kind(c, {"me", "bootMe"}) /\ call[c].at # "waiting"
Flights(t) == {c \in CallsOf(t) : flight[c] # NoFlight}

BwTypeOK ==
    /\ tabOf \in [Calls -> Tabs]
    /\ \A c \in Calls :
         /\ call[c].at \in {"idle", "sent", "answered", "waiting"}
         /\ call[c] # NoCall => /\ call[c].kind \in {"poll", "login", "logout", "switch", "me",
                                                   "boot", "bootMe"}
                              /\ call[c].access.scope \in Scopes \cup {"none"}
         /\ flight[c].at \in {"none", "sent", "answered", "self"}
    /\ \A t \in Tabs : {tab[t].access.scope, tab[t].user} \subseteq Scopes \cup {"none"}
    /\ broughtBy \in Tabs \cup {"nobody"}
    /\ cookie = NoCookie \/ cookie \in BwFamilies \X (1 .. MaxRefreshes)
    /\ \A f \in BwFamilies : sessions[f].latest \in 0 .. MaxRefreshes
    /\ dead \subseteq BwFamilies /\ idleOut \subseteq BwFamilies /\ reused \subseteq dead
    /\ mixedUp \cup halfSwitched \subseteq Tabs /\ {doubled, lostOne} \subseteq BOOLEAN
    /\ bwFaults \in 0 .. MaxBwFaults

BwInit ==
    /\ tabOf \in [Calls -> Tabs]
    /\ call = [c \in Calls |-> NoCall] /\ flight = [c \in Calls |-> NoFlight]
    /\ tab = [t \in Tabs |-> SignedOut]
    /\ cookie = NoCookie /\ broughtBy = "nobody"
    /\ sessions = [f \in BwFamilies |-> [scope |-> "none", latest |-> 0]]
    /\ dead = {} /\ idleOut = {} /\ reused = {}
    /\ doubled = FALSE /\ lostOne = FALSE /\ mixedUp = {} /\ halfSwitched = {} /\ bwFaults = 0

(***************************************************************************)
(* Calls leave the tab                                                     *)
(* (An operator whose comment says "instead" is a plausible mistake in the *)
(* operator it precedes; only the mutants use it.)                         *)
(***************************************************************************)

\* A screen polls, or the user signs in, out (or is idle for too long,
\* useIdleLogout) or switches.
StartCall(c, kind, where) ==
    /\ call[c] = NoCall
    /\ kind = "login" <=> tab[tabOf[c]].user = "none"
    /\ call' = [call EXCEPT ![c] = Request(kind, where, tab[tabOf[c]].access, FALSE, cookie)]
    /\ UNCHANGED <<tabOf, flight, tab, Jar, ServerVars, GhostVars>>

\* Instead: every expired call refreshes for itself.
AlwaysOnItsOwn(c) == c
\* The refresh a call waits for: single-flight, the one under way if there is one.
RefreshOf(c) == IF Flights(tabOf[c]) = {} THEN c ELSE CHOOSE d \in Flights(tabOf[c]) : TRUE

\* refreshAccessToken, called by one that then waits: the cookie goes along.
AwaitRefresh(c, waiting) ==
    LET d == RefreshOf(c) IN
    /\ call' = [call EXCEPT ![c] = [waiting EXCEPT !.at = "waiting", !.on = d]]
    /\ flight' = IF d = c THEN [flight EXCEPT ![c] = [at |-> "sent", cookie |-> cookie,
                                                       from |-> broughtBy, answer |-> NoAnswer]]
                 ELSE flight
    /\ doubled' = \/ doubled
                  \/ /\ d = c
                     /\ \E e \in Calls \ CallsOf(tabOf[c]) :
                          flight[e] # NoFlight /\ flight[e].cookie = cookie

\* bootstrap, on a page that was just loaded
Bootstrap(c) ==
    /\ tab[tabOf[c]] = SignedOut /\ \A d \in CallsOf(tabOf[c]) : call[d] = NoCall
    /\ cookie # NoCookie
    /\ AwaitRefresh(c, Request("boot", "none", NoAccess, FALSE, NoCookie))
    /\ UNCHANGED <<tabOf, tab, Jar, ServerVars, lostOne, mixedUp, halfSwitched, bwFaults>>

(***************************************************************************)
(* The server                                                              *)
(***************************************************************************)

\* Login and the switches issue a token of a new family.
NewSession(c) ==
    \E f \in BwFamilies :
        /\ sessions[f].latest = 0 /\ \A g \in 1 .. f - 1 : sessions[g].latest > 0
        /\ sessions' = [sessions EXCEPT ![f] = [scope |-> call[c].where, latest |-> 1]]
        /\ call' = [call EXCEPT ![c].at = "answered",
                                ![c].answer = Ok(call[c].where, <<f, 1>>)]
        /\ UNCHANGED dead

\* Logout revokes the family of the cookie, whichever session the tab shows.
ServeLogout(c) ==
    /\ dead' = IF call[c].carries = NoCookie THEN dead ELSE dead \cup {call[c].carries[1]}
    /\ call' = [call EXCEPT ![c].at = "answered", ![c].answer = [Ok("none", NoCookie) EXCEPT
                                                                   !.clears = TRUE]]
    /\ UNCHANGED sessions

\* Auth lets in a bearer token that is there and has not expired.
ServeCall(c) ==
    LET access == call[c].access
        reply(answer) == call' = [call EXCEPT ![c].at = "answered", ![c].answer = answer] IN
    /\ call[c].at = "sent"
    /\ \/ call[c].kind = "login" /\ NewSession(c)
       \/ /\ call[c].kind # "login" /\ ~access.fresh
          /\ reply(IF access.scope = "none" THEN Refusal(FALSE) ELSE Expired(FALSE))
          /\ UNCHANGED <<sessions, dead>>
       \/ /\ access.fresh
          /\ \/ call[c].kind = "switch" /\ NewSession(c)
             \/ call[c].kind = "logout" /\ ServeLogout(c)
             \/ /\ call[c].kind \in {"me", "bootMe"}
                /\ reply(Ok(access.scope, NoCookie)) /\ UNCHANGED <<sessions, dead>>
             \/ /\ call[c].kind = "poll"  \* its data say nothing of the session
                /\ call' = [call EXCEPT ![c] = NoCall] /\ UNCHANGED <<sessions, dead>>
    /\ UNCHANGED <<tabOf, flight, tab, Jar, idleOut, reused, GhostVars>>

\* The organisation is kept with the refresh token; the project is not.
ScopeAfterRefresh(s) == IF s = "project" THEN "other" ELSE s

ServeRefresh(c) ==
    LET f == flight[c].cookie[1]
        answer(a) == flight' = [flight EXCEPT ![c].at = "answered", ![c].answer = a] IN
    /\ flight[c].at = "sent"
    /\ \/ flight[c].cookie = NoCookie
          /\ answer(Refusal(FALSE)) /\ UNCHANGED <<sessions, dead, reused>>
       \/ /\ flight[c].cookie # NoCookie
          /\ \/ f \in dead
                /\ answer(Refusal(TRUE)) /\ UNCHANGED <<sessions, dead, reused>>
             \/ /\ f \notin dead /\ flight[c].cookie[2] < sessions[f].latest
                /\ dead' = dead \cup {f} /\ reused' = reused \cup {f}
                /\ answer(Refusal(TRUE)) /\ UNCHANGED sessions
             \/ /\ f \in idleOut \ dead /\ flight[c].cookie[2] = sessions[f].latest
                /\ answer(Expired(TRUE)) /\ UNCHANGED <<sessions, dead, reused>>
             \/ /\ f \notin dead \cup idleOut /\ flight[c].cookie[2] = sessions[f].latest
                /\ sessions[f].latest < MaxRefreshes
                /\ sessions' = [sessions EXCEPT ![f].latest = @ + 1]
                /\ answer(Ok(ScopeAfterRefresh(sessions[f].scope), <<f, sessions[f].latest + 1>>))
                /\ UNCHANGED <<dead, reused>>
             \/ /\ f \notin dead \cup idleOut /\ sessions[f].scope # "home"  \* no longer a member
                /\ flight[c].cookie[2] = sessions[f].latest
                /\ dead' = dead \cup {f}
                /\ answer(Refusal(TRUE)) /\ UNCHANGED <<sessions, reused>>
    /\ UNCHANGED <<tabOf, call, tab, Jar, idleOut, GhostVars>>

(***************************************************************************)
(* Answers arrive                                                          *)
(***************************************************************************)

\* The browser applies Set-Cookie before the page sees the answer.
CookieAfter(answer) ==
    IF answer.clears THEN NoCookie
    ELSE IF answer.cookie # NoCookie THEN answer.cookie
    ELSE cookie

\* What a call that failed leaves in the store. A switch has put the new token there
\* before it asks who the user is now: without an answer the old one is shown still.
AfterFailure(kind, t) == IF kind \in {"logout", "bootMe"} THEN SignedOut ELSE tab[t]

SetCookie(answer, t) ==
    /\ cookie' = CookieAfter(answer)
    /\ broughtBy' = IF CookieAfter(answer) = NoCookie THEN "nobody"
                    ELSE IF answer.cookie = NoCookie THEN broughtBy ELSE t

\* 401 auth.token_expired, the first time: request and download await a refresh.
ArrivesExpired(c) ==
    /\ call[c].at = "answered" /\ call[c].answer.result = "expired" /\ ~call[c].retry
    /\ AwaitRefresh(c, Request(call[c].kind, call[c].where, NoAccess, TRUE, NoCookie))
    /\ UNCHANGED <<tabOf, tab, Jar, ServerVars, lostOne, mixedUp, halfSwitched, bwFaults>>

CallFails(c) ==
    LET t == tabOf[c] IN
    /\ call' = [call EXCEPT ![c] = NoCall]
    /\ tab' = [tab EXCEPT ![t] = AfterFailure(call[c].kind, t)]
    /\ mixedUp' = IF call[c].kind = "logout" /\ (Flights(t) # {} \/ MeUnderWay(t))
                  THEN mixedUp \cup {t} ELSE mixedUp
    /\ halfSwitched' = CASE call[c].kind = "me" -> halfSwitched \cup {t}
                         [] call[c].kind \in {"logout", "bootMe"} -> halfSwitched \ {t}
                         [] OTHER -> halfSwitched

ArrivesRefused(c) ==
    /\ call[c].at = "answered"
    /\ \/ call[c].answer.result = "refused"
       \/ call[c].answer.result = "expired" /\ call[c].retry
    /\ CallFails(c)
    /\ UNCHANGED <<tabOf, flight, Jar, ServerVars, doubled, lostOne, bwFaults>>

Arrives(c) ==
    LET t == tabOf[c]  s == call[c].answer.scope IN
    /\ call[c].at = "answered" /\ call[c].answer.result = "ok"
    /\ SetCookie(call[c].answer, t)
    /\ tab' = CASE call[c].kind = "login"  -> [tab EXCEPT ![t] = [access |-> Token(s), user |-> s]]
                [] call[c].kind = "switch" -> [tab EXCEPT ![t].access = Token(s)]
                [] call[c].kind \in {"me", "bootMe"} -> [tab EXCEPT ![t].user = s]
                [] call[c].kind = "logout" -> [tab EXCEPT ![t] = SignedOut]
    /\ call' = [call EXCEPT ![c] =
                   IF call[c].kind = "switch"
                   THEN Request("me", "none", Token(s), FALSE, NoCookie) ELSE NoCall]
    /\ mixedUp' = IF /\ call[c].kind \in {"login", "switch", "logout"}
                     /\ Flights(t) # {} \/ MeUnderWay(t)
                  THEN mixedUp \cup {t} ELSE mixedUp
    /\ halfSwitched' = IF call[c].kind = "switch" THEN halfSwitched ELSE halfSwitched \ {t}
    /\ UNCHANGED <<tabOf, flight, ServerVars, doubled, lostOne, bwFaults>>

\* The calls that waited go out again with the new token, or fail with the old
\* answer; bootstrap goes on to ask who the user is.
Resume(c, access, ck) ==
    [d \in Calls |->
        IF call[d].at # "waiting" \/ call[d].on # c THEN call[d]
        ELSE IF access = NoAccess THEN NoCall
        ELSE IF call[d].kind = "boot" THEN Request("bootMe", "none", access, FALSE, NoCookie)
        ELSE Request(call[d].kind, call[d].where, access, TRUE, ck)]

RefreshArrives(c) ==
    LET t == tabOf[c]  answer == flight[c].answer  f == answer.cookie[1] IN
    /\ flight[c].at = "answered" /\ answer.result = "ok"
    /\ SetCookie(answer, t)
    /\ tab' = [tab EXCEPT ![t].access = Token(answer.scope)]
    /\ call' = Resume(c, Token(answer.scope), CookieAfter(answer))
    /\ flight' = [flight EXCEPT ![c] = NoFlight]
    /\ mixedUp' = IF \/ /\ flight[c].from # t \/ sessions[f].scope = "project"
                        /\ tab[t].user # "none" \/ MeUnderWay(t)
                     \/ tab[t].user = "none" /\ ~\E d \in CallsOf(t) : Kind(d, {"boot", "bootMe"})
                  THEN mixedUp \cup {t} ELSE mixedUp
    /\ UNCHANGED <<tabOf, ServerVars, doubled, lostOne, halfSwitched, bwFaults>>

EndRefresh(c) ==
    LET t == tabOf[c] IN
    /\ tab' = [tab EXCEPT ![t] = SignedOut]
    /\ call' = Resume(c, NoAccess, NoCookie)
    /\ flight' = [flight EXCEPT ![c] = NoFlight]
    /\ mixedUp' = IF MeUnderWay(t) THEN mixedUp \cup {t} ELSE mixedUp
    /\ halfSwitched' = halfSwitched \ {t}

RefreshRefused(c) ==
    /\ flight[c].at = "answered" /\ flight[c].answer.result = "refused"
    /\ SetCookie(flight[c].answer, tabOf[c])
    /\ EndRefresh(c)
    /\ UNCHANGED <<tabOf, ServerVars, doubled, lostOne, bwFaults>>

\* The answer to a refresh is a 401 auth.token_expired as well, so the refresh
\* awaits a refresh: itself. Until the page is loaded anew, its tab waits.
RefreshAwaitsItself(c) ==
    /\ flight[c].at = "answered" /\ flight[c].answer.result = "expired"
    /\ SetCookie(flight[c].answer, tabOf[c])
    /\ flight' = [flight EXCEPT ![c].at = "self"]
    /\ UNCHANGED <<tabOf, call, tab, ServerVars, GhostVars>>

(***************************************************************************)
(* Time, and what goes wrong                                               *)
(***************************************************************************)

\* Every access token a tab has been given so far is past its time.
AccessExpires(t) ==
    /\ tab[t].access.fresh
    /\ tab' = [tab EXCEPT ![t].access.fresh = FALSE]
    /\ call' = [c \in Calls |-> IF tabOf[c] = t /\ call[c].at = "sent"
                                THEN [call[c] EXCEPT !.access.fresh = FALSE] ELSE call[c]]
    /\ UNCHANGED <<tabOf, flight, Jar, ServerVars, GhostVars>>

\* The token's time and the cookie's end together, but by two clocks.
SessionIdlesOut(f) ==
    /\ cookie # NoCookie /\ f = cookie[1] /\ f \notin idleOut
    /\ idleOut' = idleOut \cup {f}
    /\ bwFaults < MaxBwFaults /\ bwFaults' = bwFaults + 1
    /\ UNCHANGED <<tabOf, call, flight, tab, Jar, sessions, dead, reused, doubled, lostOne,
                   mixedUp, halfSwitched>>

CookieIdlesOut ==
    /\ cookie # NoCookie /\ cookie[1] \in idleOut
    /\ cookie' = NoCookie /\ broughtBy' = "nobody"
    /\ UNCHANGED <<tabOf, call, flight, tab, ServerVars, GhostVars>>

LoseCall(c) ==
    /\ call[c].at \in {"sent", "answered"} /\ bwFaults < MaxBwFaults
    /\ bwFaults' = bwFaults + 1
    /\ CallFails(c)
    /\ UNCHANGED <<tabOf, flight, Jar, ServerVars, doubled, lostOne>>

LoseRefresh(c) ==
    /\ flight[c].at \in {"sent", "answered"} /\ bwFaults < MaxBwFaults
    /\ bwFaults' = bwFaults + 1
    /\ lostOne' = (lostOne \/ flight[c].at = "answered")
    /\ EndRefresh(c)
    /\ UNCHANGED <<tabOf, Jar, ServerVars, doubled>>

Reload(t) ==
    /\ CallsOf(t) # {} /\ bwFaults < MaxBwFaults /\ bwFaults' = bwFaults + 1
    /\ lostOne' = (lostOne \/ \E c \in Flights(t) : flight[c].at = "answered")
    /\ call' = [c \in Calls |-> IF tabOf[c] = t THEN NoCall ELSE call[c]]
    /\ flight' = [c \in Calls |-> IF tabOf[c] = t THEN NoFlight ELSE flight[c]]
    /\ tab' = [tab EXCEPT ![t] = SignedOut]
    /\ mixedUp' = mixedUp \ {t} /\ halfSwitched' = halfSwitched \ {t}
    /\ UNCHANGED <<tabOf, Jar, ServerVars, doubled>>

BwCallStep(c) ==
    \/ StartCall(c, "login", "home") \/ StartCall(c, "poll", "none") \/ StartCall(c, "logout", "none")
    \/ \E s \in Destinations : StartCall(c, "switch", s)
    \/ Bootstrap(c) \/ ServeCall(c) \/ ServeRefresh(c)
    \/ ArrivesExpired(c) \/ ArrivesRefused(c) \/ Arrives(c)
    \/ RefreshArrives(c) \/ RefreshRefused(c) \/ RefreshAwaitsItself(c)
    \/ LoseCall(c) \/ LoseRefresh(c)

BwNext ==
    \/ \E c \in Calls : BwCallStep(c)
    \/ \E t \in Tabs : AccessExpires(t) \/ Reload(t)
    \/ \E f \in BwFamilies : SessionIdlesOut(f)
    \/ CookieIdlesOut

BwSpec == BwInit /\ [][BwNext]_BwVars

(***************************************************************************)
(* Properties                                                              *)
(***************************************************************************)

\* A tab with nothing under way shows the organisation or project that its
\* access token acts on, or nobody when it has none (authStore.ts: user is "what
\* every org-scoped screen reads to know which org it's managing"), through
\* expiries and refreshes, and through lost and refused calls but one. Not so are
\* - tabs that switched and were then refused, or never got, /auth/me: they show the
\*   old organisation and act on the new one, until they switch, log in or are
\*   loaded anew (switchOrg and switchProject keep the token and throw);
\* - tabs where answers about who the user is overtook each other, or a refresh went
\*   with a cookie another tab had set, or out of a shared project, or came after
\*   the logout, until they are loaded anew.
ShowsWhereItActs ==
    \A t \in Tabs \ (mixedUp \cup halfSwitched) :
        (\A c \in CallsOf(t) : call[c] = NoCall) => tab[t].user = tab[t].access.scope

\* The browser never presents a token twice and so ends its own session, however
\* many calls find their token expired at once ("never fire ten concurrent
\* refreshes"), unless two tabs refresh at a time or an answer is lost.
SessionSurvivesItsClient == reused # {} => doubled \/ lostOne

\* What the user sees is what the session can do, as long as it lasts.
TabsInOrder == ShowsWhereItActs /\ SessionSurvivesItsClient
=============================================================================
