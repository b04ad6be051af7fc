------------------------------- MODULE Portal -------------------------------
(***************************************************************************)
(* The employee portal between the browser and the API (apps/web): the two *)
(* route handlers that hold the session cookie, the shell and the pages    *)
(* rendered on the server, and the buttons and forms that drive them.      *)
(*                                                                         *)
(* The tabs of one browser share a cookie jar.  The session cookie and the *)
(* CSRF cookie are set, expire and are deleted together, so the jar is the *)
(* session it holds and the CSRF token is named by it.  The API and the    *)
(* network are what they are in Sessions and Enforcement: any call may     *)
(* fail, before it took effect or after.                                   *)
(***************************************************************************)
EXTENDS Naturals, FiniteSets

CONSTANTS Tab, Session, None,
          Codes     \* the permission codes the account may gain or lose

Areas == {"home", "profile", "team"}
Authed == Areas \cup {"member"}
Screens == {"blank", "form", "expired", "error", "shown", "notfound", "denied", "unloaded"}
\* The screens below the shell of app/portal/(authed)/layout.tsx.
Shelled == Screens \ {"blank", "form", "expired", "error"}

ASSUME PortalAssumption ==
    /\ None \notin Session /\ Codes \subseteq {"hr:read_self", "hr:read_team"}
    /\ IsFiniteSet(Tab)

VARIABLES sessions,   \* the API's rows: none, live or ended
          codes,      \* the permission codes of the account
          jar,        \* the session in the cookie jar
          tabs,
          astray,     \* history: sessions whose holder was lost by a failure or a race
          lost        \* history: whether an answer or a call was lost
vars == <<sessions, codes, jar, tabs, astray, lost>>

(* A tab: what it shows, what it waits for, the area and the cookie of its *)
(* last request, the entries of its navigation, the session it is given or *)
(* the CSRF token it presents, and whether codes changed since the shell.  *)
Blank == [screen |-> "blank", step |-> "idle", area |-> "home", held |-> None,
          nav |-> {}, token |-> None, revised |-> FALSE]

Steps == {"idle", "signin", "shell", "page", "login", "opened", "logout", "goodbye"}

Live == {s \in Session : sessions[s] = "live"}
InFlight == {tabs[t].token : t \in {u \in Tab : tabs[u].step = "opened"}}

TypeOK ==
    /\ sessions \in [Session -> {"none", "live", "ended"}]
    /\ codes \subseteq Codes
    /\ jar \in Session \cup {None}
    /\ jar # None => sessions[jar] # "none"
    /\ tabs \in [Tab -> [screen : Screens, step : Steps, area : Authed,
                         held : Session \cup {None}, nav : SUBSET Areas,
                         token : Session \cup {None}, revised : BOOLEAN]]
    /\ \A t \in Tab : tabs[t].step = "idle" /\ tabs[t].nav # {} => tabs[t].screen \in Shelled
    /\ astray \subseteq Session
    /\ lost \in BOOLEAN

Init ==
    /\ sessions = [s \in Session |-> "none"]
    /\ codes \in SUBSET Codes
    /\ jar = None
    /\ tabs = [t \in Tab |-> Blank]
    /\ astray = {}
    /\ lost = FALSE

-----------------------------------------------------------------------------
(* What get() of lib/portal-api.ts makes of an answer.  Without a cookie   *)
(* no request is sent; 401 with one is an ended session; a timeout, a 5xx  *)
(* or no answer is a failure.                                              *)
Get(s, answers) ==
    IF s = None THEN {"unauthenticated"}
    ELSE {"failed"} \cup (IF sessions[s] = "live" THEN answers ELSE {"expired"})

Me == {"ok"}
Gated(code) == IF code \in codes THEN {"ok"} ELSE {"forbidden"}
Answers(area) ==
    CASE area = "home" -> Me
      [] area = "profile" -> Gated("hr:read_self")
      [] area = "team" -> Gated("hr:read_team")
      [] area = "member" -> {"ok", "forbidden", "notfound"}

visibleEntries(held) ==
    {"home"} \cup (IF "hr:read_self" \in held THEN {"profile"} ELSE {})
             \cup (IF "hr:read_team" \in held THEN {"team"} ELSE {})

Step(t, tab) ==
    /\ tabs' = [tabs EXCEPT ![t] = tab]
    /\ UNCHANGED <<sessions, codes, jar, astray, lost>>

\* A request takes the cookie along as the jar is then; the shell, the sign-in
\* page and the boundary of portal/error.tsx replace the shell there was.
To(step, area) == [Blank EXCEPT !.step = step, !.area = area, !.held = jar]
ToPage(tab, area) == [tab EXCEPT !.screen = "blank", !.step = "page", !.area = area, !.held = jar]
Show(tab, screen) ==
    [tab EXCEPT !.step = "idle", !.screen = screen, !.held = None,
                !.area = IF screen = "denied" \/ (screen = "shown" /\ tab.area = "team")
                         THEN tab.area ELSE "home"]
ShowBare(tab, screen) ==
    [Blank EXCEPT !.screen = screen, !.held = IF screen = "expired" THEN tab.held ELSE None]

-----------------------------------------------------------------------------
(* Navigation.                                                             *)

\* An address is opened or reloaded, as after router.refresh().
Load(t, area) ==
    /\ tabs[t].step = "idle"
    /\ Step(t, To("shell", area))

LoadSignIn(t) ==
    /\ tabs[t].step = "idle"
    /\ Step(t, To("signin", "home"))

\* A link below the shell, which the client keeps: only the page is rendered.
Follow(t, area) ==
    /\ tabs[t].step = "idle"
    /\ \/ area \in tabs[t].nav
       \/ tabs[t].screen = "shown" /\ tabs[t].area = "team" /\ area = "member"
    /\ Step(t, ToPage(tabs[t], area))

\* AuthenticatedPortalLayout.  Its page is rendered beside it; what that
\* answers is dropped when the shell redirects or fails.
RenderShell(t) ==
    /\ tabs[t].step = "shell"
    /\ \E outcome \in Get(tabs[t].held, Me) :
        \/ /\ outcome = "ok"
           /\ Step(t, [tabs[t] EXCEPT !.step = "page", !.nav = visibleEntries(codes),
                                      !.revised = FALSE])
        \/ /\ outcome \in {"unauthenticated", "expired"}
           /\ Step(t, To("signin", "home"))
        \/ /\ outcome = "failed"
           /\ Step(t, ShowBare(tabs[t], "error"))

\* The pages below the shell.  home has no catch of its own; the others tell
\* a refusal and an absence from everything else, an ended session included.
RenderPage(t) ==
    LET area == tabs[t].area
    IN  /\ tabs[t].step = "page"
        /\ \E outcome \in Get(tabs[t].held, Answers(area)) :
            \/ outcome = "ok" /\ Step(t, Show(tabs[t], "shown"))
            \/ outcome = "forbidden" /\ Step(t, Show(tabs[t], "denied"))
            \/ outcome = "notfound" /\ Step(t, Show(tabs[t], "notfound"))
            \/ /\ outcome \in {"failed", "expired", "unauthenticated"}
               /\ IF area = "home" THEN Step(t, ShowBare(tabs[t], "error"))
                  ELSE Step(t, Show(tabs[t], "unloaded"))

\* Faulty variant: a cookie is taken for a session.
RenderSignInByCookie(t) ==
    /\ tabs[t].step = "signin"
    /\ \/ tabs[t].held = None /\ Step(t, ShowBare(tabs[t], "form"))
       \/ tabs[t].held # None /\ Step(t, To("shell", "home"))

\* Faulty variant: whatever goes wrong with a cookie at hand is an expiry.
RenderSignInCatchAll(t) ==
    /\ tabs[t].step = "signin"
    /\ \E outcome \in Get(tabs[t].held, Me) :
        \/ outcome = "ok" /\ Step(t, To("shell", "home"))
        \/ outcome = "unauthenticated" /\ Step(t, ShowBare(tabs[t], "form"))
        \/ outcome \in {"expired", "failed"} /\ Step(t, ShowBare(tabs[t], "expired"))

\* PortalSignInPage: on to the portal, the form, or the form under a notice.
RenderSignIn(t) ==
    /\ tabs[t].step = "signin"
    /\ \E outcome \in Get(tabs[t].held, Me) :
        \/ outcome = "ok" /\ Step(t, To("shell", "home"))
        \/ outcome = "unauthenticated" /\ Step(t, ShowBare(tabs[t], "form"))
        \/ outcome = "expired" /\ Step(t, ShowBare(tabs[t], "expired"))
        \/ outcome = "failed" /\ Step(t, ShowBare(tabs[t], "error"))

-----------------------------------------------------------------------------
(* Sign-in: SignInForm.onSubmit and the login route handler.               *)

Submit(t) ==
    /\ tabs[t].step = "idle"
    /\ tabs[t].screen \in {"form", "expired"}
    /\ Step(t, [tabs[t] EXCEPT !.step = "login"])

\* Any refusal, verbatim, or no answer at all: the form says so and stays.
RefuseLogin(t) ==
    /\ tabs[t].step = "login"
    /\ Step(t, [tabs[t] EXCEPT !.step = "idle"])

\* The API opens a session; its answer is on the way back.
OpenSession(t, s) ==
    /\ tabs[t].step = "login"
    /\ sessions[s] = "none"
    /\ sessions' = [sessions EXCEPT ![s] = "live"]
    /\ tabs' = [tabs EXCEPT ![t].step = "opened", ![t].token = s]
    /\ UNCHANGED <<codes, jar, astray, lost>>

\* The answer is lost before the handler reads it, or the handler's before the
\* browser does: nobody has the token.
LoseOpened(t) ==
    /\ tabs[t].step = "opened"
    /\ tabs' = [tabs EXCEPT ![t].step = "idle", ![t].token = None]
    /\ astray' = astray \cup {tabs[t].token}
    /\ lost' = TRUE
    /\ UNCHANGED <<sessions, codes, jar>>

\* The cookies arrive; another tab's session is left behind.  The form pushes
\* /portal/home and refreshes.
Welcome(t) ==
    /\ tabs[t].step = "opened"
    /\ jar' = tabs[t].token
    /\ astray' = IF jar = None THEN astray ELSE astray \cup {jar}
    /\ tabs' = [tabs EXCEPT ![t] = [To("shell", "home") EXCEPT !.held = tabs[t].token]]
    /\ UNCHANGED <<sessions, codes, lost>>

-----------------------------------------------------------------------------
(* Sign-out: SignOutButton.onClick and the logout route handler.           *)

\* The button reads the CSRF token before the request takes the cookies along.
Click(t) ==
    /\ tabs[t].step = "idle"
    /\ tabs[t].nav # {}
    /\ Step(t, [Blank EXCEPT !.step = "logout", !.token = jar])

\* Whatever became of the request, the button goes to /portal.
Leaving == To("signin", "home")

\* The tokens differ, or there is none: 403, and the cookies stay.
RefuseLogout(t) ==
    /\ tabs[t].step = "logout"
    /\ jar = None \/ tabs[t].token # jar
    /\ Step(t, Leaving)

\* The request never reaches the handler.
LoseLogout(t) ==
    /\ tabs[t].step = "logout"
    /\ lost' = TRUE
    /\ tabs' = [tabs EXCEPT ![t] = Leaving]
    /\ UNCHANGED <<sessions, codes, jar, astray>>

\* Faulty variant: only the cookies are cleared.
LogoutLocally(t) ==
    /\ tabs[t].step = "logout"
    /\ jar # None /\ tabs[t].token = jar
    /\ tabs' = [tabs EXCEPT ![t].step = "goodbye"]
    /\ UNCHANGED <<sessions, codes, jar, astray, lost>>

\* The API is told, and its failure is swallowed: the session lives on.
Logout(t) ==
    /\ tabs[t].step = "logout"
    /\ jar # None /\ tabs[t].token = jar
    /\ tabs' = [tabs EXCEPT ![t].step = "goodbye"]
    /\ \/ /\ sessions' = [sessions EXCEPT ![jar] = "ended"]
          /\ UNCHANGED <<astray, lost>>
       \/ /\ sessions[jar] = "live"
          /\ astray' = astray \cup {jar}
          /\ lost' = TRUE
          /\ UNCHANGED sessions
    /\ UNCHANGED <<codes, jar>>

\* The answer deletes the cookies, those of a session another tab has opened
\* meanwhile included.
Goodbye(t) ==
    /\ tabs[t].step = "goodbye"
    /\ jar' = None
    /\ astray' = IF jar \in {None, tabs[t].token} THEN astray ELSE astray \cup {jar}
    /\ tabs' = [tabs EXCEPT ![t] = [Leaving EXCEPT !.held = None]]
    /\ UNCHANGED <<sessions, codes, lost>>

LoseGoodbye(t) ==
    /\ tabs[t].step = "goodbye"
    /\ lost' = TRUE
    /\ tabs' = [tabs EXCEPT ![t] = Leaving]
    /\ UNCHANGED <<sessions, codes, jar, astray>>

-----------------------------------------------------------------------------
(* The API's own doings, and the cookies' Max-Age, which is the cap.       *)

EndSession(s) ==
    /\ sessions[s] = "live"
    /\ sessions' = [sessions EXCEPT ![s] = "ended"]
    /\ UNCHANGED <<codes, jar, tabs, astray, lost>>

ExpireCookies ==
    /\ jar # None
    /\ sessions' = [sessions EXCEPT ![jar] = "ended"]
    /\ jar' = None
    /\ UNCHANGED <<codes, tabs, astray, lost>>

ChangeCodes ==
    /\ codes' \in SUBSET Codes
    /\ codes' # codes
    /\ tabs' = [t \in Tab |-> [tabs[t] EXCEPT !.revised = tabs[t].nav # {}]]
    /\ UNCHANGED <<sessions, jar, astray, lost>>

Render(t) == RenderShell(t) \/ RenderPage(t) \/ RenderSignIn(t)

Next ==
    \/ \E t \in Tab :
        \/ LoadSignIn(t)
        \/ \E area \in Authed : Load(t, area) \/ Follow(t, area)
        \/ Render(t)
        \/ Submit(t) \/ RefuseLogin(t) \/ LoseOpened(t) \/ Welcome(t)
        \/ \E s \in Session : OpenSession(t, s)
        \/ Click(t) \/ RefuseLogout(t) \/ LoseLogout(t) \/ Logout(t)
        \/ Goodbye(t) \/ LoseGoodbye(t)
    \/ \E s \in Session : EndSession(s)
    \/ ExpireCookies
    \/ ChangeCodes

Spec == Init /\ [][Next]_vars

\* get() gives up after ten seconds, so a page that is being rendered is
\* rendered.  The two route handlers call the API without a timeout.
FairSpec == Spec /\ \A t \in Tab : WF_vars(Render(t))

-----------------------------------------------------------------------------
\* Every live session is held: by the jar, or by an answer under way.  What
\* else leaves one without a holder until it expires is a lost answer, an API
\* that a sign-out did not reach, or the cookies of two tabs crossing (the two
\* route handlers together with the API's sign-in and sign-out).
\* A single tab that loses nothing never leaves one behind.
AccountedFor ==
    /\ Live \subseteq {jar} \cup InFlight \cup astray
    /\ Cardinality({t \in Tab : tabs[t] # Blank}) <= 1 /\ ~lost => Live \cap astray = {}

\* The states portal-routes.md section 3 keeps apart: the form is for who came
\* without a cookie, the notice of expiry is for who brought one that has
\* ended, and neither ever stands for an outage.
ScreenTellsTruth ==
    \A t \in Tab : tabs[t].step = "idle" =>
        /\ tabs[t].screen = "form" => tabs[t].held = None
        /\ tabs[t].screen = "expired" =>
               tabs[t].held # None /\ sessions[tabs[t].held] = "ended"

\* A link of the navigation leads to a refusal only if the codes changed after
\* the shell was rendered (PortalNav against the rules of the API).
LinksLead ==
    \A t \in Tab :
        tabs[t].step = "idle" /\ tabs[t].screen = "denied" /\ ~tabs[t].revised =>
            tabs[t].area \notin tabs[t].nav

\* Whatever the tabs do to each other's cookies, what one shows is so.
Sound == TypeOK /\ ScreenTellsTruth /\ LinksLead

\* Shell and sign-in page redirect to each other, and always come to rest.
Settles == \A t \in Tab : (tabs[t].step \in {"shell", "signin", "page"}) ~> (tabs[t].step = "idle")
=============================================================================
