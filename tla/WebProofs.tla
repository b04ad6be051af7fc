------------------------------ MODULE WebProofs -------------------------------
(***************************************************************************)
(* Proofs about the web application, for any number of tabs, sessions,     *)
(* stores, profiles, vacancies and messages, and every dataset.            *)
(*                                                                         *)
(* Portal: what the tabs show is so, and no live session is without a      *)
(* holder.  Sound and AccountedFor are not inductive: IInv adds what a tab *)
(* that is rendering, signing in or signing out knows of the session it    *)
(* holds, and, as long as one tab is alone and nothing was lost, that the  *)
(* jar changes only with what this tab does.                               *)
(*                                                                         *)
(* Site: what the public pages show was so, what they leave out is on      *)
(* record or made up for by what was lost meanwhile, the form tells the    *)
(* truth, and the status page shows the answers of one refresh.            *)
(***************************************************************************)
EXTENDS Portal, Site, FiniteSetTheorems, TLAPS

(***************************************************************************)
(* Portal.                                                                 *)
(***************************************************************************)
TabRecord == [screen : Screens, step : Steps, area : Authed, held : Session \cup {None},
              nav : SUBSET Areas, token : Session \cup {None}, revised : BOOLEAN]

\* What the pages of the shell and the form know of the account.
Tells(tab, ss, cs) ==
    /\ tab.step = "idle" /\ tab.nav # {} => tab.screen \in Shelled
    /\ tab.step \in {"login", "opened"} => tab.screen \in {"form", "expired"} /\ tab.nav = {}
    /\ tab.step \in {"idle", "login", "opened"} =>
        /\ tab.screen = "form" => tab.held = None
        /\ tab.screen = "expired" => tab.held # None /\ ss[tab.held] = "ended"
    /\ tab.nav # {} /\ ~tab.revised => tab.nav = visibleEntries(cs)
    /\ tab.step = "idle" /\ tab.screen = "denied" /\ ~tab.revised => tab.area \notin tab.nav

\* What a tab holds is a session that was opened; once the API answered a
\* sign-out, or did not, the session is over or given up for lost.
Holds(tab, ss, as) ==
    /\ tab.held # None => ss[tab.held] # "none"
    /\ tab.step = "opened" => tab.token \in Session /\ ss[tab.token] # "none"
    /\ tab.step = "goodbye" => tab.token \in Session /\ (ss[tab.token] = "ended" \/ tab.token \in as)

Typed ==
    /\ sessions \in [Session -> {"none", "live", "ended"}]
    /\ codes \subseteq Codes
    /\ jar \in Session \cup {None}
    /\ tabs \in [Tab -> TabRecord]
    /\ astray \subseteq Session
    /\ lost \in BOOLEAN

Opened ==
    /\ jar # None => sessions[jar] # "none"
    /\ \A s \in astray : sessions[s] # "none"

TabsOK == \A t \in Tab : Tells(tabs[t], sessions, codes) /\ Holds(tabs[t], sessions, astray)

LiveHeld == Live \subseteq {jar} \cup InFlight \cup astray

\* A tab that has been used is never as it was.
Used(tab) == tab.step # "idle" \/ tab.screen # "blank"
Single == \A t, u \in Tab : Used(tabs[t]) /\ Used(tabs[u]) => t = u

\* As long as one tab is alone and nothing was lost, the jar changes only with
\* what that tab does, and when the cookies expire.
Follows(tab, ss, j) ==
    /\ tab.step \in {"shell", "signin", "page"} => j \in {tab.held, None}
    /\ tab.screen \in {"form", "expired"} /\ tab.step \in {"idle", "login", "opened"} =>
           j = None \/ ss[j] # "live"
    /\ tab.step = "goodbye" => j \in {tab.token, None}

AloneOK ==
    Single /\ ~lost => Live \cap astray = {} /\ \A t \in Tab : Follows(tabs[t], sessions, jar)

IInv == Typed /\ Opened /\ TabsOK /\ LiveHeld /\ AloneOK

-----------------------------------------------------------------------------
(* Records: the tabs the operators of Portal make.                         *)

\* The request a tab sends for the shell, the sign-in page or a sign-out.
LEMMA ToFields ==
    ASSUME NEW step \in Steps, NEW area \in Authed, jar \in Session \cup {None}
    PROVE  /\ To(step, area) \in TabRecord
           /\ To(step, area).step = step
           /\ To(step, area).screen = "blank"
           /\ To(step, area).held = jar
           /\ To(step, area).nav = {}
           /\ To(step, area).token = None
<1> DEFINE new == [Blank EXCEPT !.step = step, !.area = area, !.held = jar]
<1>1. Blank \in TabRecord
  BY DEF Blank, TabRecord, Screens, Steps, Authed, Areas
<1>2. /\ new \in TabRecord /\ new.step = step /\ new.held = jar
      /\ new.screen = Blank.screen /\ new.nav = Blank.nav /\ new.token = Blank.token
  BY <1>1 DEF TabRecord
<1> QED  BY <1>2 DEF To, Blank

\* A link below the shell keeps the navigation there was.
LEMMA ToPageFields ==
    ASSUME NEW tab \in TabRecord, NEW area \in Authed, jar \in Session \cup {None}
    PROVE  /\ ToPage(tab, area) \in TabRecord
           /\ ToPage(tab, area).step = "page"
           /\ ToPage(tab, area).screen = "blank"
           /\ ToPage(tab, area).held = jar
           /\ ToPage(tab, area).nav = tab.nav
           /\ ToPage(tab, area).revised = tab.revised
BY DEF ToPage, TabRecord, Screens, Steps

\* A page that is shown lets go of the cookie it was asked for with.
LEMMA ShowFields ==
    ASSUME NEW tab \in TabRecord, NEW screen \in Screens
    PROVE  /\ Show(tab, screen) \in TabRecord
           /\ Show(tab, screen).step = "idle"
           /\ Show(tab, screen).screen = screen
           /\ Show(tab, screen).held = None
           /\ Show(tab, screen).nav = tab.nav
           /\ Show(tab, screen).revised = tab.revised
           /\ screen = "denied" => Show(tab, screen).area = tab.area
<1> DEFINE area == IF screen = "denied" \/ (screen = "shown" /\ tab.area = "team")
                   THEN tab.area ELSE "home"
           new == [tab EXCEPT !.step = "idle", !.screen = screen, !.held = None, !.area = area]
<1>1. area \in Authed /\ (screen = "denied" => area = tab.area)
  BY DEF TabRecord, Authed, Areas
<1> HIDE DEF area
<1>2. /\ new \in TabRecord /\ new.step = "idle" /\ new.screen = screen /\ new.held = None
      /\ new.nav = tab.nav /\ new.revised = tab.revised /\ new.area = area
  BY <1>1 DEF TabRecord, Steps
<1>3. Show(tab, screen) = new
  BY DEF Show, area
<1> QED  BY <1>1, <1>2, <1>3

\* The sign-in page and the boundary of an error have no navigation.
LEMMA ShowBareFields ==
    ASSUME NEW tab \in TabRecord, NEW screen \in Screens
    PROVE  /\ ShowBare(tab, screen) \in TabRecord
           /\ ShowBare(tab, screen).step = "idle"
           /\ ShowBare(tab, screen).screen = screen
           /\ ShowBare(tab, screen).nav = {}
           /\ ShowBare(tab, screen).held = IF screen = "expired" THEN tab.held ELSE None
<1> DEFINE held == IF screen = "expired" THEN tab.held ELSE None
           new == [Blank EXCEPT !.screen = screen, !.held = held]
<1>1. held \in Session \cup {None}
  BY DEF TabRecord
<1>2. Blank \in TabRecord /\ Blank.step = "idle" /\ Blank.nav = {}
  BY DEF Blank, TabRecord, Screens, Steps, Authed, Areas
<1>3. ShowBare(tab, screen) = new
  BY DEF ShowBare
<1> HIDE DEF held
<1>4. /\ new \in TabRecord /\ new.step = "idle" /\ new.screen = screen /\ new.nav = {}
      /\ new.held = held
  BY <1>1, <1>2 DEF TabRecord
<1> QED  BY <1>3, <1>4 DEF held

-----------------------------------------------------------------------------
(* What the other tabs know survives what one tab, or the API, does.       *)

\* Sessions are opened and ended, never the reverse, and what went astray stays so.
Onward(ss, tt, as, bs) ==
    /\ \A s \in Session : ss[s] = "ended" => tt[s] = "ended"
    /\ \A s \in Session : ss[s] # "none" => tt[s] # "none"
    /\ as \subseteq bs

LEMMA Persists ==
    ASSUME NEW tab \in TabRecord, NEW ss, NEW tt, NEW as, NEW bs, NEW cs,
           Onward(ss, tt, as, bs)
    PROVE  /\ Tells(tab, ss, cs) => Tells(tab, tt, cs)
           /\ Holds(tab, ss, as) => Holds(tab, tt, bs)
<1>1. tab.held \in Session \cup {None} /\ tab.token \in Session \cup {None}
  BY DEF TabRecord
<1>2. Tells(tab, ss, cs) => Tells(tab, tt, cs)
  BY <1>1 DEF Tells, Onward
<1>3. Holds(tab, ss, as) => Holds(tab, tt, bs)
  BY <1>1 DEF Holds, Onward
<1> QED  BY <1>2, <1>3

\* A live session has one of three holders.
Kept(s) == s = jar \/ s \in astray \/ \E u \in Tab : tabs[u].step = "opened" /\ tabs[u].token = s

LEMMA LiveKept ==
    /\ LiveHeld <=> \A s \in Session : sessions[s] = "live" => Kept(s)
    /\ LiveHeld' <=> \A s \in Session : sessions'[s] = "live" => Kept(s)'
BY DEF LiveHeld, Live, InFlight, Kept

\* A tab that has not been used waits for nothing.
LEMMA UnusedFollows ==
    ASSUME NEW tab, NEW ss, NEW j, ~Used(tab)
    PROVE  Follows(tab, ss, j)
BY DEF Used, Follows

\* What a step of one tab has to show for the invariant: what it makes of the
\* tab, of the holders of the live sessions, and of the jar if it is alone.
LEMMA TabStep ==
    ASSUME IInv, NEW t \in Tab,
           Typed', Opened', LiveHeld', codes' = codes, lost => lost',
           Onward(sessions, sessions', astray, astray'),
           \A u \in Tab \ {t} : tabs'[u] = tabs[u],
           Used(tabs'[t]),
           Tells(tabs'[t], sessions', codes),
           Holds(tabs'[t], sessions', astray'),
           Single /\ ~lost' => /\ Live' \cap astray' = {}
                               /\ Follows(tabs'[t], sessions', jar')
    PROVE  IInv'
<1>1. TabsOK'
  <2> SUFFICES ASSUME NEW u \in Tab
               PROVE  Tells(tabs'[u], sessions', codes') /\ Holds(tabs'[u], sessions', astray')
    BY DEF TabsOK
  <2>1. CASE u = t
    BY <2>1
  <2>2. CASE u # t
    <3>1. tabs'[u] = tabs[u] /\ tabs[u] \in TabRecord
      BY <2>2 DEF IInv, Typed
    <3>2. Tells(tabs[u], sessions, codes) /\ Holds(tabs[u], sessions, astray)
      BY DEF IInv, TabsOK
    <3> QED  BY <3>1, <3>2, Persists
  <2> QED  BY <2>1, <2>2
<1>2. AloneOK'
  <2> SUFFICES ASSUME Single', ~lost'
               PROVE  Live' \cap astray' = {} /\ \A u \in Tab : Follows(tabs'[u], sessions', jar')
    BY DEF AloneOK
  <2>1. Single
    <3> SUFFICES ASSUME NEW u \in Tab, NEW v \in Tab, Used(tabs[u]), Used(tabs[v])
                 PROVE  u = v
      BY DEF Single
    <3>1. Used(tabs'[u]) /\ Used(tabs'[v])
      BY Zenon
    <3> QED  BY <3>1 DEF Single
  <2>2. \A u \in Tab : Follows(tabs'[u], sessions', jar')
    <3> SUFFICES ASSUME NEW u \in Tab PROVE Follows(tabs'[u], sessions', jar')
      OBVIOUS
    <3>1. CASE u = t
      BY <2>1, <3>1
    <3>2. CASE u # t
      <4>1. ~Used(tabs'[u])
        BY <3>2 DEF Single
      <4> QED  BY <4>1, UnusedFollows
    <3> QED  BY <3>1, <3>2
  <2> QED  BY <2>1, <2>2
<1> QED  BY <1>1, <1>2 DEF IInv

\* Most steps change nothing but their tab.
LEMMA QuietStep ==
    ASSUME IInv, NEW t \in Tab, NEW tab \in TabRecord, Step(t, tab),
           tabs[t].step # "opened",
           Used(tab),
           Tells(tab, sessions, codes),
           Holds(tab, sessions, astray),
           Single /\ ~lost => Follows(tab, sessions, jar)
    PROVE  IInv'
<1>1. /\ tabs' = [tabs EXCEPT ![t] = tab]
      /\ sessions' = sessions /\ codes' = codes /\ jar' = jar /\ astray' = astray /\ lost' = lost
  BY DEF Step
<1>2. tabs \in [Tab -> TabRecord]
  BY DEF IInv, Typed
<1>3. tabs' \in [Tab -> TabRecord] /\ tabs'[t] = tab /\ \A u \in Tab \ {t} : tabs'[u] = tabs[u]
  BY <1>1, <1>2
<1>4. Typed' /\ Opened'
  BY <1>1, <1>3 DEF IInv, Typed, Opened
<1>5. LiveHeld'
  <2> SUFFICES ASSUME NEW s \in Session, sessions[s] = "live" PROVE Kept(s)'
    BY <1>1, LiveKept
  <2>1. Kept(s)
    BY LiveKept DEF IInv
  <2>2. CASE \E u \in Tab : tabs[u].step = "opened" /\ tabs[u].token = s
    <3>1. PICK u \in Tab : tabs[u].step = "opened" /\ tabs[u].token = s
      BY <2>2
    <3>2. tabs'[u] = tabs[u]
      BY <1>3, <3>1
    <3> QED  BY <3>1, <3>2 DEF Kept
  <2> QED  BY <1>1, <2>1, <2>2 DEF Kept
<1>6. Single /\ ~lost' => Live' \cap astray' = {} /\ Follows(tabs'[t], sessions', jar')
  BY <1>1, <1>3 DEF IInv, AloneOK, Live
<1>7. Onward(sessions, sessions', astray, astray')
  BY <1>1 DEF Onward
<1>8. /\ Used(tabs'[t])
      /\ Tells(tabs'[t], sessions', codes)
      /\ Holds(tabs'[t], sessions', astray')
  BY <1>1, <1>3
<1> QED  BY <1>1, <1>3, <1>4, <1>5, <1>6, <1>7, <1>8, TabStep

\* What the invariant says of one tab.
LEMMA TabFacts ==
    ASSUME IInv, NEW t \in Tab
    PROVE  /\ tabs[t] \in TabRecord
           /\ jar \in Session \cup {None}
           /\ jar # None => sessions[jar] # "none"
           /\ Tells(tabs[t], sessions, codes)
           /\ Holds(tabs[t], sessions, astray)
           /\ Single /\ ~lost => Follows(tabs[t], sessions, jar)
BY DEF IInv, Typed, Opened, TabsOK, AloneOK

-----------------------------------------------------------------------------
(* Navigation.                                                             *)

\* Asking for the shell or the sign-in page takes the jar's cookie along.
LEMMA AskStep ==
    ASSUME IInv, NEW t \in Tab, NEW step \in {"shell", "signin"}, NEW area \in Authed,
           Step(t, To(step, area)), tabs[t].step # "opened"
    PROVE  IInv'
<1>1. jar \in Session \cup {None} /\ (jar # None => sessions[jar] # "none")
  BY TabFacts
<1> DEFINE tab == To(step, area)
<1>2. /\ tab \in TabRecord /\ tab.step = step /\ tab.screen = "blank"
      /\ tab.held = jar /\ tab.nav = {}
  BY <1>1, ToFields DEF Steps
<1> HIDE DEF tab
<1>3. Used(tab) /\ Tells(tab, sessions, codes) /\ Holds(tab, sessions, astray)
  BY <1>1, <1>2 DEF Used, Tells, Holds
<1>4. Follows(tab, sessions, jar)
  BY <1>2 DEF Follows
<1>5. Step(t, tab)
  BY DEF tab
<1> QED  BY <1>2, <1>3, <1>4, <1>5, QuietStep

LEMMA LoadStep ==
    ASSUME IInv, NEW t \in Tab, NEW area \in Authed, Load(t, area)
    PROVE  IInv'
BY AskStep DEF Load

LEMMA LoadSignInStep ==
    ASSUME IInv, NEW t \in Tab, LoadSignIn(t)
    PROVE  IInv'
BY AskStep DEF LoadSignIn, Authed, Areas

\* A link keeps the shell, and with it what the navigation was made from.
LEMMA FollowStep ==
    ASSUME IInv, NEW t \in Tab, NEW area \in Authed, Follow(t, area)
    PROVE  IInv'
<1>1. /\ tabs[t] \in TabRecord /\ jar \in Session \cup {None}
      /\ jar # None => sessions[jar] # "none"
      /\ Tells(tabs[t], sessions, codes)
  BY TabFacts
<1>2. tabs[t].step = "idle" /\ Step(t, ToPage(tabs[t], area))
  BY DEF Follow
<1> DEFINE tab == ToPage(tabs[t], area)
<1>3. /\ tab \in TabRecord /\ tab.step = "page" /\ tab.screen = "blank" /\ tab.held = jar
      /\ tab.nav = tabs[t].nav /\ tab.revised = tabs[t].revised
  BY <1>1, ToPageFields
<1> HIDE DEF tab
<1>4. Used(tab) /\ Tells(tab, sessions, codes) /\ Holds(tab, sessions, astray)
  BY <1>1, <1>3 DEF Used, Tells, Holds
<1>5. Follows(tab, sessions, jar)
  BY <1>3 DEF Follows
<1>6. Step(t, tab)
  BY <1>2 DEF tab
<1> QED  BY <1>2, <1>3, <1>4, <1>5, <1>6, QuietStep

-----------------------------------------------------------------------------
(* Rendering.                                                              *)

\* A page below the shell is shown, refused, missing or unloaded.
LEMMA ShowStep ==
    ASSUME IInv, NEW t \in Tab, NEW screen \in Shelled, Step(t, Show(tabs[t], screen)),
           tabs[t].step = "page",
           screen = "denied" /\ ~tabs[t].revised => tabs[t].area \notin tabs[t].nav
    PROVE  IInv'
<1>1. tabs[t] \in TabRecord /\ Tells(tabs[t], sessions, codes)
  BY TabFacts
<1> DEFINE tab == Show(tabs[t], screen)
<1>2. /\ tab \in TabRecord /\ tab.step = "idle" /\ tab.screen = screen /\ tab.held = None
      /\ tab.nav = tabs[t].nav /\ tab.revised = tabs[t].revised
      /\ screen = "denied" => tab.area = tabs[t].area
  BY <1>1, ShowFields DEF Shelled
<1> HIDE DEF tab
<1>3. screen \notin {"blank", "form", "expired", "error"}
  BY DEF Shelled
<1>4. Used(tab) /\ Tells(tab, sessions, codes) /\ Holds(tab, sessions, astray)
  BY <1>1, <1>2, <1>3 DEF Used, Tells, Holds
<1>5. Follows(tab, sessions, jar)
  BY <1>2, <1>3 DEF Follows
<1>6. Step(t, tab)
  BY DEF tab
<1> QED  BY <1>2, <1>4, <1>5, <1>6, QuietStep

\* The error boundary and the sign-in page stand alone.
LEMMA ShowBareStep ==
    ASSUME IInv, NEW t \in Tab, NEW screen \in {"form", "expired", "error"},
           Step(t, ShowBare(tabs[t], screen)),
           tabs[t].step \in {"shell", "page", "signin"},
           screen = "form" => tabs[t].held = None,
           screen = "expired" => tabs[t].held # None /\ sessions[tabs[t].held] = "ended"
    PROVE  IInv'
<1>1. /\ tabs[t] \in TabRecord /\ Holds(tabs[t], sessions, astray)
      /\ Single /\ ~lost => Follows(tabs[t], sessions, jar)
  BY TabFacts
<1> DEFINE tab == ShowBare(tabs[t], screen)
<1>2. /\ tab \in TabRecord /\ tab.step = "idle" /\ tab.screen = screen /\ tab.nav = {}
      /\ tab.held = IF screen = "expired" THEN tabs[t].held ELSE None
  BY <1>1, ShowBareFields DEF Screens
<1> HIDE DEF tab
<1>3. Used(tab) /\ Tells(tab, sessions, codes) /\ Holds(tab, sessions, astray)
  BY <1>1, <1>2 DEF Used, Tells, Holds
<1>4. ASSUME Single, ~lost PROVE Follows(tab, sessions, jar)
  <2>1. jar \in {tabs[t].held, None}
    BY <1>1, <1>4 DEF Follows
  <2>2. screen \in {"form", "expired"} => jar = None \/ sessions[jar] # "live"
    BY <2>1
  <2> QED  BY <1>2, <2>2 DEF Follows
<1>5. Step(t, tab)
  BY DEF tab
<1> QED  BY <1>2, <1>3, <1>4, <1>5, QuietStep

\* Nobody is unauthenticated with a cookie, nor expired with a live session.
LEMMA GetOutcome ==
    ASSUME NEW s \in Session \cup {None}, NEW answers, NEW outcome \in Get(s, answers),
           answers \cap {"expired", "unauthenticated"} = {}
    PROVE  /\ outcome = "unauthenticated" => s = None
           /\ outcome = "expired" => s # None /\ sessions[s] # "live"
           /\ outcome \notin {"unauthenticated", "expired", "failed"} => outcome \in answers
BY DEF Get

LEMMA RenderShellStep ==
    ASSUME IInv, NEW t \in Tab, RenderShell(t)
    PROVE  IInv'
<1>1. /\ tabs[t] \in TabRecord /\ Holds(tabs[t], sessions, astray)
      /\ Single /\ ~lost => Follows(tabs[t], sessions, jar)
  BY TabFacts
<1>2. tabs[t].step = "shell" /\ tabs[t].held \in Session \cup {None}
  BY <1>1 DEF RenderShell, TabRecord
<1>3. CASE Step(t, [tabs[t] EXCEPT !.step = "page", !.nav = visibleEntries(codes),
                                   !.revised = FALSE])
  <2> DEFINE tab == [tabs[t] EXCEPT !.step = "page", !.nav = visibleEntries(codes),
                                    !.revised = FALSE]
  <2>1. visibleEntries(codes) \in SUBSET Areas
    BY DEF visibleEntries, Areas
  <2>2. /\ tab \in TabRecord /\ tab.step = "page" /\ tab.screen = tabs[t].screen
        /\ tab.held = tabs[t].held /\ tab.nav = visibleEntries(codes)
    BY <1>1, <2>1 DEF TabRecord, Steps
  <2>3. Step(t, tab)
    BY <1>3
  <2> HIDE DEF tab
  <2>4. Used(tab) /\ Tells(tab, sessions, codes) /\ Holds(tab, sessions, astray)
    BY <1>1, <2>2 DEF Used, Tells, Holds
  <2>5. Single /\ ~lost => Follows(tab, sessions, jar)
    BY <1>1, <1>2, <2>2 DEF Follows
  <2> QED  BY <1>2, <2>2, <2>3, <2>4, <2>5, QuietStep
<1>4. CASE Step(t, To("signin", "home"))
  BY <1>2, <1>4, AskStep DEF Authed, Areas
<1>5. CASE Step(t, ShowBare(tabs[t], "error"))
  BY <1>2, <1>5, ShowBareStep
<1> QED  BY <1>3, <1>4, <1>5 DEF RenderShell

\* A refusal behind a link means that the codes changed under it: the rules
\* of the links are those of the pages.
LEMMA RefusedOffNav ==
    ASSUME IInv, NEW t \in Tab, "forbidden" \in Answers(tabs[t].area), ~tabs[t].revised
    PROVE  tabs[t].area \notin tabs[t].nav
<1>1. tabs[t] \in TabRecord /\ Tells(tabs[t], sessions, codes)
  BY TabFacts
<1>2. tabs[t].area \in Authed /\ (tabs[t].nav # {} => tabs[t].nav = visibleEntries(codes))
  BY <1>1 DEF TabRecord, Tells
<1>3. tabs[t].area \notin visibleEntries(codes)
  <2>1. CASE tabs[t].area = "home"
    BY <2>1 DEF Answers, Me
  <2>2. CASE tabs[t].area = "profile"
    BY <2>2 DEF Answers, Gated, visibleEntries
  <2>3. CASE tabs[t].area = "team"
    BY <2>3 DEF Answers, Gated, visibleEntries
  <2>4. CASE tabs[t].area = "member"
    BY <2>4 DEF visibleEntries
  <2> QED  BY <1>2, <2>1, <2>2, <2>3, <2>4 DEF Authed, Areas
<1> QED  BY <1>2, <1>3

LEMMA RenderPageStep ==
    ASSUME IInv, NEW t \in Tab, RenderPage(t)
    PROVE  IInv'
<1>1. tabs[t].step = "page" /\ tabs[t] \in TabRecord
  BY TabFacts DEF RenderPage
<1>2. tabs[t].held \in Session \cup {None} /\ tabs[t].area \in Authed
  BY <1>1 DEF TabRecord
<1>3. Answers(tabs[t].area) \cap {"expired", "unauthenticated"} = {}
  BY <1>2 DEF Answers, Me, Gated, Authed, Areas
<1>4. {"shown", "denied", "notfound", "unloaded"} \subseteq Shelled
  BY DEF Shelled, Screens
<1>5. CASE Step(t, Show(tabs[t], "denied")) /\ "forbidden" \in Get(tabs[t].held, Answers(tabs[t].area))
  <2>1. "forbidden" \in Answers(tabs[t].area)
    BY <1>2, <1>3, <1>5, GetOutcome
  <2> QED  BY <1>1, <1>4, <1>5, <2>1, RefusedOffNav, ShowStep
<1>6. ASSUME NEW screen \in {"shown", "notfound", "unloaded"}, Step(t, Show(tabs[t], screen))
      PROVE  IInv'
  BY <1>1, <1>4, <1>6, ShowStep
<1>7. CASE Step(t, ShowBare(tabs[t], "error"))
  BY <1>1, <1>7, ShowBareStep
<1> QED  BY <1>5, <1>6, <1>7 DEF RenderPage

LEMMA RenderSignInStep ==
    ASSUME IInv, NEW t \in Tab, RenderSignIn(t)
    PROVE  IInv'
<1>1. /\ tabs[t].step = "signin" /\ tabs[t] \in TabRecord /\ Holds(tabs[t], sessions, astray)
  BY TabFacts DEF RenderSignIn
<1>2. tabs[t].held \in Session \cup {None} /\ Me \cap {"expired", "unauthenticated"} = {}
  BY <1>1 DEF TabRecord, Me
<1>3. PICK outcome \in Get(tabs[t].held, Me) :
          \/ outcome = "ok" /\ Step(t, To("shell", "home"))
          \/ outcome = "unauthenticated" /\ Step(t, ShowBare(tabs[t], "form"))
          \/ outcome = "expired" /\ Step(t, ShowBare(tabs[t], "expired"))
          \/ outcome = "failed" /\ Step(t, ShowBare(tabs[t], "error"))
  BY DEF RenderSignIn
<1>4. CASE Step(t, To("shell", "home"))
  BY <1>1, <1>4, AskStep DEF Authed, Areas
<1>5. CASE outcome = "unauthenticated" /\ Step(t, ShowBare(tabs[t], "form"))
  <2>1. tabs[t].held = None
    BY <1>2, <1>5, GetOutcome
  <2> QED  BY <1>1, <1>5, <2>1, ShowBareStep
<1>6. CASE outcome = "expired" /\ Step(t, ShowBare(tabs[t], "expired"))
  <2>1. tabs[t].held # None /\ sessions[tabs[t].held] # "live"
    BY <1>2, <1>6, GetOutcome
  <2>2. sessions[tabs[t].held] = "ended"
    BY <1>1, <1>2, <2>1 DEF Holds, IInv, Typed
  <2> QED  BY <1>1, <1>6, <2>1, <2>2, ShowBareStep
<1>7. CASE Step(t, ShowBare(tabs[t], "error"))
  BY <1>1, <1>7, ShowBareStep
<1> QED  BY <1>3, <1>4, <1>5, <1>6, <1>7

-----------------------------------------------------------------------------
(* Sign-in.                                                                *)

LEMMA SubmitStep ==
    ASSUME IInv, NEW t \in Tab, Submit(t)
    PROVE  IInv'
<1>1. /\ tabs[t] \in TabRecord /\ Tells(tabs[t], sessions, codes)
      /\ Holds(tabs[t], sessions, astray)
      /\ Single /\ ~lost => Follows(tabs[t], sessions, jar)
  BY TabFacts
<1>2. tabs[t].step = "idle" /\ tabs[t].screen \in {"form", "expired"}
  BY DEF Submit
<1> DEFINE tab == [tabs[t] EXCEPT !.step = "login"]
<1>3. /\ tab \in TabRecord /\ tab.step = "login" /\ tab.screen = tabs[t].screen
      /\ tab.held = tabs[t].held /\ tab.nav = tabs[t].nav
  BY <1>1 DEF TabRecord, Steps
<1>4. Step(t, tab)
  BY DEF Submit
<1> HIDE DEF tab
<1>5. Used(tab) /\ Tells(tab, sessions, codes) /\ Holds(tab, sessions, astray)
  BY <1>1, <1>2, <1>3 DEF Used, Tells, Holds, Shelled
<1>6. Single /\ ~lost => Follows(tab, sessions, jar)
  BY <1>1, <1>2, <1>3 DEF Follows
<1> QED  BY <1>2, <1>3, <1>4, <1>5, <1>6, QuietStep

LEMMA RefuseLoginStep ==
    ASSUME IInv, NEW t \in Tab, RefuseLogin(t)
    PROVE  IInv'
<1>1. /\ tabs[t] \in TabRecord /\ Tells(tabs[t], sessions, codes)
      /\ Holds(tabs[t], sessions, astray)
      /\ Single /\ ~lost => Follows(tabs[t], sessions, jar)
  BY TabFacts
<1>2. tabs[t].step = "login" /\ tabs[t].screen \in {"form", "expired"} /\ tabs[t].nav = {}
  BY <1>1 DEF RefuseLogin, Tells
<1> DEFINE tab == [tabs[t] EXCEPT !.step = "idle"]
<1>3. /\ tab \in TabRecord /\ tab.step = "idle" /\ tab.screen = tabs[t].screen
      /\ tab.held = tabs[t].held /\ tab.nav = tabs[t].nav
  BY <1>1 DEF TabRecord, Steps
<1>4. Step(t, tab)
  BY DEF RefuseLogin
<1> HIDE DEF tab
<1>5. Used(tab) /\ Tells(tab, sessions, codes) /\ Holds(tab, sessions, astray)
  BY <1>1, <1>2, <1>3 DEF Used, Tells, Holds
<1>6. Single /\ ~lost => Follows(tab, sessions, jar)
  BY <1>1, <1>2, <1>3 DEF Follows
<1> QED  BY <1>2, <1>3, <1>4, <1>5, <1>6, QuietStep

\* The form gave way to a session nobody else has; whatever cookie there was
\* had ended, if this tab is alone.
LEMMA OpenSessionStep ==
    ASSUME IInv, NEW t \in Tab, NEW s \in Session, OpenSession(t, s)
    PROVE  IInv'
<1>1. /\ tabs[t] \in TabRecord /\ Tells(tabs[t], sessions, codes)
      /\ Holds(tabs[t], sessions, astray)
      /\ Single /\ ~lost => Follows(tabs[t], sessions, jar)
  BY TabFacts
<1>2. /\ tabs[t].step = "login" /\ tabs[t].screen \in {"form", "expired"} /\ tabs[t].nav = {}
      /\ sessions[s] = "none" /\ sessions' = [sessions EXCEPT ![s] = "live"]
      /\ codes' = codes /\ jar' = jar /\ astray' = astray /\ lost' = lost
  BY <1>1 DEF OpenSession, Tells
<1> DEFINE tab == [tabs[t] EXCEPT !.step = "opened", !.token = s]
<1>3. /\ tab \in TabRecord /\ tab.step = "opened" /\ tab.screen = tabs[t].screen
      /\ tab.held = tabs[t].held /\ tab.nav = tabs[t].nav /\ tab.token = s
  BY <1>1 DEF TabRecord, Steps
<1>4. tabs' = [tabs EXCEPT ![t] = tab]
  BY DEF OpenSession
<1> HIDE DEF tab
<1>5. /\ tabs \in [Tab -> TabRecord] /\ sessions \in [Session -> {"none", "live", "ended"}]
      /\ jar \in Session \cup {None} /\ astray \subseteq Session
  BY DEF IInv, Typed
<1>6. tabs' \in [Tab -> TabRecord] /\ tabs'[t] = tab /\ \A u \in Tab \ {t} : tabs'[u] = tabs[u]
  BY <1>3, <1>4, <1>5
<1>7. Typed' /\ Opened'
  BY <1>2, <1>5, <1>6 DEF IInv, Typed, Opened
<1>8. Onward(sessions, sessions', astray, astray')
  BY <1>2, <1>5 DEF Onward
<1>9. LiveHeld'
  <2> SUFFICES ASSUME NEW r \in Session, sessions'[r] = "live" PROVE Kept(r)'
    BY LiveKept
  <2>1. CASE r = s
    BY <1>3, <1>6, <2>1 DEF Kept
  <2>2. CASE r # s
    <3>1. Kept(r)
      BY <1>2, <1>5, <2>2, LiveKept DEF IInv
    <3>2. CASE \E u \in Tab : tabs[u].step = "opened" /\ tabs[u].token = r
      <4>1. PICK u \in Tab : tabs[u].step = "opened" /\ tabs[u].token = r
        BY <3>2
      <4>2. tabs'[u] = tabs[u]
        BY <1>2, <1>6, <4>1
      <4> QED  BY <4>1, <4>2 DEF Kept
    <3> QED  BY <1>2, <3>1, <3>2 DEF Kept
  <2> QED  BY <2>1, <2>2
<1>10. Used(tabs'[t]) /\ Holds(tabs'[t], sessions', astray')
  BY <1>1, <1>2, <1>3, <1>5, <1>6 DEF Used, Holds, TabRecord
<1>11. Tells(tabs'[t], sessions', codes)
  <2>1. tabs[t].held \in Session \cup {None}
    BY <1>1 DEF TabRecord
  <2> QED  BY <1>1, <1>2, <1>3, <1>5, <1>6, <2>1 DEF Tells
<1>12. ASSUME Single, ~lost'
       PROVE  Live' \cap astray' = {} /\ Follows(tabs'[t], sessions', jar')
  <2>1. s \notin astray
    BY <1>2 DEF IInv, Opened
  <2>2. Live' \cap astray' = {}
    BY <1>2, <1>5, <1>12, <2>1 DEF IInv, AloneOK, Live
  <2>3. jar = None \/ sessions[jar] # "live"
    BY <1>1, <1>2, <1>12 DEF Follows
  <2>4. jar = None \/ sessions'[jar] # "live"
    BY <1>2, <1>5, <2>3 DEF IInv, Opened
  <2> QED  BY <1>2, <1>3, <1>6, <2>2, <2>4 DEF Follows
<1> QED  BY <1>2, <1>6, <1>7, <1>8, <1>9, <1>10, <1>11, <1>12, TabStep

\* Whoever lost the token, the session is on record as astray.
LEMMA LoseOpenedStep ==
    ASSUME IInv, NEW t \in Tab, LoseOpened(t)
    PROVE  IInv'
<1>1. /\ tabs[t] \in TabRecord /\ Tells(tabs[t], sessions, codes)
      /\ Holds(tabs[t], sessions, astray)
  BY TabFacts
<1>2. /\ tabs[t].step = "opened" /\ tabs[t].screen \in {"form", "expired"} /\ tabs[t].nav = {}
      /\ sessions' = sessions /\ codes' = codes /\ jar' = jar /\ lost'
      /\ astray' = astray \cup {tabs[t].token}
      /\ tabs[t].token \in Session /\ sessions[tabs[t].token] # "none"
  BY <1>1 DEF LoseOpened, Tells, Holds
<1> DEFINE tab == [tabs[t] EXCEPT !.step = "idle", !.token = None]
<1>3. /\ tab \in TabRecord /\ tab.step = "idle" /\ tab.screen = tabs[t].screen
      /\ tab.held = tabs[t].held /\ tab.nav = tabs[t].nav
  BY <1>1 DEF TabRecord, Steps
<1>4. tabs' = [tabs EXCEPT ![t] = tab]
  BY DEF LoseOpened
<1> HIDE DEF tab
<1>5. tabs \in [Tab -> TabRecord]
  BY DEF IInv, Typed
<1>6. tabs' \in [Tab -> TabRecord] /\ tabs'[t] = tab /\ \A u \in Tab \ {t} : tabs'[u] = tabs[u]
  BY <1>3, <1>4, <1>5
<1>7. Typed' /\ Opened'
  BY <1>2, <1>6 DEF IInv, Typed, Opened, LoseOpened
<1>8. Onward(sessions, sessions', astray, astray')
  BY <1>2 DEF Onward
<1>9. LiveHeld'
  <2> SUFFICES ASSUME NEW r \in Session, sessions[r] = "live" PROVE Kept(r)'
    BY <1>2, LiveKept
  <2>1. Kept(r)
    BY LiveKept DEF IInv
  <2>2. CASE \E u \in Tab : tabs[u].step = "opened" /\ tabs[u].token = r
    <3>1. PICK u \in Tab : tabs[u].step = "opened" /\ tabs[u].token = r
      BY <2>2
    <3>2. CASE u = t
      BY <1>2, <3>1, <3>2 DEF Kept
    <3>3. CASE u # t
      BY <1>6, <3>1, <3>3 DEF Kept
    <3> QED  BY <3>2, <3>3
  <2> QED  BY <1>2, <2>1, <2>2 DEF Kept
<1>10. /\ Used(tabs'[t]) /\ Holds(tabs'[t], sessions', astray')
       /\ Tells(tabs'[t], sessions', codes)
  BY <1>1, <1>2, <1>3, <1>6 DEF Used, Holds, Tells
<1> QED  BY <1>2, <1>6, <1>7, <1>8, <1>9, <1>10, TabStep

\* The jar's former session, if it lives, is left behind; a tab that is alone
\* leaves none that does.
LEMMA WelcomeStep ==
    ASSUME IInv, NEW t \in Tab, Welcome(t)
    PROVE  IInv'
<1>1. /\ tabs[t] \in TabRecord /\ jar \in Session \cup {None}
      /\ jar # None => sessions[jar] # "none"
      /\ Tells(tabs[t], sessions, codes)
      /\ Holds(tabs[t], sessions, astray)
      /\ Single /\ ~lost => Follows(tabs[t], sessions, jar)
  BY TabFacts
<1>2. /\ tabs[t].step = "opened" /\ tabs[t].screen \in {"form", "expired"}
      /\ sessions' = sessions /\ codes' = codes /\ jar' = tabs[t].token /\ lost' = lost
      /\ astray' = IF jar = None THEN astray ELSE astray \cup {jar}
      /\ tabs[t].token \in Session /\ sessions[tabs[t].token] # "none"
  BY <1>1 DEF Welcome, Tells, Holds
<1> DEFINE tab == [To("shell", "home") EXCEPT !.held = tabs[t].token]
<1>3. /\ tab \in TabRecord /\ tab.step = "shell" /\ tab.screen = "blank"
      /\ tab.held = tabs[t].token /\ tab.nav = {}
  <2>1. "shell" \in Steps /\ "home" \in Authed
    BY DEF Steps, Authed, Areas
  <2>2. /\ To("shell", "home") \in TabRecord /\ To("shell", "home").step = "shell"
        /\ To("shell", "home").screen = "blank" /\ To("shell", "home").nav = {}
    BY <1>1, <2>1, ToFields
  <2> QED  BY <1>2, <2>2 DEF TabRecord
<1>4. tabs' = [tabs EXCEPT ![t] = tab]
  BY DEF Welcome
<1> HIDE DEF tab
<1>5. tabs \in [Tab -> TabRecord]
  BY DEF IInv, Typed
<1>6. tabs' \in [Tab -> TabRecord] /\ tabs'[t] = tab /\ \A u \in Tab \ {t} : tabs'[u] = tabs[u]
  BY <1>3, <1>4, <1>5
<1>7. Typed' /\ Opened'
  BY <1>1, <1>2, <1>6 DEF IInv, Typed, Opened
<1>8. Onward(sessions, sessions', astray, astray')
  BY <1>2 DEF Onward
<1>9. LiveHeld'
  <2> SUFFICES ASSUME NEW r \in Session, sessions[r] = "live" PROVE Kept(r)'
    BY <1>2, LiveKept
  <2>1. Kept(r)
    BY LiveKept DEF IInv
  <2>2. CASE \E u \in Tab : tabs[u].step = "opened" /\ tabs[u].token = r
    <3>1. PICK u \in Tab : tabs[u].step = "opened" /\ tabs[u].token = r
      BY <2>2
    <3>2. CASE u = t
      BY <1>2, <3>1, <3>2 DEF Kept
    <3>3. CASE u # t
      BY <1>6, <3>1, <3>3 DEF Kept
    <3> QED  BY <3>2, <3>3
  <2>3. CASE r = jar
    BY <1>2, <2>3, PortalAssumption DEF Kept
  <2> QED  BY <1>2, <2>1, <2>2, <2>3 DEF Kept
<1>10. /\ Used(tabs'[t]) /\ Holds(tabs'[t], sessions', astray')
       /\ Tells(tabs'[t], sessions', codes)
  BY <1>2, <1>3, <1>6 DEF Used, Holds, Tells
<1>11. ASSUME Single, ~lost'
       PROVE  Live' \cap astray' = {} /\ Follows(tabs'[t], sessions', jar')
  <2>1. jar = None \/ sessions[jar] # "live"
    BY <1>1, <1>2, <1>11 DEF Follows
  <2>2. Live' \cap astray' = {}
    BY <1>2, <1>11, <2>1 DEF IInv, AloneOK, Live
  <2> QED  BY <1>2, <1>3, <1>6, <2>2 DEF Follows
<1> QED  BY <1>2, <1>6, <1>7, <1>8, <1>9, <1>10, <1>11, TabStep

-----------------------------------------------------------------------------
(* Sign-out.                                                               *)

LEMMA ClickStep ==
    ASSUME IInv, NEW t \in Tab, Click(t)
    PROVE  IInv'
<1>1. jar \in Session \cup {None} /\ tabs[t].step = "idle"
  BY TabFacts DEF Click
<1> DEFINE tab == [Blank EXCEPT !.step = "logout", !.token = jar]
<1>2. Blank \in TabRecord /\ Blank.screen = "blank" /\ Blank.held = None /\ Blank.nav = {}
  BY DEF Blank, TabRecord, Screens, Steps, Authed, Areas
<1>3. /\ tab \in TabRecord /\ tab.step = "logout" /\ tab.screen = "blank"
      /\ tab.held = None /\ tab.nav = {}
  BY <1>1, <1>2 DEF TabRecord, Steps
<1>4. Step(t, tab)
  BY DEF Click
<1> HIDE DEF tab
<1>5. Used(tab) /\ Tells(tab, sessions, codes) /\ Holds(tab, sessions, astray)
  BY <1>3 DEF Used, Tells, Holds
<1>6. Follows(tab, sessions, jar)
  BY <1>3 DEF Follows
<1> QED  BY <1>1, <1>3, <1>4, <1>5, <1>6, QuietStep

LEMMA RefuseLogoutStep ==
    ASSUME IInv, NEW t \in Tab, RefuseLogout(t)
    PROVE  IInv'
BY AskStep DEF RefuseLogout, Leaving, Authed, Areas

\* A request or an answer of a sign-out is lost: nothing but the tab changes,
\* and the loss is on record.
LEMMA LeaveStep ==
    ASSUME IInv, NEW t \in Tab, tabs' = [tabs EXCEPT ![t] = Leaving],
           tabs[t].step # "opened", lost' = TRUE,
           UNCHANGED <<sessions, codes, jar, astray>>
    PROVE  IInv'
<1>1. jar \in Session \cup {None} /\ (jar # None => sessions[jar] # "none")
  BY TabFacts
<1>2. /\ Leaving \in TabRecord /\ Leaving.step = "signin" /\ Leaving.screen = "blank"
      /\ Leaving.held = jar /\ Leaving.nav = {}
  BY <1>1, ToFields DEF Leaving, Steps, Authed, Areas
<1>3. tabs \in [Tab -> TabRecord]
  BY DEF IInv, Typed
<1>4. /\ tabs' \in [Tab -> TabRecord] /\ tabs'[t] = Leaving
      /\ \A u \in Tab \ {t} : tabs'[u] = tabs[u]
  BY <1>2, <1>3
<1>5. Typed' /\ Opened'
  BY <1>4 DEF IInv, Typed, Opened
<1>6. LiveHeld'
  <2> SUFFICES ASSUME NEW r \in Session, sessions[r] = "live" PROVE Kept(r)'
    BY LiveKept
  <2>1. Kept(r)
    BY LiveKept DEF IInv
  <2>2. CASE \E u \in Tab : tabs[u].step = "opened" /\ tabs[u].token = r
    <3>1. PICK u \in Tab : tabs[u].step = "opened" /\ tabs[u].token = r
      BY <2>2
    <3>2. tabs'[u] = tabs[u]
      BY <1>4, <3>1
    <3> QED  BY <3>1, <3>2 DEF Kept
  <2> QED  BY <2>1, <2>2 DEF Kept
<1>7. Onward(sessions, sessions', astray, astray')
  BY DEF Onward
<1>8. /\ Used(tabs'[t]) /\ Holds(tabs'[t], sessions', astray')
      /\ Tells(tabs'[t], sessions', codes)
  BY <1>1, <1>2, <1>4 DEF Used, Holds, Tells
<1> QED  BY <1>4, <1>5, <1>6, <1>7, <1>8, TabStep

LEMMA LoseLogoutStep ==
    ASSUME IInv, NEW t \in Tab, LoseLogout(t)
    PROVE  IInv'
BY LeaveStep DEF LoseLogout

LEMMA LoseGoodbyeStep ==
    ASSUME IInv, NEW t \in Tab, LoseGoodbye(t)
    PROVE  IInv'
BY LeaveStep DEF LoseGoodbye

\* The session ends, or is given up for lost with the answer.
LEMMA LogoutStep ==
    ASSUME IInv, NEW t \in Tab, Logout(t)
    PROVE  IInv'
<1>1. /\ tabs[t] \in TabRecord /\ jar \in Session \cup {None}
      /\ Tells(tabs[t], sessions, codes)
      /\ Holds(tabs[t], sessions, astray)
  BY TabFacts
<1>2. /\ tabs[t].step = "logout" /\ jar \in Session /\ tabs[t].token = jar
      /\ codes' = codes /\ jar' = jar
      /\ sessions[jar] # "none"
  BY <1>1, TabFacts DEF Logout
<1>3. \/ /\ sessions' = [sessions EXCEPT ![jar] = "ended"]
         /\ astray' = astray /\ lost' = lost
      \/ /\ sessions' = sessions /\ lost' = TRUE /\ astray' = astray \cup {jar}
  BY DEF Logout
<1> DEFINE tab == [tabs[t] EXCEPT !.step = "goodbye"]
<1>4. /\ tab \in TabRecord /\ tab.step = "goodbye" /\ tab.screen = tabs[t].screen
      /\ tab.held = tabs[t].held /\ tab.nav = tabs[t].nav /\ tab.token = jar
      /\ tab.revised = tabs[t].revised
  BY <1>1, <1>2 DEF TabRecord, Steps
<1>5. tabs' = [tabs EXCEPT ![t] = tab]
  BY DEF Logout
<1> HIDE DEF tab
<1>6. /\ tabs \in [Tab -> TabRecord] /\ sessions \in [Session -> {"none", "live", "ended"}]
      /\ astray \subseteq Session
  BY DEF IInv, Typed
<1>7. tabs' \in [Tab -> TabRecord] /\ tabs'[t] = tab /\ \A u \in Tab \ {t} : tabs'[u] = tabs[u]
  BY <1>4, <1>5, <1>6
<1>8. /\ sessions' \in [Session -> {"none", "live", "ended"}]
      /\ \A r \in Session \ {jar} : sessions'[r] = sessions[r]
      /\ sessions'[jar] \in {"ended", sessions[jar]}
  BY <1>2, <1>3, <1>6
<1>9. Typed' /\ Opened'
  BY <1>2, <1>3, <1>6, <1>7, <1>8 DEF IInv, Typed, Opened
<1>10. Onward(sessions, sessions', astray, astray')
  BY <1>3, <1>8 DEF Onward
<1>11. LiveHeld'
  <2> SUFFICES ASSUME NEW r \in Session, sessions'[r] = "live" PROVE Kept(r)'
    BY LiveKept
  <2>1. Kept(r)
    BY <1>8, LiveKept DEF IInv
  <2>2. CASE \E u \in Tab : tabs[u].step = "opened" /\ tabs[u].token = r
    <3>1. PICK u \in Tab : tabs[u].step = "opened" /\ tabs[u].token = r
      BY <2>2
    <3>2. tabs'[u] = tabs[u]
      BY <1>2, <1>7, <3>1
    <3> QED  BY <3>1, <3>2 DEF Kept
  <2>3. astray \subseteq astray'
    BY <1>3
  <2> QED  BY <1>2, <2>1, <2>2, <2>3 DEF Kept
<1>12. Used(tabs'[t]) /\ Holds(tabs'[t], sessions', astray')
  <2>1. tabs[t].held \in Session \cup {None}
    BY <1>1 DEF TabRecord
  <2>2. sessions'[jar] = "ended" \/ jar \in astray'
    BY <1>2, <1>3, <1>6
  <2> QED  BY <1>1, <1>2, <1>4, <1>7, <1>8, <2>1, <2>2 DEF Used, Holds
<1>13. Tells(tabs'[t], sessions', codes)
  BY <1>1, <1>4, <1>7 DEF Tells
<1>14. ASSUME Single, ~lost'
       PROVE  Live' \cap astray' = {} /\ Follows(tabs'[t], sessions', jar')
  <2>1. Live' \cap astray' = {}
    BY <1>2, <1>3, <1>8, <1>14 DEF IInv, AloneOK, Live
  <2> QED  BY <1>2, <1>4, <1>7, <2>1 DEF Follows
<1>15. lost => lost'
  BY <1>3
<1> QED  BY <1>2, <1>7, <1>9, <1>10, <1>11, <1>12, <1>13, <1>14, <1>15, TabStep

\* The cookies that are deleted are of the session that was signed out, or of
\* one that another tab has opened.
LEMMA GoodbyeStep ==
    ASSUME IInv, NEW t \in Tab, Goodbye(t)
    PROVE  IInv'
<1>1. /\ tabs[t] \in TabRecord /\ jar \in Session \cup {None}
      /\ jar # None => sessions[jar] # "none"
      /\ Holds(tabs[t], sessions, astray)
      /\ Single /\ ~lost => Follows(tabs[t], sessions, jar)
  BY TabFacts
<1>2. /\ tabs[t].step = "goodbye" /\ tabs[t].token \in Session
      /\ sessions[tabs[t].token] = "ended" \/ tabs[t].token \in astray
      /\ sessions' = sessions /\ codes' = codes /\ jar' = None /\ lost' = lost
      /\ astray' = IF jar \in {None, tabs[t].token} THEN astray ELSE astray \cup {jar}
  BY <1>1 DEF Goodbye, Holds
<1> DEFINE tab == [Leaving EXCEPT !.held = None]
<1>3. /\ tab \in TabRecord /\ tab.step = "signin" /\ tab.screen = "blank"
      /\ tab.held = None /\ tab.nav = {}
  <2>1. "signin" \in Steps /\ "home" \in Authed
    BY DEF Steps, Authed, Areas
  <2>2. /\ Leaving \in TabRecord /\ Leaving.step = "signin"
        /\ Leaving.screen = "blank" /\ Leaving.nav = {}
    BY <1>1, <2>1, ToFields DEF Leaving
  <2> QED  BY <2>2 DEF TabRecord
<1>4. tabs' = [tabs EXCEPT ![t] = tab]
  BY DEF Goodbye
<1> HIDE DEF tab
<1>5. tabs \in [Tab -> TabRecord]
  BY DEF IInv, Typed
<1>6. tabs' \in [Tab -> TabRecord] /\ tabs'[t] = tab /\ \A u \in Tab \ {t} : tabs'[u] = tabs[u]
  BY <1>3, <1>4, <1>5
<1>7. Typed' /\ Opened'
  BY <1>1, <1>2, <1>6 DEF IInv, Typed, Opened
<1>8. Onward(sessions, sessions', astray, astray')
  BY <1>2 DEF Onward
<1>9. LiveHeld'
  <2> SUFFICES ASSUME NEW r \in Session, sessions[r] = "live" PROVE Kept(r)'
    BY <1>2, LiveKept
  <2>1. Kept(r)
    BY LiveKept DEF IInv
  <2>2. CASE \E u \in Tab : tabs[u].step = "opened" /\ tabs[u].token = r
    <3>1. PICK u \in Tab : tabs[u].step = "opened" /\ tabs[u].token = r
      BY <2>2
    <3>2. tabs'[u] = tabs[u]
      BY <1>2, <1>6, <3>1
    <3> QED  BY <3>1, <3>2 DEF Kept
  <2>3. CASE r = jar
    BY <1>2, <2>3, PortalAssumption DEF Kept
  <2> QED  BY <1>2, <2>1, <2>2, <2>3 DEF Kept
<1>10. /\ Used(tabs'[t]) /\ Holds(tabs'[t], sessions', astray')
       /\ Tells(tabs'[t], sessions', codes)
  BY <1>3, <1>6 DEF Used, Holds, Tells
<1>11. ASSUME Single, ~lost'
       PROVE  Live' \cap astray' = {} /\ Follows(tabs'[t], sessions', jar')
  <2>1. jar \in {tabs[t].token, None}
    BY <1>1, <1>2, <1>11 DEF Follows
  <2>2. Live' \cap astray' = {}
    BY <1>2, <1>11, <2>1 DEF IInv, AloneOK, Live
  <2> QED  BY <1>2, <1>3, <1>6, <2>2 DEF Follows
<1> QED  BY <1>2, <1>6, <1>7, <1>8, <1>9, <1>10, <1>11, TabStep

-----------------------------------------------------------------------------
(* The API's own doings.                                                   *)

\* Sessions end behind the tabs' back; no tab loses what it knew.
LEMMA ApiStep ==
    ASSUME IInv,
           sessions' \in [Session -> {"none", "live", "ended"}],
           Onward(sessions, sessions', astray, astray),
           \A s \in Session : sessions'[s] = "live" => sessions[s] = "live" /\ (s = jar => s = jar'),
           jar' \in {jar, None},
           UNCHANGED <<codes, tabs, astray, lost>>
    PROVE  IInv'
<1>1. Typed'
  BY DEF IInv, Typed
<1>2. Opened'
  BY DEF IInv, Opened, Typed, Onward
<1>3. TabsOK'
  <2> SUFFICES ASSUME NEW u \in Tab
               PROVE  Tells(tabs[u], sessions', codes) /\ Holds(tabs[u], sessions', astray)
    BY DEF TabsOK
  <2>1. /\ tabs[u] \in TabRecord /\ Tells(tabs[u], sessions, codes)
        /\ Holds(tabs[u], sessions, astray)
    BY TabFacts
  <2> QED  BY <2>1, Persists
<1>4. LiveHeld'
  <2> SUFFICES ASSUME NEW r \in Session, sessions'[r] = "live" PROVE Kept(r)'
    BY LiveKept
  <2>1. Kept(r) /\ (r = jar => r = jar')
    BY LiveKept DEF IInv
  <2> QED  BY <2>1 DEF Kept
<1>5. AloneOK'
  <2> SUFFICES ASSUME Single', ~lost'
               PROVE  Live' \cap astray' = {} /\ \A u \in Tab : Follows(tabs'[u], sessions', jar')
    BY DEF AloneOK
  <2>1. Single /\ ~lost
    BY DEF Single
  <2>2. Live \cap astray = {} /\ \A u \in Tab : Follows(tabs[u], sessions, jar)
    BY <2>1 DEF IInv, AloneOK
  <2>3. Live' \cap astray' = {}
    BY <2>2 DEF Live
  <2>4. ASSUME NEW u \in Tab PROVE Follows(tabs[u], sessions', jar')
    <3>1. jar \in Session \cup {None}
      BY DEF IInv, Typed
    <3> QED  BY <2>2, <3>1 DEF Follows
  <2> QED  BY <2>3, <2>4
<1> QED  BY <1>1, <1>2, <1>3, <1>4, <1>5 DEF IInv

LEMMA EndSessionStep ==
    ASSUME IInv, NEW s \in Session, EndSession(s)
    PROVE  IInv'
<1>1. sessions \in [Session -> {"none", "live", "ended"}]
  BY DEF IInv, Typed
<1> QED  BY <1>1, ApiStep DEF EndSession, Onward

LEMMA ExpireCookiesStep ==
    ASSUME IInv, ExpireCookies
    PROVE  IInv'
<1>1. sessions \in [Session -> {"none", "live", "ended"}] /\ jar \in Session
  BY DEF IInv, Typed, ExpireCookies
<1>2. sessions[jar] # "none"
  BY DEF IInv, Opened, ExpireCookies
<1> QED  BY <1>1, <1>2, ApiStep DEF ExpireCookies, Onward

\* Whatever the links were made from is no longer known to be so.
LEMMA ChangeCodesStep ==
    ASSUME IInv, ChangeCodes
    PROVE  IInv'
<1>1. /\ sessions' = sessions /\ jar' = jar /\ astray' = astray /\ lost' = lost
      /\ codes' \subseteq Codes
      /\ tabs' = [t \in Tab |-> [tabs[t] EXCEPT !.revised = tabs[t].nav # {}]]
  BY DEF ChangeCodes
<1>2. ASSUME NEW t \in Tab
      PROVE  /\ tabs'[t] \in TabRecord
             /\ tabs'[t].revised = (tabs[t].nav # {})
             /\ tabs'[t].screen = tabs[t].screen /\ tabs'[t].step = tabs[t].step
             /\ tabs'[t].area = tabs[t].area /\ tabs'[t].held = tabs[t].held
             /\ tabs'[t].nav = tabs[t].nav /\ tabs'[t].token = tabs[t].token
  <2>1. tabs[t] \in TabRecord
    BY TabFacts
  <2> DEFINE known == tabs[t].nav # {}
             new == [tabs[t] EXCEPT !.revised = known]
  <2>2. known \in BOOLEAN
    OBVIOUS
  <2>3. tabs'[t] = new
    BY <1>1
  <2> HIDE DEF known
  <2>4. /\ new \in TabRecord /\ new.revised = known
        /\ new.screen = tabs[t].screen /\ new.step = tabs[t].step
        /\ new.area = tabs[t].area /\ new.held = tabs[t].held
        /\ new.nav = tabs[t].nav /\ new.token = tabs[t].token
    BY <2>1, <2>2 DEF TabRecord
  <2> QED  BY <2>3, <2>4 DEF known
<1>3. tabs' \in [Tab -> TabRecord]
  BY <1>1, <1>2
<1>4. Typed' /\ Opened'
  BY <1>1, <1>3 DEF IInv, Typed, Opened
<1>5. TabsOK'
  <2> SUFFICES ASSUME NEW t \in Tab
               PROVE  Tells(tabs'[t], sessions, codes') /\ Holds(tabs'[t], sessions, astray)
    BY <1>1 DEF TabsOK
  <2>1. Tells(tabs[t], sessions, codes) /\ Holds(tabs[t], sessions, astray)
    BY TabFacts
  <2>2. Tells(tabs'[t], sessions, codes')
    BY <1>2, <2>1 DEF Tells
  <2>3. Holds(tabs'[t], sessions, astray)
    BY <1>2, <2>1 DEF Holds
  <2> QED  BY <2>2, <2>3
<1>6. LiveHeld'
  <2> SUFFICES ASSUME NEW r \in Session, sessions[r] = "live" PROVE Kept(r)'
    BY <1>1, LiveKept
  <2>1. Kept(r)
    BY LiveKept DEF IInv
  <2> QED  BY <1>1, <1>2, <2>1 DEF Kept
<1>7. AloneOK'
  <2> SUFFICES ASSUME Single', ~lost'
               PROVE  Live' \cap astray' = {} /\ \A u \in Tab : Follows(tabs'[u], sessions', jar')
    BY DEF AloneOK
  <2>1. Single /\ ~lost
    BY <1>1, <1>2 DEF Single, Used
  <2>2. Live \cap astray = {} /\ \A u \in Tab : Follows(tabs[u], sessions, jar)
    BY <2>1 DEF IInv, AloneOK
  <2> QED  BY <1>1, <1>2, <2>2 DEF Live, Follows
<1> QED  BY <1>4, <1>5, <1>6, <1>7 DEF IInv

-----------------------------------------------------------------------------
(* The invariant and what follows from it.                                 *)

LEMMA InitInv == Init => IInv
<1> SUFFICES ASSUME Init PROVE IInv
  OBVIOUS
<1>1. /\ Blank \in TabRecord /\ Blank.step = "idle" /\ Blank.screen = "blank"
      /\ Blank.held = None /\ Blank.nav = {}
  BY DEF Blank, TabRecord, Screens, Steps, Authed, Areas
<1>2. \A t \in Tab : tabs[t] = Blank
  BY DEF Init
<1>3. Typed
  BY <1>1 DEF Init, Typed
<1>4. Opened /\ LiveHeld
  BY DEF Init, Opened, LiveHeld, Live
<1>5. TabsOK
  BY <1>1, <1>2 DEF TabsOK, Tells, Holds
<1>6. AloneOK
  BY <1>1, <1>2 DEF Init, AloneOK, Live, Follows
<1> QED  BY <1>3, <1>4, <1>5, <1>6 DEF IInv

LEMMA StutterInv == ASSUME IInv, UNCHANGED vars PROVE IInv'
BY DEF vars, IInv, Typed, Opened, TabsOK, LiveHeld, AloneOK, Live, InFlight, Single

LEMMA StepInv == ASSUME IInv, [Next]_vars PROVE IInv'
<1>1. ASSUME NEW t \in Tab, LoadSignIn(t) PROVE IInv'
  BY <1>1, LoadSignInStep
<1>2. ASSUME NEW t \in Tab, NEW area \in Authed, Load(t, area) \/ Follow(t, area) PROVE IInv'
  BY <1>2, LoadStep, FollowStep
<1>3. ASSUME NEW t \in Tab, Render(t) PROVE IInv'
  BY <1>3, RenderShellStep, RenderPageStep, RenderSignInStep DEF Render
<1>4. ASSUME NEW t \in Tab, Submit(t) \/ RefuseLogin(t) \/ LoseOpened(t) \/ Welcome(t)
      PROVE  IInv'
  BY <1>4, SubmitStep, RefuseLoginStep, LoseOpenedStep, WelcomeStep
<1>5. ASSUME NEW t \in Tab, NEW s \in Session, OpenSession(t, s) PROVE IInv'
  BY <1>5, OpenSessionStep
<1>6. ASSUME NEW t \in Tab, Click(t) \/ RefuseLogout(t) \/ LoseLogout(t) \/ Logout(t)
      PROVE  IInv'
  BY <1>6, ClickStep, RefuseLogoutStep, LoseLogoutStep, LogoutStep
<1>7. ASSUME NEW t \in Tab, Goodbye(t) \/ LoseGoodbye(t) PROVE IInv'
  BY <1>7, GoodbyeStep, LoseGoodbyeStep
<1>8. ASSUME NEW s \in Session, EndSession(s) PROVE IInv'
  BY <1>8, EndSessionStep
<1>9. CASE ExpireCookies
  BY <1>9, ExpireCookiesStep
<1>10. CASE ChangeCodes
  BY <1>10, ChangeCodesStep
<1>11. CASE UNCHANGED vars
  BY <1>11, StutterInv
<1> QED  BY <1>1, <1>2, <1>3, <1>4, <1>5, <1>6, <1>7, <1>8, <1>9, <1>10, <1>11 DEF Next

LEMMA Invariance == Spec => []IInv
BY InitInv, StepInv, PTL DEF Spec

\* Whatever the tabs do to each other's cookies, the form, the notice of expiry,
\* the navigation and the refusals show what is so (RenderSignIn, RenderShell and
\* RenderPage against the sessions and the codes of the API).
THEOREM PortalSound == Spec => []Sound
<1>1. ASSUME IInv PROVE Sound
  <2>1. TypeOK
    BY <1>1 DEF IInv, Typed, Opened, TabsOK, Tells, TypeOK, TabRecord
  <2>2. ScreenTellsTruth
    BY <1>1 DEF IInv, TabsOK, Tells, ScreenTellsTruth
  <2>3. LinksLead
    BY <1>1 DEF IInv, TabsOK, Tells, LinksLead
  <2> QED  BY <2>1, <2>2, <2>3 DEF Sound
<1> QED  BY <1>1, Invariance, PTL

\* Every live session is in the jar, under way to a tab, or given up for lost by
\* a failure or by the cookies of two tabs crossing; a single tab that loses
\* nothing never gives one up (the login and logout route handlers).
THEOREM SessionsAccounted == Spec => []AccountedFor
<1>1. ASSUME IInv PROVE AccountedFor
  <2>1. Live \subseteq {jar} \cup InFlight \cup astray
    BY <1>1 DEF IInv, LiveHeld
  <2>2. ASSUME Cardinality({t \in Tab : tabs[t] # Blank}) <= 1, ~lost
        PROVE  Live \cap astray = {}
    <3> DEFINE Touched == {t \in Tab : tabs[t] # Blank}
    <3>1. IsFiniteSet(Touched)
      BY PortalAssumption, FS_Subset
    <3>2. Single
      <4> SUFFICES ASSUME NEW t \in Tab, NEW u \in Tab, Used(tabs[t]), Used(tabs[u]), t # u
                   PROVE  FALSE
        BY DEF Single
      <4>1. t \in Touched /\ u \in Touched
        BY DEF Used, Blank
      <4>2. Cardinality(Touched) \in Nat
        BY <3>1, FS_CardinalityType
      <4>3. Cardinality(Touched) = 0 \/ Cardinality(Touched) = 1
        BY <2>2, <4>2
      <4>4. CASE Cardinality(Touched) = 0
        BY <3>1, <4>1, <4>4, FS_EmptySet
      <4>5. CASE Cardinality(Touched) = 1
        <5>1. PICK v : Touched = {v}
          BY <3>1, <4>5, FS_Singleton
        <5> QED  BY <4>1, <5>1
      <4> QED  BY <4>3, <4>4, <4>5
    <3> QED  BY <1>1, <2>2, <3>2 DEF IInv, AloneOK
  <2> QED  BY <2>1, <2>2 DEF AccountedFor
<1> QED  BY <1>1, Invariance, PTL

-----------------------------------------------------------------------------
(***************************************************************************)
(* Site.                                                                   *)
(***************************************************************************)
Row == {SomeRow} \cup Vacancy \cup Profile

-----------------------------------------------------------------------------
(* The regions of the page and the transaction of the leadership route.    *)

PlaceOK == content \in Contents /\ page \in DOMAIN Paths /\ wanted \subseteq Vacancy

RegionsOK ==
    /\ regions \in [Regions -> [state : {"unasked", "waiting", "failed", "read"},
                                list : SUBSET Row, seen : SUBSET (SUBSET Row)]]
    /\ \A r \in Regions : (regions[r].state = "unasked") <=> (r \notin Paths[page])

ReadingOK ==
    reading \in [stage : {"idle", "count", "orders"}, rows : SUBSET Profile,
                 missing : SUBSET Profile, hid : SUBSET Profile, lost : SUBSET Profile,
                 recorded : SUBSET Profile]

\* What a region shows is among what it may show, and what it would be answered
\* now is too, as long as it waits.
SeenOK ==
    \A r \in Regions :
        /\ regions[r].state = "waiting" => List(r, content, wanted) \in regions[r].seen
        /\ regions[r].state = "read" => regions[r].list \in regions[r].seen

\* Between the join and the answer: the rows are those of some moment since the
\* page was opened, and who is missing is in none of them and still hidden.
JoinOK ==
    reading.stage # "idle" =>
        /\ regions["leadership"].state = "waiting"
        /\ reading.rows \in regions["leadership"].seen
        /\ reading.rows \cap reading.missing = {}
        /\ reading.missing \subseteq content.hidden
        /\ content.hidden \subseteq reading.hid
        /\ reading.recorded = {}

ReadInv == PlaceOK /\ RegionsOK /\ ReadingOK /\ SeenOK /\ JoinOK /\ OmissionRecorded

FormInv ==
    /\ form \in [status : {"idle", "submitting", "sent", "failed", "bounded"},
                 message : Message \cup {Nothing}]
    /\ calls \in [Call -> [stage : {"none", "sent", "kept", "refused", "invalid", "broken"},
                           message : Message \cup {Nothing}, live : BOOLEAN]]
    /\ kept \subseteq Message
    /\ \A c \in Call : calls[c].stage \notin {"none"} => calls[c].message \in Message
    /\ \A c \in Call : calls[c].live =>
           form.status = "submitting" /\ calls[c].stage # "none"
           /\ calls[c].message = form.message
    /\ \A c, d \in Call : calls[c].live /\ calls[d].live => c = d
    /\ \A c \in Call : calls[c].stage = "kept" => calls[c].message \in kept
    /\ FormTellsTruth

-----------------------------------------------------------------------------
(* The paths, spelled out.                                                 *)

LEMMA PathsAre ==
    /\ DOMAIN Paths = {"home", "addresses", "leadership", "careers", "role", "contact", "status"}
    /\ Paths["home"] = {"services", "openings"}
    /\ Paths["addresses"] = {"offices", "company"}
    /\ Paths["leadership"] = {"leadership"}
    /\ Paths["careers"] = {"vacancies", "matching"}
    /\ Paths["role"] = {"role"}
    /\ Paths["contact"] = {} /\ Paths["status"] = {}
BY DEF Paths

LEMMA RegionsAre ==
    Regions = {"services", "openings", "offices", "company", "leadership", "vacancies",
               "matching", "role"}
BY PathsAre DEF Regions

LEMMA PathsAreRegions == \A p \in DOMAIN Paths : Paths[p] \subseteq Regions
BY DEF Regions

\* A page with the leadership region has no other.
LEMMA LeadershipAlone ==
    ASSUME NEW p \in DOMAIN Paths, "leadership" \in Paths[p]
    PROVE  Paths[p] = {"leadership"}
BY PathsAre

\* What a route returns is made of rows, vacancies and profiles.
LEMMA ListTyped ==
    ASSUME NEW r \in Regions, NEW c \in Contents, NEW some \in SUBSET Vacancy
    PROVE  List(r, c, some) \in SUBSET Row
<1>1. c.profiles \subseteq Profile /\ c.open \subseteq Vacancy /\ c.seeded \in BOOLEAN
  BY SiteAssumption
<1>2. PublicRows(c) \subseteq Row /\ VisibleLeaders(c) \subseteq Row
      /\ c.open \subseteq Row /\ Matching(c, some) \subseteq Row
  BY <1>1 DEF PublicRows, VisibleLeaders, Matching, Row
<1>3. CASE r \in {"services", "offices", "company"}
  BY <1>2, <1>3 DEF List
<1>4. CASE r \in {"openings", "vacancies"}
  BY <1>2, <1>4 DEF List
<1>5. CASE r \in {"matching", "role"}
  BY <1>2, <1>5 DEF List
<1>6. CASE r = "leadership"
  BY <1>2, <1>6 DEF List
<1> QED
  BY <1>3, <1>4, <1>5, <1>6, RegionsAre

LEMMA LeadershipList ==
    ASSUME NEW c, NEW some
    PROVE  List("leadership", c, some) = VisibleLeaders(c)
BY DEF List

-----------------------------------------------------------------------------
(* The regions: what ends a read, and what each action does to the rest.    *)

\* A region that settles on something it may show.
LEMMA Settling ==
    ASSUME ReadInv, UNCHANGED place, UNCHANGED content,
           NEW r \in Regions, NEW state \in {"failed", "read"}, NEW list \in SUBSET Row,
           Settle(r, state, list),
           state = "read" => list \in regions[r].seen
    PROVE  /\ PlaceOK' /\ RegionsOK' /\ SeenOK'
           /\ regions'[r].state = state
           /\ \A s \in Regions \ {r} : regions'[s] = regions[s]
<1> USE DEF ReadInv, PlaceOK, RegionsOK, SeenOK, place
<1>1. regions[r].state = "waiting" /\ r \in Paths[page]
  BY DEF Settle
<1>2. regions' = [regions EXCEPT ![r] = [regions[r] EXCEPT !.state = state, !.list = list]]
  BY DEF Settle
<1>3. regions[r] \in [state : {"unasked", "waiting", "failed", "read"},
                      list : SUBSET Row, seen : SUBSET (SUBSET Row)]
  OBVIOUS
<1>4. DEFINE new == [regions[r] EXCEPT !.state = state, !.list = list]
<1>5. /\ new \in [state : {"unasked", "waiting", "failed", "read"},
                  list : SUBSET Row, seen : SUBSET (SUBSET Row)]
      /\ new.state = state /\ new.list = list /\ new.seen = regions[r].seen
  BY <1>3
<1> HIDE DEF new
<1>6. /\ regions'[r] = new
      /\ \A s \in Regions \ {r} : regions'[s] = regions[s]
      /\ regions' \in [Regions -> [state : {"unasked", "waiting", "failed", "read"},
                                   list : SUBSET Row, seen : SUBSET (SUBSET Row)]]
  BY <1>2, <1>5 DEF new
<1>7. PlaceOK'
  OBVIOUS
<1>8. RegionsOK'
  BY <1>1, <1>5, <1>6
<1>9. SeenOK'
  BY <1>5, <1>6
<1> QED
  BY <1>5, <1>6, <1>7, <1>8, <1>9

LEMMA ReadInit == SiteInit => ReadInv
<1> SUFFICES ASSUME SiteInit
             PROVE  ReadInv
  OBVIOUS
<1>1. PlaceOK
  BY PathsAre DEF SiteInit, PlaceOK
<1>2. RegionsOK
  BY PathsAre DEF SiteInit, RegionsOK, Unasked
<1>3. ReadingOK /\ JoinOK
  BY DEF SiteInit, ReadingOK, JoinOK, NotReading
<1>4. SeenOK
  BY DEF SiteInit, SeenOK, Unasked
<1>5. OmissionRecorded
  BY RegionsAre DEF SiteInit, OmissionRecorded, NotReading
<1> QED
  BY <1>1, <1>2, <1>3, <1>4, <1>5 DEF ReadInv

LEMMA ReadVisit ==
    ASSUME ReadInv, NEW p \in DOMAIN Paths, NEW some \in SUBSET Vacancy, Visit(p, some)
    PROVE  ReadInv'
<1>1. /\ page' = p /\ wanted' = some /\ content' = content /\ reading' = NotReading
      /\ regions' = [r \in Regions |->
           IF r \in Paths[p]
           THEN [state |-> "waiting", list |-> {}, seen |-> {List(r, content, some)}]
           ELSE Unasked]
  BY DEF Visit, world
<1>2. content \in Contents
  BY DEF ReadInv, PlaceOK
<1>3. \A r \in Regions : List(r, content, some) \in SUBSET Row
  BY <1>2, ListTyped
<1>4. PlaceOK'
  BY <1>1, <1>2 DEF PlaceOK
<1>5. RegionsOK'
  BY <1>1, <1>3 DEF RegionsOK, Unasked
<1>6. SeenOK'
  BY <1>1 DEF SeenOK, Unasked
<1>7. ReadingOK' /\ JoinOK' /\ OmissionRecorded'
  BY <1>1 DEF ReadingOK, JoinOK, OmissionRecorded, NotReading
<1> QED
  BY <1>4, <1>5, <1>6, <1>7 DEF ReadInv

\* A read ends: in an answer, in a failure, or after ten seconds.
LEMMA ReadRegionStep ==
    ASSUME ReadInv, NEW r \in Regions, RegionStep(r)
    PROVE  ReadInv'
<1>1. CASE ReadRegion(r)
  <2>1. /\ r # "leadership" /\ Settle(r, "read", List(r, content, wanted))
        /\ UNCHANGED <<content, place, reading>>
    BY <1>1 DEF ReadRegion, world
  <2>2. regions[r].state = "waiting"
    BY <2>1 DEF Settle
  <2>3. List(r, content, wanted) \in SUBSET Row /\ List(r, content, wanted) \in regions[r].seen
    BY <2>2, ListTyped DEF ReadInv, PlaceOK, SeenOK
  <2>4. /\ PlaceOK' /\ RegionsOK' /\ SeenOK'
        /\ regions'["leadership"] = regions["leadership"]
    BY <2>1, <2>3, Settling, RegionsAre
  <2>5. ReadingOK' /\ JoinOK' /\ OmissionRecorded'
    BY <2>1, <2>4 DEF ReadInv, ReadingOK, JoinOK, OmissionRecorded
  <2> QED
    BY <2>4, <2>5 DEF ReadInv
<1>2. CASE FailRegion(r)
  <2>1. /\ r = "leadership" => reading.stage = "idle"
        /\ Settle(r, "failed", {}) /\ UNCHANGED <<content, place, reading>>
    BY <1>2 DEF FailRegion, world
  <2>2. /\ PlaceOK' /\ RegionsOK' /\ SeenOK' /\ regions'[r].state = "failed"
        /\ \A s \in Regions \ {r} : regions'[s] = regions[s]
    BY <2>1, Settling
  <2>3. ReadingOK'
    BY <2>1 DEF ReadInv, ReadingOK
  <2>4. JoinOK' /\ OmissionRecorded'
    <3>1. CASE r = "leadership"
      BY <2>1, <2>2, <3>1 DEF ReadInv, JoinOK, OmissionRecorded
    <3>2. CASE r # "leadership"
      BY <2>1, <2>2, <3>2, RegionsAre DEF ReadInv, JoinOK, OmissionRecorded
    <3> QED
      BY <3>1, <3>2
  <2> QED
    BY <2>2, <2>3, <2>4 DEF ReadInv
<1>3. CASE GiveUp(r)
  <2>1. /\ Settle(r, "failed", {}) /\ reading' = NotReading /\ UNCHANGED <<content, place>>
    BY <1>3 DEF GiveUp, world
  <2>2. PlaceOK' /\ RegionsOK' /\ SeenOK'
    BY <2>1, Settling
  <2>3. ReadingOK' /\ JoinOK' /\ OmissionRecorded'
    BY <2>1 DEF ReadingOK, JoinOK, OmissionRecorded, NotReading
  <2> QED
    BY <2>2, <2>3 DEF ReadInv
<1> QED
  BY <1>1, <1>2, <1>3 DEF RegionStep

-----------------------------------------------------------------------------
\* Of sets A and B without a common element, B within C: if C is no larger than
\* A, then B is no larger than what of A is outside C.
LEMMA Masking ==
    ASSUME NEW S, IsFiniteSet(S), NEW A \in SUBSET S, NEW B \in SUBSET S, NEW C \in SUBSET S,
           A \cap B = {}, B \subseteq C, Cardinality(C) <= Cardinality(A)
    PROVE  Cardinality(B) <= Cardinality(A \ C)
<1>1. IsFiniteSet(A) /\ IsFiniteSet(B) /\ IsFiniteSet(C) /\ IsFiniteSet(A \ C)
      /\ IsFiniteSet(A \cap C)
  BY FS_Subset
<1>2. Cardinality(A) \in Nat /\ Cardinality(B) \in Nat /\ Cardinality(C) \in Nat
      /\ Cardinality(A \ C) \in Nat /\ Cardinality(A \cap C) \in Nat
  BY <1>1, FS_CardinalityType
<1>3. Cardinality(A \ C) = Cardinality(A) - Cardinality(A \cap C)
  BY <1>1, FS_Difference
<1>4. Cardinality((A \cap C) \cup B) =
      Cardinality(A \cap C) + Cardinality(B) - Cardinality((A \cap C) \cap B)
  BY <1>1, FS_Union
<1>5. (A \cap C) \cap B = {} /\ (A \cap C) \cup B \subseteq C
  OBVIOUS
<1>6. Cardinality((A \cap C) \cap B) = 0
  BY <1>5, FS_EmptySet
<1>7. Cardinality((A \cap C) \cup B) <= Cardinality(C)
  BY <1>1, <1>5, FS_Subset
<1> QED
  BY <1>2, <1>3, <1>4, <1>6, <1>7

\* Those who are missing from an answer that goes out without a record are no
\* more than those it shows who are gone when the profiles are counted.
LEMMA OmissionMasked ==
    ASSUME ReadInv, reading.stage = "count", ~Omits
    PROVE  Cardinality(reading.missing) <= Cardinality(Lost)
<1>1. /\ reading.rows \in SUBSET Profile /\ reading.missing \in SUBSET Profile
      /\ reading.rows \cap reading.missing = {} /\ reading.missing \subseteq content.hidden
      /\ content \in Contents
  BY DEF ReadInv, ReadingOK, JoinOK, PlaceOK
<1>2. /\ content.profiles \in SUBSET Profile /\ IsFiniteSet(Profile)
      /\ reading.missing \subseteq content.profiles
  BY <1>1, SiteAssumption
<1>3. /\ Cardinality(content.profiles) \in Nat /\ Cardinality(reading.rows) \in Nat
  BY <1>1, <1>2, FS_Subset, FS_CardinalityType
<1>4. Cardinality(content.profiles) <= Cardinality(reading.rows)
  BY <1>3 DEF Omits
<1> QED
  BY <1>1, <1>2, <1>4, Masking DEF Lost

LEMMA ReadReadingStep ==
    ASSUME ReadInv, ReadingStep
    PROVE  ReadInv'
<1>0. "leadership" \in Regions
  BY RegionsAre
<1>1. CASE JoinLeaders
  <2>1. /\ regions["leadership"].state = "waiting" /\ UNCHANGED <<content, place, regions>>
        /\ reading' = [stage |-> "count", rows |-> VisibleLeaders(content),
                       missing |-> content.hidden, hid |-> content.hidden,
                       lost |-> {}, recorded |-> {}]
    BY <1>1 DEF JoinLeaders, world
  <2>2. content.hidden \subseteq Profile
    BY SiteAssumption DEF ReadInv, PlaceOK
  <2>3. VisibleLeaders(content) \subseteq Profile /\ VisibleLeaders(content) \cap content.hidden = {}
    BY SiteAssumption DEF VisibleLeaders, ReadInv, PlaceOK
  <2>4. VisibleLeaders(content) \in regions["leadership"].seen
    BY <1>0, <2>1, LeadershipList DEF ReadInv, SeenOK
  <2>5. PlaceOK' /\ RegionsOK' /\ SeenOK'
    BY <2>1 DEF ReadInv, PlaceOK, RegionsOK, SeenOK, place
  <2>6. ReadingOK'
    BY <2>1, <2>2, <2>3 DEF ReadingOK
  <2>7. JoinOK' /\ OmissionRecorded'
    BY <2>1, <2>3, <2>4 DEF JoinOK, OmissionRecorded
  <2> QED
    BY <2>5, <2>6, <2>7 DEF ReadInv
<1>2. ASSUME NEW names \in SUBSET Profile, NEW gone \in SUBSET Profile,
             reading.stage # "idle", Answer, UNCHANGED <<content, place>>,
             reading' = [reading EXCEPT !.stage = "idle", !.lost = gone, !.recorded = names],
             names \subseteq reading.hid,
             reading.missing \subseteq names \/ Cardinality(reading.missing) <= Cardinality(gone)
      PROVE  ReadInv'
  <2>1. reading.rows \in SUBSET Row /\ reading.rows \in regions["leadership"].seen
    BY <1>2 DEF ReadInv, ReadingOK, JoinOK, Row
  <2>2. PlaceOK' /\ RegionsOK' /\ SeenOK'
    BY <1>0, <1>2, <2>1, Settling DEF Answer
  <2>3. ReadingOK' /\ reading'.stage = "idle"
    BY <1>2 DEF ReadInv, ReadingOK
  <2>4. JoinOK'
    BY <2>3 DEF JoinOK
  <2>5. /\ reading'.missing = reading.missing /\ reading'.hid = reading.hid
        /\ reading'.lost = gone /\ reading'.recorded = names
    BY <1>2 DEF ReadInv, ReadingOK
  <2>6. OmissionRecorded'
    BY <1>2, <2>5 DEF OmissionRecorded
  <2> QED
    BY <2>2, <2>3, <2>4, <2>6 DEF ReadInv
<1>3. CASE CountLeaders
  <2>1. reading.stage = "count" /\ UNCHANGED <<content, place>> /\ reading.recorded = {}
        /\ Lost \in SUBSET Profile
    BY <1>3 DEF CountLeaders, world, ReadInv, JoinOK, ReadingOK, Lost
  <2>2. CASE Omits
    <3>1. reading' = [reading EXCEPT !.stage = "orders", !.lost = Lost] /\ UNCHANGED regions
      BY <1>3, <2>2 DEF CountLeaders
    <3>2. ReadingOK'
      BY <2>1, <3>1 DEF ReadInv, ReadingOK
    <3>3. /\ reading'.stage = "orders" /\ reading'.rows = reading.rows
          /\ reading'.missing = reading.missing /\ reading'.hid = reading.hid
          /\ reading'.recorded = reading.recorded
      BY <3>1 DEF ReadInv, ReadingOK
    <3>4. PlaceOK' /\ RegionsOK' /\ SeenOK'
      BY <2>1, <3>1 DEF ReadInv, PlaceOK, RegionsOK, SeenOK, place
    <3>5. JoinOK' /\ OmissionRecorded'
      BY <2>1, <3>1, <3>3 DEF ReadInv, JoinOK, OmissionRecorded
    <3> QED
      BY <3>2, <3>4, <3>5 DEF ReadInv
  <2>3. CASE ~Omits
    <3>1. Answer /\ reading' = [reading EXCEPT !.stage = "idle", !.lost = Lost]
      BY <1>3, <2>3 DEF CountLeaders
    <3>2. reading' = [reading EXCEPT !.stage = "idle", !.lost = Lost, !.recorded = {}]
      BY <2>1, <3>1 DEF ReadInv, ReadingOK
    <3>3. Cardinality(reading.missing) <= Cardinality(Lost)
      BY <2>1, <2>3, OmissionMasked
    <3> QED
      BY <1>2, <2>1, <3>1, <3>2, <3>3
  <2> QED
    BY <2>2, <2>3
<1>4. CASE RecordOmission
  <2>1. /\ reading.stage = "orders" /\ UNCHANGED <<content, place>> /\ Answer
        /\ reading' = [reading EXCEPT !.stage = "idle", !.recorded = content.hidden]
    BY <1>4 DEF RecordOmission, world
  <2>2. content.hidden \in SUBSET Profile
    BY SiteAssumption DEF ReadInv, PlaceOK
  <2>3. content.hidden \subseteq reading.hid /\ reading.missing \subseteq content.hidden
    BY <2>1 DEF ReadInv, JoinOK
  <2>4. /\ reading.lost \in SUBSET Profile
        /\ reading' = [reading EXCEPT !.stage = "idle", !.lost = reading.lost,
                                      !.recorded = content.hidden]
    BY <2>1 DEF ReadInv, ReadingOK
  <2> QED
    BY <1>2, <2>1, <2>2, <2>3, <2>4
<1>5. CASE BreakReading
  <2>1. /\ Settle("leadership", "failed", {}) /\ reading' = NotReading
        /\ UNCHANGED <<content, place>>
    BY <1>5 DEF BreakReading, world
  <2>2. PlaceOK' /\ RegionsOK' /\ SeenOK'
    BY <1>0, <2>1, Settling
  <2>3. ReadingOK' /\ JoinOK' /\ OmissionRecorded'
    BY <2>1 DEF ReadingOK, JoinOK, OmissionRecorded, NotReading
  <2> QED
    BY <2>2, <2>3 DEF ReadInv
<1> QED
  BY <1>1, <1>3, <1>4, <1>5 DEF ReadingStep

\* A new dataset: it is added to what a region that waits may show.
LEMMA ReadReseed ==
    ASSUME ReadInv, Reseed
    PROVE  ReadInv'
<1>1. /\ content' \in Contents /\ UNCHANGED place
      /\ regions' = [r \in Regions |->
           IF regions[r].state = "waiting"
           THEN [regions[r] EXCEPT !.seen = @ \cup {List(r, content', wanted)}]
           ELSE regions[r]]
      /\ reading' = IF reading.stage = "idle" THEN reading
                    ELSE [reading EXCEPT !.missing = @ \cap content'.hidden,
                                         !.hid = @ \cup content'.hidden]
  BY DEF Reseed
<1>2. content'.hidden \subseteq Profile
  BY <1>1, SiteAssumption
<1>3. \A r \in Regions : List(r, content', wanted) \in SUBSET Row
  BY <1>1, ListTyped DEF ReadInv, PlaceOK
<1>4. PlaceOK'
  BY <1>1 DEF ReadInv, PlaceOK, place
<1>5. regions' \in [Regions -> [state : {"unasked", "waiting", "failed", "read"},
                                list : SUBSET Row, seen : SUBSET (SUBSET Row)]]
  <2> SUFFICES ASSUME NEW r \in Regions
               PROVE  regions'[r] \in [state : {"unasked", "waiting", "failed", "read"},
                                       list : SUBSET Row, seen : SUBSET (SUBSET Row)]
    BY <1>1
  <2>1. regions[r] \in [state : {"unasked", "waiting", "failed", "read"},
                        list : SUBSET Row, seen : SUBSET (SUBSET Row)]
    BY DEF ReadInv, RegionsOK
  <2> QED
    BY <1>1, <1>3, <2>1
<1>6. \A r \in Regions :
        /\ regions'[r].state = regions[r].state /\ regions'[r].list = regions[r].list
        /\ regions[r].seen \subseteq regions'[r].seen
        /\ regions[r].state = "waiting" => List(r, content', wanted) \in regions'[r].seen
  <2> SUFFICES ASSUME NEW r \in Regions
               PROVE
        /\ regions'[r].state = regions[r].state /\ regions'[r].list = regions[r].list
        /\ regions[r].seen \subseteq regions'[r].seen
        /\ regions[r].state = "waiting" => List(r, content', wanted) \in regions'[r].seen
    OBVIOUS
  <2>1. regions[r] \in [state : {"unasked", "waiting", "failed", "read"},
                        list : SUBSET Row, seen : SUBSET (SUBSET Row)]
    BY DEF ReadInv, RegionsOK
  <2> QED
    BY <1>1, <2>1
<1>7. RegionsOK' /\ SeenOK'
  BY <1>1, <1>5, <1>6 DEF ReadInv, RegionsOK, SeenOK, place
<1>8. CASE reading.stage = "idle"
  <2>1. reading' = reading
    BY <1>1, <1>8
  <2>2. ReadingOK' /\ JoinOK' /\ OmissionRecorded'
    BY <1>6, <1>8, <2>1, RegionsAre DEF ReadInv, ReadingOK, JoinOK, OmissionRecorded
  <2> QED
    BY <1>4, <1>7, <2>2 DEF ReadInv
<1>9. CASE reading.stage # "idle"
  <2>1. reading' = [reading EXCEPT !.missing = @ \cap content'.hidden,
                                   !.hid = @ \cup content'.hidden]
    BY <1>1, <1>9
  <2>2. ReadingOK'
    BY <1>2, <2>1 DEF ReadInv, ReadingOK
  <2>3. /\ reading'.stage = reading.stage /\ reading'.rows = reading.rows
        /\ reading'.missing = reading.missing \cap content'.hidden
        /\ reading'.hid = reading.hid \cup content'.hidden
        /\ reading'.recorded = reading.recorded
    BY <2>1 DEF ReadInv, ReadingOK
  <2>4. JoinOK'
    BY <1>6, <1>9, <2>3, RegionsAre DEF ReadInv, JoinOK
  <2>5. OmissionRecorded'
    BY <1>6, <1>9, <2>3, RegionsAre DEF ReadInv, JoinOK, OmissionRecorded
  <2> QED
    BY <1>4, <1>7, <2>2, <2>4, <2>5 DEF ReadInv
<1> QED
  BY <1>8, <1>9

LEMMA ReadFrame ==
    ASSUME ReadInv, UNCHANGED <<content, place, regions, reading>>
    PROVE  ReadInv'
BY DEF ReadInv, PlaceOK, RegionsOK, ReadingOK, SeenOK, JoinOK, OmissionRecorded, place

LEMMA ReadInvariant == SiteSpec => []ReadInv
<1>1. ReadInv /\ [SiteNext]_siteVars => ReadInv'
  <2> SUFFICES ASSUME ReadInv, [SiteNext]_siteVars
               PROVE  ReadInv'
    OBVIOUS
  <2>1. ASSUME NEW l \in Refresh, Poll(l) \/ RefreshStep(l)
        PROVE  ReadInv'
    BY <2>1, ReadFrame DEF Poll, RefreshStep, Probe, ReadManifest, ShowBoard, FailLoad, world
  <2>2. ASSUME NEW c \in Call, (\E m \in Message : SubmitMessage(c, m)) \/ ServeStep(c) \/ CallStep(c)
        PROVE  ReadInv'
    BY <2>2, ReadFrame
       DEF SubmitMessage, ServeStep, CallStep, Keep, Refuse, Break, Deliver, Expire, world
  <2>3. CASE Again \/ Fail \/ Recover
    BY <2>3, ReadFrame DEF Again, Fail, Recover, world
  <2>4. CASE UNCHANGED siteVars
    BY <2>4, ReadFrame DEF siteVars, world
  <2> QED
    BY <2>1, <2>2, <2>3, <2>4, ReadVisit, ReadRegionStep, ReadReadingStep, ReadReseed DEF SiteNext
<1> QED
  BY <1>1, ReadInit, PTL DEF SiteSpec

\* Profiles that would not resolve for the whole of a reading are named by the
\* entry committed with it, or are no more than those the join had found that
\* were gone at the count; the entry names none that resolved all along.
THEOREM OmissionsRecorded == SiteSpec => []OmissionRecorded
<1>1. ReadInv => OmissionRecorded
  BY DEF ReadInv
<1> QED
  BY <1>1, ReadInvariant, PTL
\* What a region shows follows from what its list is made of.
LEMMA TruthOfPages ==
    ASSUME RegionsOK, SeenOK, page \in DOMAIN Paths
    PROVE  PagesTellTruth
<1> SUFFICES ASSUME NEW r \in Paths[page]
             PROVE  /\ Screen(r) \in {"empty", "not found"} => {} \in regions[r].seen
                    /\ Screen(r) = "items" => regions[r].list \in regions[r].seen
  BY DEF PagesTellTruth
<1>1. r \in Regions
  BY PathsAreRegions
<1>2. regions[r].state \in {"waiting", "failed", "read"}
  BY <1>1 DEF RegionsOK
<1>3. /\ Section(r) = "empty" => regions[r].state = "read" /\ regions[r].list = {}
      /\ Section(r) = "items" => regions[r].state = "read"
      /\ Section(r) \in {"blank", "error", "empty", "items"}
  BY <1>2 DEF Section
<1>4. /\ Section(r) = "empty" => {} \in regions[r].seen
      /\ Section(r) = "items" => regions[r].list \in regions[r].seen
  BY <1>1, <1>3 DEF SeenOK
<1>5. CASE r = "matching"
  <2>1. Screen(r) \in {"error", "blank", Section(r)}
    BY <1>5 DEF Screen, CareersPage
  <2> QED
    BY <1>3, <1>4, <2>1
<1>6. CASE r = "offices"
  <2>1. Screen(r) \in {"error", "blank", Section(r)}
    BY <1>6 DEF Screen, Addresses
  <2> QED
    BY <1>3, <1>4, <2>1
<1>7. CASE r = "role"
  <2>1. Screen(r) = IF Section(r) = "empty" THEN "not found" ELSE Section(r)
    BY <1>7 DEF Screen, VacancyPage
  <2> QED
    BY <1>3, <1>4, <2>1
<1>8. CASE r \notin {"matching", "offices", "role"}
  <2>1. Screen(r) = Section(r)
    BY <1>8 DEF Screen
  <2> QED
    BY <1>3, <1>4, <2>1
<1> QED
  BY <1>5, <1>6, <1>7, <1>8

-----------------------------------------------------------------------------
(* The contact form and its calls.                                         *)

LEMMA FormInit == SiteInit => FormInv
BY DEF SiteInit, FormInv, NoForm, NoCall, FormTellsTruth

LEMMA FormFrame ==
    ASSUME FormInv, UNCHANGED contact
    PROVE  FormInv'
BY DEF FormInv, FormTellsTruth, contact

LEMMA FormVisit ==
    ASSUME NEW p, NEW some, Visit(p, some)
    PROVE  FormInv'
BY DEF Visit, FormInv, NoForm, NoCall, FormTellsTruth

LEMMA FormSubmit ==
    ASSUME FormInv, NEW c \in Call, NEW m \in Message, SubmitMessage(c, m)
    PROVE  FormInv'
<1>1. /\ form.status \in {"idle", "failed", "bounded"}
      /\ form' = [status |-> "submitting", message |-> m]
      /\ calls' = [calls EXCEPT ![c] = [stage |-> "sent", message |-> m, live |-> TRUE]]
      /\ kept' = kept
  BY DEF SubmitMessage
<1>2. \A d \in Call : ~calls[d].live
  BY <1>1 DEF FormInv
<1> QED
  BY <1>1, <1>2 DEF FormInv, FormTellsTruth

\* The API decides: the row is there before the call is one that was kept.
LEMMA FormApiStep ==
    ASSUME FormInv, NEW c \in Call, ServeStep(c)
    PROVE  FormInv'
<1>1. PICK stage \in {"kept", "refused", "invalid", "broken"} :
        /\ Becomes(c, stage) /\ form' = form
        /\ kept \subseteq kept' /\ kept' \subseteq kept \cup {calls[c].message}
        /\ calls[c].stage # "none"
        /\ stage = "kept" => calls[c].message \in kept'
  BY DEF ServeStep, Keep, Refuse, Break
<1>2. calls[c].message \in Message
  BY <1>1 DEF FormInv
<1>3. calls' = [calls EXCEPT ![c] = [calls[c] EXCEPT !.stage = stage]]
  BY <1>1 DEF Becomes
<1>4. calls[c] \in [stage : {"none", "sent", "kept", "refused", "invalid", "broken"},
                    message : Message \cup {Nothing}, live : BOOLEAN]
  BY DEF FormInv
<1> DEFINE new == [calls[c] EXCEPT !.stage = stage]
<1>5. /\ new \in [stage : {"none", "sent", "kept", "refused", "invalid", "broken"},
                  message : Message \cup {Nothing}, live : BOOLEAN]
      /\ new.stage = stage /\ new.message = calls[c].message /\ new.live = calls[c].live
  BY <1>4
<1> HIDE DEF new
<1>6. /\ calls'[c] = new /\ \A d \in Call \ {c} : calls'[d] = calls[d]
      /\ calls' \in [Call -> [stage : {"none", "sent", "kept", "refused", "invalid", "broken"},
                              message : Message \cup {Nothing}, live : BOOLEAN]]
  BY <1>3, <1>5 DEF new, FormInv
<1> QED
  BY <1>1, <1>2, <1>5, <1>6 DEF FormInv, FormTellsTruth

LEMMA FormDeliver ==
    ASSUME FormInv, NEW c \in Call, Deliver(c)
    PROVE  FormInv'
<1>1. /\ calls[c].stage \in {"kept", "refused", "invalid", "broken"}
      /\ form' = IF calls[c].live
                 THEN [form EXCEPT !.status = Outcome(calls[c].stage)] ELSE form
      /\ calls' = [calls EXCEPT ![c] = NoCall] /\ kept' = kept
  BY DEF Deliver, FormInv
<1>2. /\ Outcome(calls[c].stage) \in {"sent", "bounded", "idle", "failed"}
      /\ Outcome(calls[c].stage) = "sent" => calls[c].stage = "kept"
  BY <1>1 DEF Outcome
<1>3. /\ calls'[c] = NoCall /\ \A d \in Call \ {c} : calls'[d] = calls[d]
      /\ calls' \in [Call -> [stage : {"none", "sent", "kept", "refused", "invalid", "broken"},
                              message : Message \cup {Nothing}, live : BOOLEAN]]
  BY <1>1 DEF FormInv, NoCall
<1>4. CASE calls[c].live
  <2>1. /\ form'.status = Outcome(calls[c].stage) /\ form'.message = form.message
        /\ form' \in [status : {"idle", "submitting", "sent", "failed", "bounded"},
                      message : Message \cup {Nothing}]
    BY <1>1, <1>2, <1>4 DEF FormInv
  <2>2. form.message = calls[c].message /\ \A d \in Call \ {c} : ~calls[d].live
    BY <1>4 DEF FormInv
  <2> QED
    BY <1>1, <1>2, <1>3, <2>1, <2>2 DEF FormInv, FormTellsTruth, NoCall
<1>5. CASE ~calls[c].live
  <2>1. form' = form
    BY <1>1, <1>5
  <2> QED
    BY <1>1, <1>3, <2>1 DEF FormInv, FormTellsTruth, NoCall
<1> QED
  BY <1>4, <1>5 DEF FormInv

LEMMA FormExpire ==
    ASSUME FormInv, NEW c \in Call, Expire(c)
    PROVE  FormInv'
<1>1. /\ calls[c].live /\ form' = [form EXCEPT !.status = "failed"] /\ kept' = kept
      /\ calls' = [calls EXCEPT ![c] = [calls[c] EXCEPT !.live = FALSE]]
  BY DEF Expire
<1>2. calls[c] \in [stage : {"none", "sent", "kept", "refused", "invalid", "broken"},
                    message : Message \cup {Nothing}, live : BOOLEAN]
  BY DEF FormInv
<1> DEFINE new == [calls[c] EXCEPT !.live = FALSE]
<1>3. /\ new \in [stage : {"none", "sent", "kept", "refused", "invalid", "broken"},
                  message : Message \cup {Nothing}, live : BOOLEAN]
      /\ new.stage = calls[c].stage /\ new.message = calls[c].message /\ new.live = FALSE
  BY <1>2
<1> HIDE DEF new
<1>4. /\ calls'[c] = new /\ \A d \in Call \ {c} : calls'[d] = calls[d]
      /\ calls' \in [Call -> [stage : {"none", "sent", "kept", "refused", "invalid", "broken"},
                              message : Message \cup {Nothing}, live : BOOLEAN]]
  BY <1>1, <1>3 DEF new, FormInv
<1>5. \A d \in Call \ {c} : ~calls[d].live
  BY <1>1 DEF FormInv
<1>6. /\ form'.status = "failed" /\ form'.message = form.message
      /\ form' \in [status : {"idle", "submitting", "sent", "failed", "bounded"},
                    message : Message \cup {Nothing}]
  BY <1>1 DEF FormInv
<1> QED
  BY <1>1, <1>3, <1>4, <1>5, <1>6 DEF FormInv, FormTellsTruth

LEMMA FormAgain ==
    ASSUME FormInv, Again
    PROVE  FormInv'
<1>1. form.status = "sent" /\ form' = NoForm /\ UNCHANGED <<calls, kept>>
  BY DEF Again
<1>2. \A c \in Call : ~calls[c].live
  BY <1>1 DEF FormInv
<1> QED
  BY <1>1, <1>2 DEF FormInv, FormTellsTruth, NoForm

LEMMA FormInvariant == SiteSpec => []FormInv
<1>1. FormInv /\ [SiteNext]_siteVars => FormInv'
  <2> SUFFICES ASSUME FormInv, [SiteNext]_siteVars
               PROVE  FormInv'
    OBVIOUS
  <2>1. ASSUME NEW r \in Regions, RegionStep(r)
        PROVE  FormInv'
    BY <2>1, FormFrame DEF RegionStep, ReadRegion, FailRegion, GiveUp
  <2>2. CASE ReadingStep
    BY <2>2, FormFrame
       DEF ReadingStep, JoinLeaders, CountLeaders, RecordOmission, BreakReading
  <2>3. ASSUME NEW l \in Refresh, Poll(l) \/ RefreshStep(l)
        PROVE  FormInv'
    BY <2>3, FormFrame DEF Poll, RefreshStep, Probe, ReadManifest, ShowBoard, FailLoad
  <2>4. ASSUME NEW c \in Call, CallStep(c)
        PROVE  FormInv'
    BY <2>4, FormDeliver, FormExpire DEF CallStep
  <2>5. CASE Fail \/ Recover \/ Reseed
    BY <2>5, FormFrame DEF Fail, Recover, Reseed
  <2>6. CASE UNCHANGED siteVars
    BY <2>6, FormFrame DEF siteVars
  <2> QED
    BY <2>1, <2>2, <2>3, <2>4, <2>5, <2>6, FormVisit, FormSubmit, FormApiStep, FormAgain DEF SiteNext
<1> QED
  BY <1>1, FormInit, PTL DEF SiteSpec

\* The form says a message was received only when that message is stored.
THEOREM FormTrue == SiteSpec => []FormTellsTruth
<1>1. FormInv => FormTellsTruth
  BY DEF FormInv
<1> QED
  BY <1>1, FormInvariant, PTL

-----------------------------------------------------------------------------
(* The stores, the API and the status page.                                *)

WorldOK ==
    /\ health \in [Store -> Conditions]
    /\ api \in BOOLEAN
    /\ changes \in 0 .. MaxChanges

Shown == [Store -> Statuses \cup {Nothing}]
RefreshRecord ==
    [asked : BOOLEAN, rows : Shown, manifest : {"unread", "none", "seeded"},
     seen : SUBSET ((Store \cup {"manifest"}) \X (Statuses \cup {"none", "seeded"}))]

BoardOK ==
    /\ board \in [state : {"loading", "loaded", "error"}, rows : Shown,
                  manifest : {"none", "seeded"}]
    /\ loads \in [Refresh -> RefreshRecord]

\* What a refresh was told was so since it was asked, and so is what it would
\* be told now.
Told(load) ==
    /\ load.asked => Facts(health, content) \subseteq load.seen
    /\ \A d \in Store : load.rows[d] # Nothing => <<d, load.rows[d]>> \in load.seen
    /\ load.manifest # "unread" => <<"manifest", load.manifest>> \in load.seen

BoardInv == BoardOK /\ \A l \in Refresh : Told(loads[l])

LEMMA WorldInvariant == SiteSpec => []WorldOK
<1>1. SiteInit => WorldOK
  BY SiteAssumption DEF SiteInit, WorldOK, Conditions
<1>2. WorldOK /\ [SiteNext]_siteVars => WorldOK'
  <2> SUFFICES ASSUME WorldOK, [SiteNext]_siteVars
               PROVE  WorldOK'
    OBVIOUS
  <2>1. ASSUME UNCHANGED <<health, api, changes>>
        PROVE  WorldOK'
    BY <2>1 DEF WorldOK
  <2>2. ASSUME NEW p, NEW some, Visit(p, some)
        PROVE  WorldOK'
    BY <2>1, <2>2 DEF Visit, world
  <2>3. ASSUME NEW r \in Regions, RegionStep(r)
        PROVE  WorldOK'
    BY <2>1, <2>3 DEF RegionStep, ReadRegion, FailRegion, GiveUp, world
  <2>4. CASE ReadingStep
    BY <2>1, <2>4
       DEF ReadingStep, JoinLeaders, CountLeaders, RecordOmission, BreakReading, world
  <2>5. ASSUME NEW l \in Refresh, Poll(l) \/ RefreshStep(l)
        PROVE  WorldOK'
    BY <2>1, <2>5 DEF Poll, RefreshStep, Probe, ReadManifest, ShowBoard, FailLoad, world
  <2>6. ASSUME NEW c \in Call, (\E m \in Message : SubmitMessage(c, m)) \/ ServeStep(c) \/ CallStep(c)
        PROVE  WorldOK'
    BY <2>1, <2>6 DEF SubmitMessage, ServeStep, CallStep, Keep, Refuse, Break, Deliver, Expire, world
  <2>7. CASE Again
    BY <2>1, <2>7 DEF Again, world
  <2>8. CASE Fail
    <3>1. changes' \in 0 .. MaxChanges
      BY <2>8, SiteAssumption DEF Fail, Counted, WorldOK
    <3>2. api' \in BOOLEAN
      BY <2>8 DEF Fail, WorldOK
    <3>3. health' \in [Store -> Conditions]
      BY <2>8, SiteAssumption DEF Fail, WorldOK, Conditions
    <3> QED
      BY <3>1, <3>2, <3>3 DEF WorldOK
  <2>9. CASE Recover
    BY <2>9 DEF Recover, WorldOK, Conditions
  <2>10. CASE Reseed
    BY <2>10, SiteAssumption DEF Reseed, Counted, WorldOK
  <2>11. CASE UNCHANGED siteVars
    BY <2>1, <2>11 DEF siteVars, world
  <2> QED
    BY <2>2, <2>3, <2>4, <2>5, <2>6, <2>7, <2>8, <2>9, <2>10, <2>11 DEF SiteNext
<1> QED
  BY <1>1, <1>2, PTL DEF SiteSpec

\* What a probe reports is one of the three statuses.
LEMMA CheckTyped ==
    ASSUME NEW h \in [Store -> Conditions], NEW d \in Store
    PROVE  Check(h, d) \subseteq Statuses
<1>1. h["redis"] \in Conditions /\ h[d] \in Conditions
  BY SiteAssumption
<1>2. Classified(d, h[d]) \in Statuses
  BY <1>1 DEF Conditions, Classified, Statuses
<1>3. CheckWorker(h) \subseteq Statuses
  BY <1>1 DEF CheckWorker, Conditions, Statuses
<1> QED
  BY <1>2, <1>3 DEF Check

LEMMA FactsTyped ==
    ASSUME NEW h, NEW c
    PROVE  Facts(h, c) \subseteq (Store \cup {"manifest"}) \X (Statuses \cup {"none", "seeded"})
<1>1. Manifest(c) \in {"none", "seeded"}
  BY DEF Manifest
<1> QED
  BY <1>1 DEF Facts

LEMMA FactsAre ==
    ASSUME NEW h \in [Store -> Conditions], NEW c
    PROVE  /\ \A d \in Store : \A report \in Check(h, d) : <<d, report>> \in Facts(h, c)
           /\ <<"manifest", Manifest(c)>> \in Facts(h, c)
BY CheckTyped DEF Facts

LEMMA IdleTold == Idle \in RefreshRecord /\ Told(Idle)
BY DEF Idle, RefreshRecord, Told, Unchecked, Shown

\* One refresh changes, and to a record of what it may have been told.
LEMMA OneLoad ==
    ASSUME BoardInv, UNCHANGED <<health, content>>, NEW l \in Refresh, NEW new \in RefreshRecord,
           loads' = [loads EXCEPT ![l] = new], Told(new),
           board' \in [state : {"loading", "loaded", "error"}, rows : Shown,
                       manifest : {"none", "seeded"}]
    PROVE  BoardInv'
<1>1. BoardOK'
  BY DEF BoardInv, BoardOK
<1>2. ASSUME NEW k \in Refresh
      PROVE  Told(loads[k])'
  <2>1. loads'[k] \in {new, loads[k]}
    BY DEF BoardInv, BoardOK
  <2>2. Told(loads'[k])
    BY <2>1 DEF BoardInv
  <2> QED
    BY <2>2 DEF Told
<1> QED
  BY <1>1, <1>2 DEF BoardInv

\* The world changes: every refresh that was asked takes note of what is so now.
LEMMA WitnessStep ==
    ASSUME BoardInv, UNCHANGED board, health' \in [Store -> Conditions],
           Witness(health', content')
    PROVE  BoardInv'
<1>1. Facts(health', content')
      \subseteq (Store \cup {"manifest"}) \X (Statuses \cup {"none", "seeded"})
  BY FactsTyped
<1>2. ASSUME NEW l \in Refresh
      PROVE  loads'[l] \in RefreshRecord /\ Told(loads[l])'
  <2>1. loads[l] \in RefreshRecord /\ Told(loads[l])
    BY DEF BoardInv, BoardOK
  <2>2. CASE loads[l].asked
    <3> DEFINE new == [loads[l] EXCEPT !.seen = loads[l].seen \cup Facts(health', content')]
    <3>1. loads'[l] = new
      BY <2>2 DEF Witness
    <3>2. /\ new \in RefreshRecord /\ new.asked = loads[l].asked /\ new.rows = loads[l].rows
          /\ new.manifest = loads[l].manifest
          /\ new.seen = loads[l].seen \cup Facts(health', content')
      BY <1>1, <2>1 DEF RefreshRecord
    <3> HIDE DEF new
    <3>3. loads'[l] \in RefreshRecord /\ loads'[l].asked = loads[l].asked /\ loads'[l].rows = loads[l].rows
          /\ loads'[l].manifest = loads[l].manifest
          /\ loads'[l].seen = loads[l].seen \cup Facts(health', content')
      BY <3>1, <3>2
    <3>4. Facts(health, content)' \subseteq loads'[l].seen
      BY <3>3 DEF Facts, Check, CheckWorker, Classified, Manifest
    <3> QED
      BY <2>1, <3>3, <3>4 DEF Told
  <2>3. CASE ~loads[l].asked
    <3>1. loads'[l] = loads[l]
      BY <2>3 DEF Witness
    <3> QED
      BY <2>1, <2>3, <3>1 DEF Told
  <2> QED
    BY <2>2, <2>3
<1>3. loads' = [l \in Refresh |-> loads'[l]]
  BY DEF Witness
<1>4. BoardOK'
  BY <1>2, <1>3 DEF BoardInv, BoardOK
<1> QED
  BY <1>2, <1>4 DEF BoardInv

LEMMA BoardInvariant == SiteSpec => []BoardInv
<1>1. SiteInit => BoardInv
  <2> SUFFICES ASSUME SiteInit
               PROVE  BoardInv
    OBVIOUS
  <2>1. BoardOK
    BY IdleTold DEF SiteInit, BoardOK, Mounted, Unchecked, Shown
  <2>2. ASSUME NEW l \in Refresh
        PROVE  Told(loads[l])
    BY IdleTold DEF SiteInit
  <2> QED
    BY <2>1, <2>2 DEF BoardInv
<1>2. BoardInv /\ WorldOK /\ WorldOK' /\ [SiteNext]_siteVars => BoardInv'
  <2> SUFFICES ASSUME BoardInv, WorldOK, WorldOK', [SiteNext]_siteVars
               PROVE  BoardInv'
    OBVIOUS
  <2>0. /\ \A l \in Refresh : loads[l] \in RefreshRecord /\ Told(loads[l])
        /\ board \in [state : {"loading", "loaded", "error"}, rows : Shown,
                      manifest : {"none", "seeded"}]
    BY DEF BoardInv, BoardOK
  <2>1. ASSUME UNCHANGED <<status, health, content>>
        PROVE  BoardInv'
    BY <2>1 DEF BoardInv, BoardOK, Told, Facts, Check, CheckWorker, Classified, Manifest, status
  <2>2. ASSUME NEW p, NEW some, Visit(p, some)
        PROVE  BoardInv'
    <3>1. board' = Mounted /\ loads' = [l \in Refresh |-> Idle]
      BY <2>2 DEF Visit
    <3>2. BoardOK'
      BY <3>1, IdleTold DEF BoardOK, Mounted, Unchecked, Shown
    <3>3. ASSUME NEW l \in Refresh
          PROVE  Told(loads[l])'
      BY <3>1 DEF Told, Idle, Unchecked
    <3> QED
      BY <3>2, <3>3 DEF BoardInv
  <2>3. ASSUME NEW r \in Regions, RegionStep(r)
        PROVE  BoardInv'
    BY <2>1, <2>3 DEF RegionStep, ReadRegion, FailRegion, GiveUp, world
  <2>4. CASE ReadingStep
    BY <2>1, <2>4 DEF ReadingStep, JoinLeaders, CountLeaders, RecordOmission, BreakReading, world
  <2>5. ASSUME NEW l \in Refresh, Poll(l)
        PROVE  BoardInv'
    <3> DEFINE new == [Idle EXCEPT !.asked = TRUE, !.seen = Facts(health, content)]
    <3>1. /\ loads' = [loads EXCEPT ![l] = new] /\ UNCHANGED <<health, content>>
          /\ board' = [board EXCEPT !.state = "loading"]
      BY <2>5 DEF Poll, world
    <3>2. new \in RefreshRecord /\ Told(new)
      BY IdleTold, FactsTyped DEF RefreshRecord, Told, Idle, Unchecked, WorldOK
    <3>3. board' \in [state : {"loading", "loaded", "error"}, rows : Shown,
                      manifest : {"none", "seeded"}]
      BY <2>0, <3>1
    <3> HIDE DEF new
    <3> QED
      BY <3>1, <3>2, <3>3, OneLoad
  <2>6. ASSUME NEW l \in Refresh, NEW d \in Store, Probe(l, d)
        PROVE  BoardInv'
    <3>1. PICK report \in Check(health, d) : loads' = [loads EXCEPT ![l].rows[d] = report]
      BY <2>6 DEF Probe
    <3>2. /\ loads[l].asked /\ UNCHANGED <<health, content, board>>
      BY <2>6 DEF Probe, world
    <3> DEFINE new == [loads[l] EXCEPT !.rows = [loads[l].rows EXCEPT ![d] = report]]
    <3>3. report \in Statuses /\ <<d, report>> \in loads[l].seen
      BY <2>0, <3>2, CheckTyped, FactsAre DEF Told, WorldOK
    <3>4. new \in RefreshRecord /\ new.rows = [loads[l].rows EXCEPT ![d] = report]
          /\ new.asked = loads[l].asked /\ new.manifest = loads[l].manifest
          /\ new.seen = loads[l].seen
      BY <2>0, <3>3 DEF RefreshRecord, Shown
    <3>5. loads' = [loads EXCEPT ![l] = new]
      BY <3>1
    <3> HIDE DEF new
    <3>6. Told(new)
      BY <2>0, <3>3, <3>4 DEF Told, RefreshRecord, Shown
    <3> QED
      BY <2>0, <3>2, <3>4, <3>5, <3>6, OneLoad
  <2>7. ASSUME NEW l \in Refresh, ReadManifest(l)
        PROVE  BoardInv'
    <3>1. /\ loads[l].asked /\ UNCHANGED <<health, content, board>>
          /\ loads' = [loads EXCEPT ![l] = [loads[l] EXCEPT !.manifest = Manifest(content)]]
      BY <2>7 DEF ReadManifest, world
    <3> DEFINE new == [loads[l] EXCEPT !.manifest = Manifest(content)]
    <3>2. new \in RefreshRecord /\ new.manifest = Manifest(content) /\ new.rows = loads[l].rows
          /\ new.asked = loads[l].asked /\ new.seen = loads[l].seen
      BY <2>0 DEF RefreshRecord, Manifest
    <3> HIDE DEF new
    <3>3. Told(new)
      BY <2>0, <3>1, <3>2, FactsAre DEF Told, WorldOK
    <3> QED
      BY <2>0, <3>1, <3>2, <3>3, OneLoad DEF new
  <2>8. ASSUME NEW l \in Refresh, ShowBoard(l)
        PROVE  BoardInv'
    <3>1. /\ loads' = [loads EXCEPT ![l] = Idle] /\ UNCHANGED <<health, content>>
          /\ board' = [state |-> "loaded", rows |-> loads[l].rows, manifest |-> loads[l].manifest]
          /\ loads[l].manifest # "unread"
      BY <2>8 DEF ShowBoard, Gathered, world
    <3>2. board' \in [state : {"loading", "loaded", "error"}, rows : Shown,
                      manifest : {"none", "seeded"}]
      BY <2>0, <3>1 DEF RefreshRecord
    <3> QED
      BY <3>1, <3>2, IdleTold, OneLoad
  <2>9. ASSUME NEW l \in Refresh, FailLoad(l)
        PROVE  BoardInv'
    <3>1. /\ loads' = [loads EXCEPT ![l] = Idle] /\ UNCHANGED <<health, content>>
          /\ board' = [board EXCEPT !.state = "error"]
      BY <2>9 DEF FailLoad, world
    <3>2. board' \in [state : {"loading", "loaded", "error"}, rows : Shown,
                      manifest : {"none", "seeded"}]
      BY <2>0, <3>1
    <3> QED
      BY <3>1, <3>2, IdleTold, OneLoad
  <2>10. ASSUME NEW c \in Call, (\E m \in Message : SubmitMessage(c, m)) \/ ServeStep(c) \/ CallStep(c)
        PROVE  BoardInv'
    BY <2>1, <2>10 DEF SubmitMessage, ServeStep, CallStep, Keep, Refuse, Break, Deliver, Expire, world
  <2>11. CASE Again
    BY <2>1, <2>11 DEF Again, world
  <2>12. CASE Fail
    <3>1. UNCHANGED <<board, content>> /\ Witness(health', content')
      BY <2>12 DEF Fail, Witness, Facts, Manifest
    <3> QED
      BY <3>1, WitnessStep DEF WorldOK
  <2>13. CASE Recover
    <3>1. UNCHANGED <<board, content>> /\ Witness(health', content')
      BY <2>13 DEF Recover, Witness, Facts, Manifest
    <3> QED
      BY <3>1, WitnessStep DEF WorldOK
  <2>14. CASE Reseed
    <3>1. UNCHANGED <<board, health>> /\ Witness(health', content')
      BY <2>14 DEF Reseed, Witness, Facts, Check, CheckWorker, Classified
    <3> QED
      BY <3>1, WitnessStep DEF WorldOK
  <2>15. CASE UNCHANGED siteVars
    BY <2>1, <2>15 DEF siteVars, world
  <2> QED
    BY <2>2, <2>3, <2>4, <2>5, <2>6, <2>7, <2>8, <2>9, <2>10, <2>11, <2>12, <2>13, <2>14, <2>15
       DEF SiteNext, RefreshStep
<1> QED
  BY <1>1, <1>2, WorldInvariant, PTL DEF SiteSpec

\* What the status page comes to show are the two answers of one refresh, each of
\* them so since that refresh was asked.
THEOREM BoardTrue == SiteSpec => BoardTellsTruth
<1> DEFINE Now == page' = page => \E l \in Refresh : ToldBy(l, board'.rows, board'.manifest)
<1>1. BoardInv /\ [SiteNext]_siteVars => [Now]_OnScreen
  <2> SUFFICES ASSUME BoardInv, [SiteNext]_siteVars, page' = page,
                      <<board'.rows, board'.manifest>> # <<board.rows, board.manifest>>
               PROVE  \E l \in Refresh : ToldBy(l, board'.rows, board'.manifest)
    BY DEF OnScreen
  <2>1. ASSUME NEW l \in Refresh, ShowBoard(l)
        PROVE  ToldBy(l, board'.rows, board'.manifest)
    <3>1. /\ board'.rows = loads[l].rows /\ board'.manifest = loads[l].manifest
          /\ loads[l].manifest # "unread" /\ Nothing \notin Range(loads[l].rows)
      BY <2>1 DEF ShowBoard, Gathered, Ready
    <3>2. loads[l] \in RefreshRecord /\ Told(loads[l])
      BY DEF BoardInv, BoardOK
    <3>3. \A d \in Store : loads[l].rows[d] # Nothing
      BY <3>1, <3>2 DEF Range, RefreshRecord, Shown
    <3> QED
      BY <3>1, <3>2, <3>3 DEF Told, ToldBy
  <2>2. ASSUME NEW l \in Refresh, Poll(l) \/ FailLoad(l)
        PROVE  FALSE
    <3>1. \E state : board' = [board EXCEPT !.state = state]
      BY <2>2 DEF Poll, FailLoad
    <3> QED
      BY <3>1 DEF BoardInv, BoardOK
  <2>3. ASSUME UNCHANGED board
        PROVE  FALSE
    BY <2>3
  <2>4. \A p, some : ~Visit(p, some)
    BY DEF Visit
  <2>5. ASSUME NEW l \in Refresh, (\E d \in Store : Probe(l, d)) \/ ReadManifest(l)
        PROVE  FALSE
    BY <2>3, <2>5 DEF Probe, ReadManifest
  <2>6. ASSUME NEW r \in Regions, RegionStep(r)
        PROVE  FALSE
    BY <2>3, <2>6 DEF RegionStep, ReadRegion, FailRegion, GiveUp, status
  <2>7. ~ReadingStep
    BY <2>3 DEF ReadingStep, JoinLeaders, CountLeaders, RecordOmission, BreakReading, status
  <2>8. ASSUME NEW c \in Call, (\E m \in Message : SubmitMessage(c, m)) \/ ServeStep(c) \/ CallStep(c)
        PROVE  FALSE
    BY <2>3, <2>8 DEF SubmitMessage, ServeStep, CallStep, Keep, Refuse, Break, Deliver, Expire, status
  <2>9. ~Again /\ ~Fail /\ ~Recover /\ ~Reseed /\ ~UNCHANGED siteVars
    BY <2>3 DEF Again, Fail, Recover, Reseed, siteVars, status
  <2> QED
    BY <2>1, <2>2, <2>4, <2>5, <2>6, <2>7, <2>8, <2>9 DEF SiteNext, RefreshStep
<1> QED
  BY <1>1, BoardInvariant, PTL DEF SiteSpec, BoardTellsTruth

-----------------------------------------------------------------------------
\* Whatever failed, was given up or was reseeded while a page was read, what
\* it shows was so at some moment since it was opened.
THEOREM PagesSound == SiteSpec => []SiteSound
<1>1. ReadInv /\ FormInv /\ WorldOK /\ BoardInv => SiteSound
  <2> SUFFICES ASSUME ReadInv, FormInv, WorldOK, BoardInv
               PROVE  SiteSound
    OBVIOUS
  <2>1. Cardinality({c \in Call : calls[c].live}) <= 1
    <3> DEFINE live == {c \in Call : calls[c].live}
    <3>1. \A c, d \in live : c = d
      BY DEF FormInv
    <3>2. live = {} \/ \E c : live = {c}
      BY <3>1
    <3>3. Cardinality(live) \in {0, 1}
      BY <3>2, FS_EmptySet, FS_Singleton
    <3> QED
      BY <3>3
  <2>2. PagesTellTruth
    BY TruthOfPages DEF ReadInv, PlaceOK
  <2>3. DOMAIN regions = Regions
    BY DEF ReadInv, RegionsOK
  <2>4. \A r \in Regions : regions[r].state \in {"unasked", "waiting", "failed", "read"}
    BY DEF ReadInv, RegionsOK
  <2>5. /\ DOMAIN loads = Refresh
        /\ \A l \in Refresh :
            /\ loads[l].asked \in BOOLEAN
            /\ loads[l].rows \in Shown
            /\ loads[l].manifest \in {"unread", "none", "seeded"}
    BY DEF BoardInv, BoardOK, RefreshRecord
  <2>6. board \in [state : {"loading", "loaded", "error"}, rows : Shown,
                   manifest : {"none", "seeded"}]
    BY DEF BoardInv, BoardOK
  <2>7. SiteTypeOK
    BY <2>1, <2>3, <2>4, <2>5, <2>6
       DEF ReadInv, PlaceOK, RegionsOK, ReadingOK, JoinOK, FormInv, WorldOK, Shown, SiteTypeOK
  <2> QED
    BY <2>2, <2>7 DEF SiteSound
<1> QED
  BY <1>1, ReadInvariant, FormInvariant, WorldInvariant, BoardInvariant, PTL
=============================================================================
