------------------------------ MODULE Sessions ------------------------------
(***************************************************************************)
(* Who a call acts as: the signed cookie of src/lib/session.ts, the        *)
(* wrapper of src/lib/api.ts that reads it, the handlers under             *)
(* src/app/api/auth, and the tabs of one browser (src/lib/prf-client.ts    *)
(* and src/app/page.tsx), which share one cookie jar.                      *)
(*                                                                         *)
(* A call takes its cookie and its CSRF token when it is sent, is judged   *)
(* at the server in two steps, because the revocation list is awaited, and *)
(* changes the jar and its tab when the answer comes back.                 *)
(***************************************************************************)
EXTENDS Integers, FiniteSetsExt

CONSTANTS
  Tabs, Users,
  Nobody,        \* the tab shows the login screen
  NoToken,       \* an empty jar
  Password,      \* the deployment in which people sign in
  Idle,          \* IDLE_TIMEOUT_MS, an hour
  Absolute,      \* ABSOLUTE_TIMEOUT_MS, twelve hours
  MaxTime,       \* bound: the clock
  MaxSid,        \* bound: sessions started
  MaxCalls,      \* bound: calls under way at the same time
  MaxDisturbances \* bound: calls that overlap others, take time or are lost

ASSUME SessionsAssumption ==
  /\ Idle \in Nat \ {0} /\ Absolute \in Nat /\ Idle < Absolute
  /\ {MaxTime, MaxSid, MaxCalls, MaxDisturbances} \subseteq Nat
  /\ Nobody \notin Users /\ Password \notin Users

VARIABLES
  deployment,  \* Password, or the user a proxy vouches for at this browser
  now,         \* the clock
  started,     \* sessions started so far: the sid and the CSRF token of a session are its number
  revoked,     \* the revocation list of the store
  jar,         \* the session cookie of the browser
  tabs,        \* what each tab shows and remembers
  calls,       \* the calls under way
  driven,      \* history: when the last call not marked as background was judged
  signedOut,   \* history: the sessions whose revocation was stored
  disturbed    \* history: how often calls overlapped, took time or were lost

svars == <<deployment, now, started, revoked, jar, tabs, calls, driven, signedOut, disturbed>>

Time == 0..MaxTime
Sids == 1..MaxSid

Session == [sid : Sids, user : Users, issuedAt : Time, lastSeen : Time]

\* An empty jar holds no session.
ASSUME NoTokenAssumption == NoToken \notin Session

\* user and csrf are what the page and its module remember; active is when
\* somebody last touched the tab; expired is the dialog of the idle timer.
Tab == [user : Users \cup {Nobody}, csrf : {0} \cup Sids, active : Time, expired : BOOLEAN]

Fresh == [user |-> Nobody, csrf |-> 0, active |-> now, expired |-> FALSE]

\* A call is getSession on loading or on resuming, login, logout, or one of
\* the others, a read or a mutation.  late and shown are history: whether the
\* session had been revoked when the call arrived, and whom its tab showed
\* when it was sent.
Kinds == {"load", "resume", "login", "logout", "read", "write"}
NoCall == [stage |-> "none"]
NewCall(kind, t, user, background) ==
  [stage |-> "sent", kind |-> kind, tab |-> t, user |-> user, background |-> background,
   cookie |-> IF kind = "login" THEN NoToken ELSE jar, csrf |-> tabs[t].csrf,
   shown |-> IF kind = "write" THEN tabs[t].user ELSE Nobody,
   stamp |-> 0, late |-> FALSE]

Slots == 1..MaxCalls
Free  == {s \in Slots : calls[s] = NoCall}
Busy  == Free # Slots
Calling == {calls[s].tab : s \in Slots \ Free}

disturbIf(condition) ==
  IF condition THEN disturbed < MaxDisturbances /\ disturbed' = disturbed + 1 ELSE UNCHANGED disturbed

Init ==
  /\ deployment \in Users \cup {Password}
  /\ now = 0 /\ started = 0 /\ revoked = {} /\ jar = NoToken
  /\ tabs = [t \in Tabs |-> Fresh]
  /\ calls = [s \in Slots |-> NoCall]
  /\ driven = 0 /\ signedOut = {} /\ disturbed = 0

-----------------------------------------------------------------------------
(* The tabs.                                                               *)

\* Any use of a tab is noticed by its timer, unless the dialog is up.
noticed(t) == [tabs EXCEPT ![t].active = IF tabs[t].expired THEN @ ELSE now]

send(kind, t, user, background) ==
  /\ Free # {}
  /\ calls' = [calls EXCEPT ![Min(Free)] = NewCall(kind, t, user, background)]
  /\ disturbIf(Busy)
  /\ tabs' = IF background THEN tabs ELSE noticed(t)
  /\ UNCHANGED <<deployment, now, started, revoked, jar, driven, signedOut>>

\* The page is opened, and asks who it is.  (Reloading a page that shows
\* somebody is left out: it is as good as opening another one.)
load(t) ==
  /\ tabs[t].user = Nobody /\ t \notin Calling /\ Free # {}
  /\ tabs' = [tabs EXCEPT ![t] = Fresh]
  /\ calls' = [calls EXCEPT ![Min(Free)] = [NewCall("load", t, Nobody, FALSE) EXCEPT !.csrf = 0]]
  /\ disturbIf(Busy)
  /\ UNCHANGED <<deployment, now, started, revoked, jar, driven, signedOut>>

signIn(t, user) ==
  /\ deployment = Password /\ tabs[t].user = Nobody /\ t \notin Calling
  /\ send("login", t, user, FALSE)

Usable(t) == tabs[t].user # Nobody /\ ~tabs[t].expired

read(t)    == Usable(t) /\ send("read", t, Nobody, FALSE)
write(t)   == Usable(t) /\ send("write", t, Nobody, FALSE)
signOut(t) == Usable(t) /\ send("logout", t, Nobody, FALSE)
resumeSession(t) == tabs[t].user # Nobody /\ tabs[t].expired /\ send("resume", t, Nobody, FALSE)

\* The timer of an open editor, dialog or no dialog: its saves are marked as
\* background once nobody has touched the tab for a minute.
autosave(t) ==
  /\ tabs[t].user # Nobody
  /\ send("write", t, Nobody, tabs[t].active < now)

touch(t) ==
  /\ tabs' = noticed(t) /\ tabs' # tabs
  /\ UNCHANGED <<deployment, now, started, revoked, jar, calls, driven, signedOut, disturbed>>

\* The page's own copy of the idle rule.
Due(t) == ~tabs[t].expired /\ now - tabs[t].active >= Idle
idleTimer(t) ==
  /\ Due(t)
  /\ tabs' = [tabs EXCEPT ![t].expired = TRUE]
  /\ UNCHANGED <<deployment, now, started, revoked, jar, calls, driven, signedOut, disturbed>>

-----------------------------------------------------------------------------
(* The server.                                                             *)

\* Answers that set a cookie carry its token; the others keep or clear it.
respond(s, answer, token) ==
  calls' = [calls EXCEPT ![s] = [stage |-> "answered", kind |-> calls[s].kind, tab |-> calls[s].tab,
                                 answer |-> answer, token |-> token]]

startSession(user) == [sid |-> started + 1, user |-> user, issuedAt |-> now, lastSeen |-> now]

\* Fault: a mutation is not asked for the token of its session.
csrfFailure_None(s, session) == FALSE

csrfFailure(s, session) == calls[s].kind = "write" /\ calls[s].csrf # session.sid

\* What a call gets that is known to be of that session.  A handler may still
\* refuse it, or fail, and then no cookie is set.
serve(s, session, stamp) ==
  \/ /\ csrfFailure(s, session)
     /\ respond(s, "refused", NoToken) /\ UNCHANGED driven
  \/ /\ ~csrfFailure(s, session)
     /\ respond(s, "ok", session)
     /\ driven' = IF calls[s].background THEN driven ELSE Max({driven, stamp})
  \/ /\ ~csrfFailure(s, session)
     /\ respond(s, "refused", NoToken) /\ UNCHANGED driven

\* A call without a session.  The proxy may vouch for its sender, and then
\* one is started, except to sign out, unless the store fails; otherwise the
\* cookie is cleared.
resolveSession(s) ==
  \/ /\ deployment # Password /\ calls[s].kind # "logout"
     /\ started < MaxSid
     /\ started' = started + 1
     /\ serve(s, startSession(deployment), now)
  \/ /\ deployment # Password /\ calls[s].kind # "logout"
     /\ respond(s, "refused", NoToken)
     /\ UNCHANGED <<started, driven>>
  \/ /\ deployment = Password \/ calls[s].kind = "logout"
     /\ respond(s, IF calls[s].kind = "logout" THEN "ok" ELSE "ended", NoToken)
     /\ UNCHANGED <<started, driven>>

TooOld(session, stamp) == stamp - session.lastSeen > Idle \/ stamp - session.issuedAt > Absolute

arrives(s) ==
  /\ calls[s].stage = "sent" /\ calls[s].kind # "login"
  /\ IF calls[s].cookie = NoToken \/ TooOld(calls[s].cookie, now)
     THEN resolveSession(s)
     ELSE /\ calls' = [calls EXCEPT ![s] = [@ EXCEPT !.stage = "judged", !.stamp = now,
                                                     !.late = (calls[s].cookie.sid \in signedOut)]]
          /\ UNCHANGED <<started, driven>>
  /\ UNCHANGED <<deployment, now, revoked, jar, tabs, signedOut, disturbed>>

\* Fault: a background call slides the window too.
slid_Always(call) == [call.cookie EXCEPT !.lastSeen = call.stamp]

\* Fault: nothing slides the window.
slid_Never(call) == call.cookie

slid(call) == IF call.background THEN call.cookie ELSE [call.cookie EXCEPT !.lastSeen = call.stamp]

\* Fault: an entry is forgotten as soon as the idle window would have closed.
isRevoked_Idle(sid) == \E entry \in revoked : entry.sid = sid /\ entry.expiresAt - Absolute + Idle > now

isRevoked(sid) == \E entry \in revoked : entry.sid = sid /\ entry.expiresAt > now

\* The list is pruned as it is written.
revokeSession(sid, expiresAt) ==
  revoked' = {entry \in revoked : entry.expiresAt > now} \cup {[sid |-> sid, expiresAt |-> expiresAt]}

\* The list cannot be read, or not written.  A sign-out is answered as if it
\* could: its session goes on for whoever has the cookie.
storeFails(s) ==
  /\ respond(s, IF calls[s].kind = "logout" THEN "ok" ELSE "refused", NoToken)
  /\ UNCHANGED <<started, revoked, signedOut, driven>>

judged(s) ==
  LET session == calls[s].cookie
  IN  /\ calls[s].stage = "judged"
      /\ \/ isRevoked(session.sid) /\ resolveSession(s) /\ UNCHANGED <<revoked, signedOut>>
         \/ /\ ~isRevoked(session.sid)
            /\ IF calls[s].kind = "logout"
               THEN /\ revokeSession(session.sid, session.issuedAt + Absolute)
                    /\ signedOut' = signedOut \cup {session.sid}
                    /\ respond(s, "ok", NoToken)
                    /\ UNCHANGED driven
               ELSE serve(s, slid(calls[s]), calls[s].stamp) /\ UNCHANGED <<revoked, signedOut>>
            /\ UNCHANGED started
         \/ storeFails(s)
      /\ UNCHANGED <<deployment, now, jar, tabs, disturbed>>

\* The password is right, or the answer says only that something was not.
loginArrives(s) ==
  /\ calls[s].stage = "sent" /\ calls[s].kind = "login"
  /\ \/ /\ started < MaxSid
        /\ started' = started + 1 /\ driven' = now
        /\ respond(s, "ok", startSession(calls[s].user))
     \/ respond(s, "refused", NoToken) /\ UNCHANGED <<started, driven>>
  /\ UNCHANGED <<deployment, now, revoked, jar, tabs, signedOut, disturbed>>

-----------------------------------------------------------------------------
(* The answer comes back.                                                  *)

\* Every signed-in answer writes the cookie again; a sign-out, and a call
\* that was told its session has ended, clear it.
cookieAfter(call) ==
  IF call.token # NoToken THEN call.token
  ELSE IF call.kind = "logout" \/ call.answer = "ended" THEN NoToken ELSE jar

endLocalSession(tab) == [tab EXCEPT !.user = Nobody, !.expired = FALSE]

\* The module takes the token of the answer, the page its user; neither
\* signing in nor loading puts the dialog away.
adopt(tab, session) == [tab EXCEPT !.user = session.user, !.csrf = session.sid]

tabAfter(call) ==
  LET tab == tabs[call.tab]
  IN  CASE call.kind = "logout" -> [endLocalSession(tab) EXCEPT !.csrf = 0]
        [] call.kind = "resume" /\ call.answer = "ok" ->
             [adopt(tab, call.token) EXCEPT !.expired = FALSE, !.active = now]
        [] call.kind \in {"load", "login"} /\ call.answer = "ok" -> adopt(tab, call.token)
        [] \/ call.kind = "resume" /\ call.answer # "ok"
           \/ call.kind \in {"read", "write"} /\ call.answer = "ended" ->
             endLocalSession(tab)
        [] OTHER -> tab

\* In the order in which the answers arrive, which is any.
answered(s) ==
  /\ calls[s].stage = "answered"
  /\ jar' = cookieAfter(calls[s])
  /\ tabs' = [tabs EXCEPT ![calls[s].tab] = tabAfter(calls[s])]
  /\ calls' = [calls EXCEPT ![s] = NoCall]
  /\ UNCHANGED <<deployment, now, started, revoked, driven, signedOut, disturbed>>

\* The call or its answer is lost; a page that signs out does so anyway.
Lose(s) ==
  /\ calls[s].stage \in {"sent", "answered"}
  /\ tabs' = IF calls[s].kind = "logout" THEN [tabs EXCEPT ![calls[s].tab] = tabAfter(calls[s])] ELSE tabs
  /\ calls' = [calls EXCEPT ![s] = NoCall]
  /\ disturbIf(TRUE)
  /\ UNCHANGED <<deployment, now, started, revoked, jar, driven, signedOut>>

\* The timers of the tabs run every minute, and so before the clock moves on.
Tick ==
  /\ now < MaxTime /\ \A t \in Tabs : ~Due(t)
  /\ now' = now + 1
  /\ disturbIf(Busy)
  /\ UNCHANGED <<deployment, started, revoked, jar, tabs, calls, driven, signedOut>>

Next ==
  \/ \E t \in Tabs : \/ load(t) \/ read(t) \/ write(t) \/ signOut(t) \/ resumeSession(t)
                     \/ autosave(t) \/ touch(t) \/ idleTimer(t)
                     \/ \E u \in Users : signIn(t, u)
  \/ \E s \in Slots : arrives(s) \/ judged(s) \/ loginArrives(s) \/ answered(s) \/ Lose(s)
  \/ Tick

Spec == Init /\ [][Next]_svars

-----------------------------------------------------------------------------
(* Properties.                                                             *)

Cookies == {jar} \cup {IF calls[s].stage = "answered" THEN calls[s].token ELSE calls[s].cookie : s \in Slots \ Free}

\* Every variable stays in its type, no cookie is from a session that was
\* never started, and no list of revocations outlives the sessions on it.
SessionsTypeOK ==
  /\ now \in Time /\ started \in 0..MaxSid /\ driven \in Time /\ disturbed \in 0..MaxDisturbances
  /\ \A t \in Tabs : tabs[t] \in Tab
  /\ \A cookie \in Cookies \ {NoToken} :
       cookie \in Session /\ cookie.sid <= started /\ cookie.issuedAt <= cookie.lastSeen
  /\ \A entry \in revoked : entry.sid \in signedOut /\ entry.expiresAt \in 0..MaxTime + Absolute

\* This step answers the call, and this one serves it: it acts for the person
\* of the session whose token the answer carries.
Answers(s) == calls[s].stage \in {"sent", "judged"} /\ calls'[s].stage = "answered"
Serves(s)  == Answers(s) /\ calls'[s].token # NoToken

\* logout/route.ts: "replaying the old cookie afterwards fails the revocation
\* check rather than resuming the session".  Once the revocation is stored,
\* answers that arrive late put the cookie back in the jar, and none of the
\* calls made with it is served.  The exception is the end of a session's life: its revocation
\* lapses at the very instant at which its age is not yet over the limit, and
\* the list is consulted after the age.
RevokedStaysOut ==
  [][\A s \in Slots : Answers(s) /\ calls[s].late =>
       \/ calls'[s].token = NoToken
       \/ calls'[s].token.sid # calls[s].cookie.sid
       \/ now >= calls[s].cookie.issuedAt + Absolute]_svars

\* However the sign-ins of two tabs interleave, and in whatever order the
\* answers come back, what somebody does in a tab is done as the person that
\* tab showed them: the cookie is the browser's, the CSRF token the tab's.
ActsAsShown ==
  [][\A s \in Slots : Serves(s) /\ calls[s].kind = "write"
                     => calls[s].shown = calls'[s].token.user]_svars

\* session.ts: the idle rule "protects an unattended browser".  An hour after
\* anybody signed in or touched a tab, nothing the application does on its own is served
\* any more, unless calls were delayed.
UnattendedBrowserEnds ==
  [][\A s \in Slots :
       Serves(s) /\ calls[s].background /\ disturbed = 0 =>
         now - Max({calls'[s].token.issuedAt} \cup {tabs[t].active : t \in Tabs}) <= Idle]_svars

\* Nobody is thrown out while they work: a call made with the session the tab
\* knows is turned away only if no user-driven call was served for an hour,
\* or the session is twelve hours old, unless calls overlapped or were lost.
ActiveUserStaysIn ==
  [][\A s \in Slots :
       /\ Answers(s) /\ disturbed = 0
       /\ calls[s].cookie # NoToken /\ calls[s].cookie.sid = calls[s].csrf
       /\ calls'[s].answer = "ended" \/ csrfFailure(s, calls[s].cookie)
       => now - driven > Idle \/ now - calls[s].cookie.issuedAt > Absolute]_svars

\* logout/route.ts: "the sid is revoked server-side as well".  A sign-out that
\* is answered has ended the session its cookie was of.
SignOutRevokes ==
  [][\A s \in Slots :
       /\ calls[s].stage = "judged" /\ calls[s].kind = "logout"
       /\ calls'[s].stage = "answered"
       => calls[s].cookie.sid \in signedOut']_svars

\* api.ts, resolveSession: behind SSO "the first such request mints a session
\* so the rest of the machinery - CSRF tokens, the idle window - works
\* identically either way".  With one tab and nothing lost, no call of the
\* page is taken for a forged one.
NothingLooksForged ==
  [][\A s \in Slots :
       Answers(s) /\ disturbed = 0 /\ deployment # Password /\ started' > started
       => ~csrfFailure(s, startSession(deployment))]_svars
=============================================================================
