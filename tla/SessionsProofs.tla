--------------------------- MODULE SessionsProofs ---------------------------
(***************************************************************************)
(* What is proved of Sessions: for any number of tabs, people, sessions    *)
(* and calls under way, a signed-out session stays out, a mutation is done *)
(* as the person its tab showed, and, as long as calls neither overlap nor *)
(* are lost or delayed, an unattended browser ends and a user who works is *)
(* not thrown out.                                                         *)
(***************************************************************************)
EXTENDS Sessions, WellFoundedInduction, TLAPS

(***************************************************************************)
(* The invariant.  Whoever holds a trace of a session, a cookie in the jar *)
(* or in a call, the page of a tab, a call that is under way, agrees on    *)
(* whose session it is and when it began.  No variable says so, and the    *)
(* invariant says that some book of the sessions does.                     *)
(***************************************************************************)

\* The book b says this of the cookie's session, and the cookie was last
\* slid no later than n.
CookieFits(c, b, n) ==
  /\ c \in Session /\ c.sid \in DOMAIN b
  /\ c.user = b[c.sid].user /\ c.issuedAt = b[c.sid].issuedAt
  /\ c.issuedAt <= c.lastSeen /\ c.lastSeen <= n

JarFits(c, b, n) == c = NoToken \/ CookieFits(c, b, n)

\* A tab shows the person of the session whose token it remembers.
TabFits(tab, b, n) ==
  /\ tab \in Tab /\ tab.csrf \in {0} \cup DOMAIN b /\ tab.active <= n
  /\ tab.user # Nobody => tab.csrf \in DOMAIN b /\ tab.user = b[tab.csrf].user

\* A call on its way to the server carries a cookie, and if it is a mutation,
\* the token of the session of the person its tab showed.
QuestionFits(c, b, n, out) ==
  /\ c.stage \in {"sent", "judged"} /\ c.kind \in Kinds /\ c.tab \in Tabs
  /\ c = [stage |-> c.stage, kind |-> c.kind, tab |-> c.tab, user |-> c.user, background |-> c.background,
          cookie |-> c.cookie, csrf |-> c.csrf, shown |-> c.shown, stamp |-> c.stamp, late |-> c.late]
  /\ c.kind = "login" => c.user \in Users /\ c.stage = "sent"
  /\ c.background \in BOOLEAN /\ c.late \in BOOLEAN
  /\ JarFits(c.cookie, b, n)
  /\ c.csrf \in {0} \cup DOMAIN b
  /\ c.kind = "write" => c.csrf \in DOMAIN b /\ c.shown = b[c.csrf].user
  /\ c.late => c.stage = "judged"
  /\ c.stage = "judged" =>
       /\ CookieFits(c.cookie, b, n) /\ c.stamp \in Time
       /\ c.cookie.lastSeen <= c.stamp /\ c.stamp <= n
       /\ ~TooOld(c.cookie, c.stamp)
       /\ c.late => c.cookie.sid \in out

AnswerFits(c, b, n) ==
  /\ c.stage = "answered" /\ c.kind \in Kinds /\ c.tab \in Tabs
  /\ c = [stage |-> c.stage, kind |-> c.kind, tab |-> c.tab, answer |-> c.answer, token |-> c.token]
  /\ JarFits(c.token, b, n)
  /\ c.kind = "logout" \/ c.answer # "ok" => c.token = NoToken
  /\ c.kind # "logout" /\ c.answer = "ok" => CookieFits(c.token, b, n)

CallFits(c, b, n, out) == c = NoCall \/ QuestionFits(c, b, n, out) \/ AnswerFits(c, b, n)

\* A session that was signed out is on the list until it is twelve hours old.
ListFits(list, out, b, n) ==
  /\ out \subseteq DOMAIN b
  /\ \A entry \in list : entry.sid \in out /\ entry.expiresAt = b[entry.sid].issuedAt + Absolute
  /\ \A sid \in out : n >= b[sid].issuedAt + Absolute \/ \E entry \in list : entry.sid = sid

BookOf(n) == [1..n -> [user : Users, issuedAt : Time]]

Booked(b) ==
  /\ b \in BookOf(started)
  /\ JarFits(jar, b, now)
  /\ \A t \in Tabs : TabFits(tabs[t], b, now)
  /\ \A s \in Slots : CallFits(calls[s], b, now, signedOut)
  /\ ListFits(revoked, signedOut, b, now)

Counted ==
  /\ deployment \in Users \cup {Password}
  /\ now \in Time /\ started \in 0..MaxSid /\ driven \in 0..now /\ disturbed \in 0..MaxDisturbances
  /\ tabs = [t \in Tabs |-> tabs[t]] /\ calls = [s \in Slots |-> calls[s]]

SessionsInv == Counted /\ \E b : Booked(b)

\* The cookie was slid by somebody at a tab, or never.
Recent(c, shownBy) == c.lastSeen <= c.issuedAt \/ \E t \in Tabs : c.lastSeen <= shownBy[t].active

\* Nothing that somebody did was served later than the cookie says.
Current(c, lastDriven, out) == lastDriven <= c.lastSeen /\ c.sid \notin out

\* While calls neither overlap nor are lost or delayed, the cookie of the jar
\* is the browser's latest; only an answer on its way may bring a later one.
CallIsQuiet(c, shownBy, n, lastDriven, out) ==
  /\ c.stage \in {"sent", "judged"} =>
       /\ c.cookie = NoToken \/ (Recent(c.cookie, shownBy) /\ Current(c.cookie, lastDriven, out))
       /\ c.kind \notin {"login", "resume"} /\ ~c.background => shownBy[c.tab].active >= n
       /\ c.stage = "judged" => c.stamp = n
  /\ c.stage = "answered" /\ c.token # NoToken =>
       /\ Current(c.token, lastDriven, out)
       /\ Recent(c.token, shownBy) \/ c.kind = "resume"

Replaces(c) == c.stage = "answered" /\ (c.token # NoToken \/ c.kind = "logout")

JarIsQuiet(c, shownBy, lastDriven, out) ==
  c = NoToken \/ (Recent(c, shownBy) /\ Current(c, lastDriven, out))

OneCall(sent) == \A s, r \in Slots : sent[s] # NoCall /\ sent[r] # NoCall => s = r

Quiet ==
  /\ OneCall(calls)
  /\ \A s \in Slots : CallIsQuiet(calls[s], tabs, now, driven, signedOut)
  /\ JarIsQuiet(jar, tabs, driven, signedOut) \/ \E s \in Slots : Replaces(calls[s])

QuietInv == disturbed = 0 => Quiet

-----------------------------------------------------------------------------
(* Facts about the parts.                                                  *)

\* The constants are numbers as far as they are used as numbers.
LEMMA LimitTypes ==
  /\ Idle \in Nat /\ Absolute \in Nat /\ MaxTime \in Nat /\ MaxSid \in Nat
  /\ MaxCalls \in Nat /\ MaxDisturbances \in Nat
  /\ Time \subseteq Nat /\ Sids \subseteq Nat /\ 0 \in Time
BY SessionsAssumption DEF SessionsAssumption, Time, Sids

\* The book of a later state says the same of the sessions it knew.
Grown(b, d) == DOMAIN b \subseteq DOMAIN d /\ \A k \in DOMAIN b : d[k] = b[k]

\* A cookie that fits the book fits a longer one at a later time,
LEMMA CookieKept ==
  ASSUME NEW c, NEW b, NEW d, NEW n \in Nat, NEW m \in Nat,
         CookieFits(c, b, n), Grown(b, d), n <= m
  PROVE  CookieFits(c, d, m)
<1>1. c.lastSeen \in Nat
  BY LimitTypes DEF CookieFits, Session
<1>. QED
  BY <1>1 DEF CookieFits, Grown

\* so does a jar,
LEMMA JarKept ==
  ASSUME NEW c, NEW b, NEW d, NEW n \in Nat, NEW m \in Nat,
         JarFits(c, b, n), Grown(b, d), n <= m
  PROVE  JarFits(c, d, m)
BY CookieKept DEF JarFits

\* and so does a tab.
LEMMA TabKept ==
  ASSUME NEW tab, NEW b, NEW d, NEW n \in Nat, NEW m \in Nat,
         TabFits(tab, b, n), Grown(b, d), n <= m
  PROVE  TabFits(tab, d, m)
<1>1. tab.active \in Nat
  BY LimitTypes DEF TabFits, Tab
<1>2. tab.active <= m
  BY <1>1 DEF TabFits
<1>. QED
  BY <1>2 DEF TabFits, Grown

\* A call that fits goes on fitting as sessions are started and signed out
\* and time goes by.
LEMMA CallKept ==
  ASSUME NEW c, NEW b, NEW d, NEW n \in Nat, NEW m \in Nat, NEW out, NEW more,
         CallFits(c, b, n, out), Grown(b, d), n <= m, out \subseteq more
  PROVE  CallFits(c, d, m, more)
<1>1. CASE c = NoCall
  BY <1>1 DEF CallFits
<1>2. CASE QuestionFits(c, b, n, out)
  <2>1. JarFits(c.cookie, d, m)
    BY <1>2, JarKept DEF QuestionFits
  <2>2. c.csrf \in {0} \cup DOMAIN d
    BY <1>2 DEF QuestionFits, Grown
  <2>3. c.kind = "write" => c.csrf \in DOMAIN d /\ c.shown = d[c.csrf].user
    BY <1>2 DEF QuestionFits, Grown
  <2>4. ASSUME c.stage = "judged"
        PROVE  /\ CookieFits(c.cookie, d, m) /\ c.stamp \in Time
               /\ c.cookie.lastSeen <= c.stamp /\ c.stamp <= m
               /\ ~TooOld(c.cookie, c.stamp)
               /\ c.late => c.cookie.sid \in more
    <3>1. /\ CookieFits(c.cookie, b, n) /\ c.stamp \in Time
          /\ c.cookie.lastSeen <= c.stamp /\ c.stamp <= n
          /\ ~TooOld(c.cookie, c.stamp)
          /\ c.late => c.cookie.sid \in out
      BY <1>2, <2>4 DEF QuestionFits
    <3>a. c.stamp \in Nat /\ c.stamp <= n
      BY <3>1, LimitTypes
    <3>2. c.stamp <= m
      BY <3>a
    <3>. QED
      BY <3>1, <3>2, CookieKept
  <2>5. QuestionFits(c, d, m, more)
    BY <1>2, <2>1, <2>2, <2>3, <2>4, Zenon DEF QuestionFits
  <2>. QED
    BY <2>5 DEF CallFits
<1>3. CASE AnswerFits(c, b, n)
  <2>1. JarFits(c.token, d, m)
    BY <1>3, JarKept DEF AnswerFits
  <2>2. c.kind # "logout" /\ c.answer = "ok" => CookieFits(c.token, d, m)
    BY <1>3, CookieKept DEF AnswerFits
  <2>3. AnswerFits(c, d, m)
    BY <1>3, <2>1, <2>2, Zenon DEF AnswerFits
  <2>. QED
    BY <2>3 DEF CallFits
<1>. QED
  BY <1>1, <1>2, <1>3 DEF CallFits

\* Nothing but the end of a session takes it off the list.
LEMMA ListKept ==
  ASSUME NEW list, NEW out, NEW b, NEW d, NEW n \in Nat, NEW m \in Nat, NEW k,
         b \in BookOf(k), ListFits(list, out, b, n), Grown(b, d), n <= m
  PROVE  ListFits(list, out, d, m)
<1>1. \A sid \in out : b[sid].issuedAt \in Nat /\ sid \in DOMAIN b /\ d[sid] = b[sid]
  BY LimitTypes DEF BookOf, ListFits, Grown
<1>2. \A sid \in out : n >= b[sid].issuedAt + Absolute => m >= d[sid].issuedAt + Absolute
  BY <1>1, LimitTypes
<1>3. out \subseteq DOMAIN d
  BY DEF ListFits, Grown
<1>. QED
  BY <1>1, <1>2, <1>3 DEF ListFits

\* A book has grown from itself.
LEMMA GrownSelf == ASSUME NEW b PROVE Grown(b, b)
BY DEF Grown

\* Writing one place of a function leaves the others.
LEMMA OneWritten ==
  ASSUME NEW S, NEW f, f = [s \in S |-> f[s]], NEW m, NEW c, NEW g, g = [f EXCEPT ![m] = c]
  PROVE  g = [s \in S |-> g[s]] /\ \A s \in S : g[s] = IF s = m THEN c ELSE f[s]
<1>1. DOMAIN f = S
  OBVIOUS
<1>. QED
  BY <1>1

\* Writing a field of a tab leaves it one.
LEMMA TabWritten ==
  ASSUME NEW Who, NEW Tokens, NEW Times,
         NEW tab \in [user : Who, csrf : Tokens, active : Times, expired : BOOLEAN],
         NEW u \in Who, NEW k \in Tokens, NEW n \in Times, NEW e \in BOOLEAN
  PROVE  /\ [tab EXCEPT !.active = n] \in [user : Who, csrf : Tokens, active : Times, expired : BOOLEAN]
         /\ [tab EXCEPT !.expired = e] \in [user : Who, csrf : Tokens, active : Times, expired : BOOLEAN]
         /\ [tab EXCEPT !.user = u, !.csrf = k] \in [user : Who, csrf : Tokens, active : Times, expired : BOOLEAN]
         /\ [tab EXCEPT !.user = u, !.expired = e] \in [user : Who, csrf : Tokens, active : Times, expired : BOOLEAN]
         /\ [tab EXCEPT !.csrf = k] \in [user : Who, csrf : Tokens, active : Times, expired : BOOLEAN]
         /\ [tab EXCEPT !.expired = e, !.active = n] \in [user : Who, csrf : Tokens, active : Times, expired : BOOLEAN]
OBVIOUS

-----------------------------------------------------------------------------
(* The tabs.                                                               *)

\* A step of the tabs and of the calls' way, the server being left alone.
LEMMA SameSessions ==
  ASSUME Counted, NEW b, Booked(b),
         UNCHANGED <<deployment, now, started, revoked, driven, signedOut>>,
         JarFits(jar', b, now), disturbed' \in 0..MaxDisturbances,
         tabs' = [t \in Tabs |-> tabs'[t]], \A t \in Tabs : TabFits(tabs'[t], b, now),
         calls' = [s \in Slots |-> calls'[s]], \A s \in Slots : CallFits(calls'[s], b, now, signedOut)
  PROVE  Counted' /\ Booked(b)'
<1>1. Counted'
  BY DEF Counted, Slots
<1>2. Booked(b)'
  BY DEF Booked, Slots
<1>. QED
  BY <1>1, <1>2

\* A call that overlaps others is counted.
LEMMA Undisturbed ==
  ASSUME Counted, NEW condition \in BOOLEAN, disturbIf(condition)
  PROVE  /\ disturbed' \in 0..MaxDisturbances
         /\ disturbed' = 0 => ~condition /\ disturbed = 0
<1>1. disturbed \in Nat /\ MaxDisturbances \in Nat /\ disturbed <= MaxDisturbances
  BY LimitTypes DEF Counted
<1>2. CASE condition
  <2>1. disturbed < MaxDisturbances /\ disturbed' = disturbed + 1
    BY <1>2 DEF disturbIf
  <2>. QED
    BY <1>1, <1>2, <2>1
<1>3. CASE ~condition
  <2>1. disturbed' = disturbed
    BY <1>3 DEF disturbIf
  <2>. QED
    BY <1>1, <1>3, <2>1
<1>. QED
  BY <1>2, <1>3

\* Nobody touches a tab before it was touched last.
Risen(after, before) == \A t \in Tabs : before[t].active <= after[t].active

\* A cookie that was recent is so still when activity only moved forward,
LEMMA RecentStays ==
  ASSUME NEW after, NEW before, NEW b, NEW n, Risen(after, before),
         \A t \in Tabs : TabFits(before[t], b, n) /\ TabFits(after[t], b, n),
         NEW c \in Session, Recent(c, before)
  PROVE  Recent(c, after)
<1>1. \A t \in Tabs : before[t].active \in Nat /\ after[t].active \in Nat
  BY LimitTypes DEF TabFits, Tab
<1>2. c.lastSeen \in Nat
  BY LimitTypes DEF Session
<1>. QED
  BY <1>1, <1>2 DEF Recent, Risen

\* and a jar that bears out what the browser did bears it out still.
LEMMA JarStaysQuiet ==
  ASSUME NEW after, NEW before, NEW b, NEW n, Risen(after, before),
         \A t \in Tabs : TabFits(before[t], b, n) /\ TabFits(after[t], b, n),
         NEW c, JarFits(c, b, n), NEW last, NEW out, JarIsQuiet(c, before, last, out)
  PROVE  JarIsQuiet(c, after, last, out)
BY RecentStays DEF JarIsQuiet, JarFits, CookieFits

\* Using a tab.
LEMMA Noticed ==
  ASSUME Counted, NEW b, Booked(b), NEW t \in Tabs
  PROVE  /\ noticed(t) = [r \in Tabs |-> noticed(t)[r]]
         /\ \A r \in Tabs : TabFits(noticed(t)[r], b, now)
         /\ Risen(noticed(t), tabs)
         /\ ~tabs[t].expired => noticed(t)[t].active >= now
<1>1. tabs[t] \in Tab /\ now \in Time /\ tabs[t].active <= now /\ tabs[t].active \in Nat /\ now \in Nat
  BY LimitTypes DEF Counted, Booked, TabFits, Tab
<1>. DEFINE active == IF tabs[t].expired THEN tabs[t].active ELSE now
            tab == [tabs[t] EXCEPT !.active = active]
<1>2. noticed(t) = [tabs EXCEPT ![t] = tab]
  BY DEF noticed
<1>3. active \in Time /\ active <= now /\ tabs[t].active <= active
  BY <1>1, LimitTypes DEF Tab
<1>4. tab \in Tab
  BY <1>1, <1>3, TabWritten, LimitTypes DEF Tab
<1>5. tab.active = active /\ tab.user = tabs[t].user /\ tab.csrf = tabs[t].csrf
  BY <1>1, Zenon DEF Tab
<1>6. TabFits(tab, b, now)
  BY <1>3, <1>4, <1>5 DEF TabFits, Booked
<1>. HIDE DEF tab
<1>7. /\ noticed(t) = [r \in Tabs |-> noticed(t)[r]]
      /\ \A r \in Tabs : noticed(t)[r] = IF r = t THEN tab ELSE tabs[r]
  BY <1>2, OneWritten DEF Counted
<1>8. \A r \in Tabs : tabs[r].active \in Nat
  BY LimitTypes DEF Booked, TabFits, Tab
<1>9. Risen(noticed(t), tabs)
  BY <1>3, <1>5, <1>7, <1>8 DEF Risen
<1>10. \A r \in Tabs : TabFits(noticed(t)[r], b, now)
  BY <1>6, <1>7 DEF Booked
<1>11. ~tabs[t].expired => noticed(t)[t].active >= now
  BY <1>1, <1>5, <1>7
<1>. QED
  BY <1>7, <1>9, <1>10, <1>11

\* A question in which one entry is written is still one.
LEMMA QuestionWritten ==
  ASSUME NEW c, NEW k,
         c = [stage |-> c.stage, kind |-> c.kind, tab |-> c.tab, user |-> c.user, background |-> c.background,
              cookie |-> c.cookie, csrf |-> c.csrf, shown |-> c.shown, stamp |-> c.stamp, late |-> c.late]
  PROVE  [c EXCEPT !.csrf = k]
           \in [stage : {c.stage}, kind : {c.kind}, tab : {c.tab}, user : {c.user}, background : {c.background},
                cookie : {c.cookie}, csrf : {k}, shown : {c.shown}, stamp : {c.stamp}, late : {c.late}]
OBVIOUS

\* What a tab sends.
LEMMA NewCallFits ==
  ASSUME Counted, NEW b, Booked(b), NEW t \in Tabs, NEW kind \in Kinds, NEW user \in Users \cup {Nobody},
         NEW background \in BOOLEAN,
         kind = "login" => user \in Users, kind = "write" => tabs[t].user # Nobody
  PROVE  /\ QuestionFits(NewCall(kind, t, user, background), b, now, signedOut)
         /\ kind = "load" =>
              QuestionFits([NewCall(kind, t, user, background) EXCEPT !.csrf = 0], b, now, signedOut)
<1>. DEFINE c == NewCall(kind, t, user, background)
<1>1. /\ c.stage = "sent" /\ c.kind = kind /\ c.tab = t /\ c.user = user /\ c.background = background
      /\ c.cookie = (IF kind = "login" THEN NoToken ELSE jar) /\ c.csrf = tabs[t].csrf
      /\ c.shown = (IF kind = "write" THEN tabs[t].user ELSE Nobody) /\ c.stamp = 0 /\ c.late = FALSE
  BY DEF NewCall
<1>2. c = [stage |-> c.stage, kind |-> c.kind, tab |-> c.tab, user |-> c.user, background |-> c.background,
           cookie |-> c.cookie, csrf |-> c.csrf, shown |-> c.shown, stamp |-> c.stamp, late |-> c.late]
  BY DEF NewCall
<1>3. JarFits(c.cookie, b, now)
  BY <1>1 DEF Booked, JarFits
<1>4. /\ c.csrf \in {0} \cup DOMAIN b
      /\ kind = "write" => c.csrf \in DOMAIN b /\ c.shown = b[c.csrf].user
  BY <1>1 DEF Booked, TabFits
<1>5. c.stage # "judged"
  BY <1>1
<1>6. QuestionFits(c, b, now, signedOut)
  BY <1>1, <1>2, <1>3, <1>4, <1>5 DEF QuestionFits
<1>7. ASSUME kind = "load"
      PROVE  QuestionFits([c EXCEPT !.csrf = 0], b, now, signedOut)
  <2>. DEFINE d == [c EXCEPT !.csrf = 0]
  <2>. HIDE DEF c
  <2>a. d \in [stage : {c.stage}, kind : {c.kind}, tab : {c.tab}, user : {c.user}, background : {c.background},
                cookie : {c.cookie}, csrf : {0}, shown : {c.shown}, stamp : {c.stamp}, late : {c.late}]
    BY <1>2, QuestionWritten
  <2>. HIDE DEF d
  <2>1. /\ d.stage = "sent" /\ d.kind = kind /\ d.tab = t /\ d.user = user /\ d.background = background
        /\ d.cookie = c.cookie /\ d.csrf = 0 /\ d.shown = c.shown /\ d.stamp = 0 /\ d.late = FALSE
    BY <1>1, <2>a
  <2>2. d = [stage |-> d.stage, kind |-> d.kind, tab |-> d.tab, user |-> d.user, background |-> d.background,
             cookie |-> d.cookie, csrf |-> d.csrf, shown |-> d.shown, stamp |-> d.stamp, late |-> d.late]
    BY <2>a
  <2>3. d.stage # "judged" /\ d.kind # "write" /\ d.kind # "login"
    BY <1>7, <2>1
  <2>4. QuestionFits(d, b, now, signedOut)
    BY <1>3, <2>1, <2>2, <2>3 DEF QuestionFits
  <2>. QED
    BY <2>4 DEF d, c
<1>. QED
  BY <1>6, <1>7

Sound(b) == Counted /\ Booked(b) /\ QuietInv

\* Nothing is under way when calls neither overlap nor take time.
LEMMA Alone ==
  ASSUME ~Busy, NEW s \in Slots
  PROVE  calls[s] = NoCall
BY DEF Busy, Free

\* A slot without a call replaces no cookie.
LEMMA NoCallIsQuiet == ~Replaces(NoCall) /\ NoCall.stage = "none"
BY DEF Replaces, NoCall

\* A call is sent.
LEMMA SendingKeeps ==
  ASSUME NEW b, Sound(b), NEW t \in Tabs, NEW c, QuestionFits(c, b, now, signedOut),
         c.stage = "sent", c.tab = t, c.cookie \in {jar, NoToken},
         calls' = [calls EXCEPT ![Min(Free)] = c], disturbIf(Busy),
         UNCHANGED <<deployment, now, started, revoked, jar, driven, signedOut>>,
         tabs' = [r \in Tabs |-> tabs'[r]], \A r \in Tabs : TabFits(tabs'[r], b, now), Risen(tabs', tabs),
         c.kind \notin {"login", "resume"} /\ ~c.background => tabs'[t].active >= now
  PROVE  Sound(b)'
<1>. DEFINE m == Min(Free)
<1>1. calls' = [calls EXCEPT ![m] = c]
  OBVIOUS
<1>. HIDE DEF m
<1>2. /\ calls' = [s \in Slots |-> calls'[s]]
      /\ \A s \in Slots : calls'[s] = IF s = m THEN c ELSE calls[s]
  BY <1>1, OneWritten DEF Sound, Counted
<1>3. \A s \in Slots : CallFits(calls'[s], b, now, signedOut)
  BY <1>2 DEF Sound, Booked, CallFits
<1>4. Busy \in BOOLEAN
  BY DEF Busy
<1>5. /\ disturbed' \in 0..MaxDisturbances
      /\ disturbed' = 0 => ~Busy /\ disturbed = 0
  BY <1>4, Undisturbed DEF Sound
<1>6. JarFits(jar', b, now)
  BY DEF Sound, Booked
<1>7. Counted' /\ Booked(b)'
  BY <1>2, <1>3, <1>5, <1>6, SameSessions DEF Sound
<1>8. ASSUME disturbed' = 0
      PROVE  Quiet'
  <2>1. Quiet /\ \A s \in Slots : calls[s] = NoCall
    BY <1>5, <1>8, Alone DEF Sound, QuietInv
  <2>2. JarIsQuiet(jar, tabs, driven, signedOut)
    BY <2>1, NoCallIsQuiet DEF Quiet
  <2>3. JarIsQuiet(jar, tabs', driven, signedOut)
    BY <2>2, JarStaysQuiet DEF Sound, Booked
  <2>4. \A s \in Slots : calls'[s] = IF s = m THEN c ELSE NoCall
    BY <1>2, <2>1
  <2>5. CallIsQuiet(c, tabs', now, driven, signedOut)
    BY <2>3 DEF CallIsQuiet, JarIsQuiet
  <2>6. CallIsQuiet(NoCall, tabs', now, driven, signedOut)
    BY NoCallIsQuiet DEF CallIsQuiet
  <2>7. OneCall(calls')
    BY <2>4 DEF OneCall
  <2>8. \A s \in Slots : CallIsQuiet(calls'[s], tabs', now, driven, signedOut)
    BY <2>4, <2>5, <2>6
  <2>. QED
    BY <2>3, <2>7, <2>8 DEF Quiet, Slots
<1>. QED
  BY <1>7, <1>8 DEF Sound, QuietInv

\* Sending a call keeps the invariant, with the same book.
LEMMA SendKeeps ==
  ASSUME NEW b, Sound(b), NEW t \in Tabs, NEW kind \in Kinds, NEW user \in Users \cup {Nobody},
         NEW background \in BOOLEAN,
         kind = "login" => user \in Users, kind = "write" => tabs[t].user # Nobody,
         kind \notin {"login", "resume"} /\ ~background => tabs[t].active >= now \/ ~tabs[t].expired,
         send(kind, t, user, background)
  PROVE  Sound(b)'
<1>. DEFINE c == NewCall(kind, t, user, background)
<1>1. QuestionFits(c, b, now, signedOut)
  BY NewCallFits DEF Sound
<1>2. /\ c.stage = "sent" /\ c.tab = t /\ c.cookie \in {jar, NoToken}
      /\ c.kind = kind /\ c.background = background
  BY DEF NewCall
<1>. HIDE DEF c
<1>3. /\ calls' = [calls EXCEPT ![Min(Free)] = c] /\ disturbIf(Busy)
      /\ UNCHANGED <<deployment, now, started, revoked, jar, driven, signedOut>>
      /\ tabs' = IF background THEN tabs ELSE noticed(t)
  BY DEF send, c
<1>4. /\ noticed(t) = [r \in Tabs |-> noticed(t)[r]]
      /\ \A r \in Tabs : TabFits(noticed(t)[r], b, now)
      /\ Risen(noticed(t), tabs)
      /\ ~tabs[t].expired => noticed(t)[t].active >= now
  BY Noticed DEF Sound
<1>5. /\ tabs = [r \in Tabs |-> tabs[r]]
      /\ \A r \in Tabs : TabFits(tabs[r], b, now)
      /\ \A r \in Tabs : tabs[r].active \in Nat
      /\ now \in Nat
  BY LimitTypes DEF Sound, Counted, Booked, TabFits, Tab
<1>6. Risen(tabs, tabs)
  BY <1>5 DEF Risen
<1>7. \A r \in Tabs : noticed(t)[r].active \in Nat
  BY <1>4, LimitTypes DEF TabFits, Tab
<1>8. c.kind \notin {"login", "resume"} /\ ~c.background => tabs'[t].active >= now
  <2>. SUFFICES ASSUME kind \notin {"login", "resume"}, ~background
                PROVE  noticed(t)[t].active >= now
    BY <1>2, <1>3
  <2>1. CASE ~tabs[t].expired
    BY <1>4, <2>1
  <2>2. CASE tabs[t].active >= now
    <3>1. tabs[t].active <= noticed(t)[t].active
      BY <1>4 DEF Risen
    <3>. QED
      BY <1>5, <1>7, <2>2, <3>1
  <2>. QED
    BY <2>1, <2>2
<1>9. /\ tabs' = [r \in Tabs |-> tabs'[r]]
      /\ \A r \in Tabs : TabFits(tabs'[r], b, now)
      /\ Risen(tabs', tabs)
  <2>1. CASE background
    BY <1>3, <1>5, <1>6, <2>1
  <2>2. CASE ~background
    BY <1>3, <1>4, <2>2
  <2>. QED
    BY <2>1, <2>2
<1>. QED
  BY <1>1, <1>2, <1>3, <1>8, <1>9, SendingKeeps

\* The page is opened.
LEMMA LoadKeeps ==
  ASSUME NEW b, Sound(b), NEW t \in Tabs, load(t)
  PROVE  Sound(b)'
<1>. DEFINE c == [NewCall("load", t, Nobody, FALSE) EXCEPT !.csrf = 0]
<1>1. QuestionFits(c, b, now, signedOut)
  BY NewCallFits DEF Sound, Kinds
<1>2. c.stage = "sent" /\ c.tab = t /\ c.cookie \in {jar, NoToken}
  BY DEF NewCall
<1>. HIDE DEF c
<1>3. /\ calls' = [calls EXCEPT ![Min(Free)] = c] /\ disturbIf(Busy)
      /\ UNCHANGED <<deployment, now, started, revoked, jar, driven, signedOut>>
      /\ tabs' = [tabs EXCEPT ![t] = Fresh]
  BY DEF load, c
<1>4. /\ tabs' = [r \in Tabs |-> tabs'[r]]
      /\ \A r \in Tabs : tabs'[r] = IF r = t THEN Fresh ELSE tabs[r]
  BY <1>3, OneWritten DEF Sound, Counted
<1>5. now \in Time /\ now \in Nat
  BY LimitTypes DEF Sound, Counted
<1>6. Fresh.user = Nobody /\ Fresh.csrf = 0 /\ Fresh.active = now /\ Fresh \in Tab
  BY <1>5 DEF Fresh, Tab
<1>7. TabFits(Fresh, b, now)
  BY <1>5, <1>6 DEF TabFits
<1>8. \A r \in Tabs : tabs[r].active \in Nat /\ tabs[r].active <= now
  BY LimitTypes DEF Sound, Booked, TabFits, Tab
<1>9. Risen(tabs', tabs) /\ tabs'[t].active >= now
  BY <1>4, <1>5, <1>6, <1>8 DEF Risen
<1>10. \A r \in Tabs : TabFits(tabs'[r], b, now)
  BY <1>4, <1>7 DEF Sound, Booked
<1>. QED
  BY <1>1, <1>2, <1>3, <1>4, <1>9, <1>10, SendingKeeps

\* Only the tabs change.
LEMMA TabsKeep ==
  ASSUME NEW b, Sound(b),
         UNCHANGED <<deployment, now, started, revoked, jar, calls, driven, signedOut, disturbed>>,
         tabs' = [r \in Tabs |-> tabs'[r]], \A r \in Tabs : TabFits(tabs'[r], b, now), Risen(tabs', tabs)
  PROVE  Sound(b)'
<1>1. Counted' /\ Booked(b)'
  BY SameSessions DEF Sound, Booked, Counted
<1>2. ASSUME disturbed = 0
      PROVE  Quiet'
  <2>1. Quiet
    BY <1>2 DEF Sound, QuietInv
  <2>a. \A t \in Tabs : tabs[t].active \in Nat /\ tabs'[t].active \in Nat /\ now \in Nat
    BY LimitTypes DEF Sound, Counted, Booked, TabFits, Tab
  <2>b. \A t \in Tabs : tabs[t].active >= now => tabs'[t].active >= now
    BY <2>a DEF Risen
  <2>2. ASSUME NEW s \in Slots
        PROVE  CallIsQuiet(calls[s], tabs', now, driven, signedOut)
    <3>1. CallIsQuiet(calls[s], tabs, now, driven, signedOut)
      BY <2>1 DEF Quiet
    <3>2. \A c \in Session : Recent(c, tabs) => Recent(c, tabs')
      BY RecentStays DEF Sound, Booked
    <3>3. CASE calls[s] = NoCall
      BY <3>3, NoCallIsQuiet DEF CallIsQuiet
    <3>4. CASE QuestionFits(calls[s], b, now, signedOut)
      <4>1. /\ calls[s].tab \in Tabs /\ calls[s].stage # "answered"
            /\ calls[s].cookie = NoToken \/ calls[s].cookie \in Session
        BY <3>4 DEF QuestionFits, JarFits, CookieFits
      <4>. QED
        BY <2>b, <3>1, <3>2, <4>1 DEF CallIsQuiet
    <3>5. CASE AnswerFits(calls[s], b, now)
      <4>1. /\ calls[s].stage = "answered"
            /\ calls[s].token = NoToken \/ calls[s].token \in Session
        BY <3>5 DEF AnswerFits, JarFits, CookieFits
      <4>. QED
        BY <3>1, <3>2, <4>1 DEF CallIsQuiet
    <3>. QED
      BY <3>3, <3>4, <3>5 DEF Sound, Booked, CallFits
  <2>3. JarIsQuiet(jar, tabs, driven, signedOut) => JarIsQuiet(jar, tabs', driven, signedOut)
    BY JarStaysQuiet DEF Sound, Booked
  <2>. QED
    BY <2>1, <2>2, <2>3 DEF Quiet, Slots
<1>. QED
  BY <1>1, <1>2 DEF Sound, QuietInv

\* Somebody touches a tab, or its timer notices that nobody did.
LEMMA TouchKeeps ==
  ASSUME NEW b, Sound(b), NEW t \in Tabs, touch(t) \/ idleTimer(t)
  PROVE  Sound(b)'
<1>1. CASE touch(t)
  <2>1. tabs' = noticed(t)
    BY <1>1 DEF touch
  <2>2. /\ tabs' = [r \in Tabs |-> tabs'[r]] /\ \A r \in Tabs : TabFits(tabs'[r], b, now)
        /\ Risen(tabs', tabs)
    BY <2>1, Noticed DEF Sound
  <2>. QED
    BY <1>1, <2>2, TabsKeep DEF touch
<1>2. CASE idleTimer(t)
  <2>. DEFINE tab == [tabs[t] EXCEPT !.expired = TRUE]
  <2>1. tabs' = [tabs EXCEPT ![t] = tab]
    BY <1>2 DEF idleTimer
  <2>2. tabs[t] \in Tab
    BY DEF Sound, Booked, TabFits
  <2>3. tab \in Tab
    BY <2>2, TabWritten, LimitTypes DEF Tab
  <2>4. tab.active = tabs[t].active /\ tab.user = tabs[t].user /\ tab.csrf = tabs[t].csrf
    BY <2>2, Zenon DEF Tab
  <2>. HIDE DEF tab
  <2>5. /\ tabs' = [r \in Tabs |-> tabs'[r]]
        /\ \A r \in Tabs : tabs'[r] = IF r = t THEN tab ELSE tabs[r]
    BY <2>1, OneWritten DEF Sound, Counted
  <2>6. TabFits(tab, b, now)
    BY <2>3, <2>4 DEF TabFits, Sound, Booked
  <2>7. \A r \in Tabs : TabFits(tabs'[r], b, now)
    BY <2>5, <2>6 DEF Sound, Booked
  <2>8. \A r \in Tabs : tabs[r].active \in Nat
    BY LimitTypes DEF Sound, Booked, TabFits, Tab
  <2>9. Risen(tabs', tabs)
    BY <2>4, <2>5, <2>8 DEF Risen
  <2>. QED
    BY <1>2, <2>5, <2>7, <2>9, TabsKeep DEF idleTimer
<1>. QED
  BY <1>1, <1>2

\* The clock moves on.
LEMMA TickKeeps ==
  ASSUME NEW b, Sound(b), Tick
  PROVE  Sound(b)'
<1>1. now \in Nat /\ now' = now + 1 /\ now' \in Nat /\ now <= now' /\ now' \in Time
  BY LimitTypes DEF Tick, Sound, Counted, Time
<1>2. Busy \in BOOLEAN
  BY DEF Busy
<1>3. /\ disturbed' \in 0..MaxDisturbances
      /\ disturbed' = 0 => ~Busy /\ disturbed = 0
  BY <1>2, Undisturbed DEF Sound, Tick
<1>4. UNCHANGED <<deployment, started, revoked, jar, tabs, calls, driven, signedOut>>
  BY DEF Tick
<1>a. driven' \in 0..now'
  BY <1>1, <1>4 DEF Sound, Counted
<1>5. Counted'
  BY <1>1, <1>3, <1>4, <1>a DEF Sound, Counted, Slots
<1>6. Booked(b)'
  <2>1. b \in BookOf(started) /\ Grown(b, b)
    BY GrownSelf DEF Sound, Booked
  <2>2. JarFits(jar, b, now')
    BY <1>1, <2>1, JarKept DEF Sound, Booked
  <2>3. \A t \in Tabs : TabFits(tabs[t], b, now')
    BY <1>1, <2>1, TabKept DEF Sound, Booked
  <2>4. \A s \in Slots : CallFits(calls[s], b, now', signedOut)
    BY <1>1, <2>1, CallKept DEF Sound, Booked
  <2>5. ListFits(revoked, signedOut, b, now')
    BY <1>1, <2>1, ListKept DEF Sound, Booked
  <2>. QED
    BY <1>4, <2>1, <2>2, <2>3, <2>4, <2>5 DEF Booked, Slots
<1>7. ASSUME disturbed' = 0
      PROVE  Quiet'
  <2>1. Quiet /\ \A s \in Slots : calls[s] = NoCall
    BY <1>3, <1>7, Alone DEF Sound, QuietInv
  <2>2. JarIsQuiet(jar, tabs, driven, signedOut)
    BY <2>1, NoCallIsQuiet DEF Quiet
  <2>3. CallIsQuiet(NoCall, tabs, now', driven, signedOut)
    BY NoCallIsQuiet DEF CallIsQuiet
  <2>4. OneCall(calls)
    BY <2>1 DEF Quiet
  <2>. QED
    BY <1>4, <2>1, <2>2, <2>3, <2>4 DEF Quiet, Slots
<1>. QED
  BY <1>5, <1>6, <1>7 DEF Sound, QuietInv

-----------------------------------------------------------------------------
(* The answer comes back.                                                  *)

\* What becomes of the tab, case by case.
LEMMA TabAfterIs ==
  ASSUME NEW c
  PROVE  /\ c.kind = "logout" => tabAfter(c) = [endLocalSession(tabs[c.tab]) EXCEPT !.csrf = 0]
         /\ c.kind = "resume" /\ c.answer = "ok" =>
              tabAfter(c) = [adopt(tabs[c.tab], c.token) EXCEPT !.expired = FALSE, !.active = now]
         /\ c.kind \in {"load", "login"} /\ c.answer = "ok" => tabAfter(c) = adopt(tabs[c.tab], c.token)
         /\ c.kind = "resume" /\ c.answer # "ok" => tabAfter(c) = endLocalSession(tabs[c.tab])
         /\ c.kind \in {"read", "write"} =>
              tabAfter(c) = IF c.answer = "ended" THEN endLocalSession(tabs[c.tab]) ELSE tabs[c.tab]
         /\ c.kind \in {"load", "login"} /\ c.answer # "ok" => tabAfter(c) = tabs[c.tab]
<1>. DEFINE tab == tabs[c.tab]
            out == [endLocalSession(tab) EXCEPT !.csrf = 0]
            on  == [adopt(tab, c.token) EXCEPT !.expired = FALSE, !.active = now]
            in  == adopt(tab, c.token)
            end == endLocalSession(tab)
            kind == c.kind
            ok == c.answer = "ok"
            ended == c.answer = "ended"
<1>1. tabAfter(c) = CASE kind = "logout" -> out
                      [] kind = "resume" /\ ok -> on
                      [] kind \in {"load", "login"} /\ ok -> in
                      [] (kind = "resume" /\ ~ok) \/ (kind \in {"read", "write"} /\ ended) -> end
                      [] OTHER -> tab
  BY DEF tabAfter
<1>2. ok \in BOOLEAN /\ ended \in BOOLEAN /\ ~(ok /\ ended)
  OBVIOUS
<1>. HIDE DEF tab, out, on, in, end, kind, ok, ended
<1>3. kind = "logout" => tabAfter(c) = out
  BY <1>1
<1>a. kind = "resume" => kind # "logout" /\ kind \notin {"load", "login"} /\ kind \notin {"read", "write"}
  OBVIOUS
<1>4. kind = "resume" /\ ok => tabAfter(c) = on
  BY <1>1, <1>a
<1>5. kind \in {"load", "login"} /\ ok => tabAfter(c) = in
  BY <1>1
<1>6. kind = "resume" /\ ~ok => tabAfter(c) = end
  BY <1>1
<1>7. kind \in {"read", "write"} => tabAfter(c) = IF ended THEN end ELSE tab
  BY <1>1
<1>8. kind \in {"load", "login"} /\ ~ok => tabAfter(c) = tab
  BY <1>1
<1>. QED
  BY <1>3, <1>4, <1>5, <1>6, <1>7, <1>8 DEF tab, out, on, in, end, kind, ok, ended

\* Back to the login screen.
LEMMA TabEnds ==
  ASSUME NEW tab \in Tab
  PROVE  LET new == [tab EXCEPT !.user = Nobody, !.expired = FALSE]
         IN  new \in Tab /\ new.user = Nobody /\ new.csrf = tab.csrf /\ new.active = tab.active
<1>. DEFINE Who == Users \cup {Nobody}
            Tokens == {0} \cup Sids
            Times == Time
<1>1. Tab = [user : Who, csrf : Tokens, active : Times, expired : BOOLEAN]
  BY DEF Tab
<1>2. Nobody \in Who
  OBVIOUS
<1>. HIDE DEF Who, Tokens, Times
<1>. QED
  BY <1>1, <1>2

\* The token is forgotten.
LEMMA TabForgets ==
  ASSUME NEW tab \in Tab
  PROVE  LET new == [tab EXCEPT !.csrf = 0]
         IN  new \in Tab /\ new.user = tab.user /\ new.csrf = 0 /\ new.active = tab.active
<1>. DEFINE Who == Users \cup {Nobody}
            Tokens == {0} \cup Sids
            Times == Time
<1>1. Tab = [user : Who, csrf : Tokens, active : Times, expired : BOOLEAN]
  BY DEF Tab
<1>2. 0 \in Tokens
  OBVIOUS
<1>. HIDE DEF Who, Tokens, Times
<1>. QED
  BY <1>1, <1>2

\* The dialog is put away.
LEMMA TabResumes ==
  ASSUME NEW tab \in Tab, NEW n \in Time
  PROVE  LET new == [tab EXCEPT !.expired = FALSE, !.active = n]
         IN  new \in Tab /\ new.user = tab.user /\ new.csrf = tab.csrf /\ new.active = n
<1>. DEFINE Who == Users \cup {Nobody}
            Tokens == {0} \cup Sids
            Times == Time
<1>1. Tab = [user : Who, csrf : Tokens, active : Times, expired : BOOLEAN]
  BY DEF Tab
<1>2. n \in Times
  OBVIOUS
<1>. HIDE DEF Who, Tokens, Times
<1>. QED
  BY <1>1, <1>2

\* What an answer makes of its tab fits, and turns no activity back.
LEMMA TabAfterFits ==
  ASSUME NEW b, Sound(b), NEW c, c.tab \in Tabs,
         AnswerFits(c, b, now) \/ (QuestionFits(c, b, now, signedOut) /\ c.kind = "logout")
  PROVE  /\ TabFits(tabAfter(c), b, now)
         /\ tabAfter(c).active >= tabs[c.tab].active
         /\ c.kind = "resume" /\ c.answer = "ok" => tabAfter(c).active >= now
<1>. DEFINE tab == tabs[c.tab]
<1>1. /\ TabFits(tab, b, now) /\ tab \in Tab /\ tab.active \in Nat /\ tab.active \in Time /\ tab.active <= now
      /\ now \in Nat /\ now \in Time
  BY LimitTypes DEF Sound, Booked, Counted, TabFits, Tab
<1>. HIDE DEF tab
<1>3. CASE c.kind = "logout"
  <2>. DEFINE end == [tab EXCEPT !.user = Nobody, !.expired = FALSE]
              new == [end EXCEPT !.csrf = 0]
  <2>1. tabAfter(c) = new
    BY <1>3, TabAfterIs DEF endLocalSession, tab
  <2>a. end \in Tab /\ end.user = Nobody /\ end.active = tab.active
    BY <1>1, TabEnds
  <2>. HIDE DEF end
  <2>2. new \in Tab /\ new.user = Nobody /\ new.csrf = 0 /\ new.active = tab.active
    BY <2>a, TabForgets
  <2>. HIDE DEF new
  <2>3. TabFits(new, b, now) /\ new.active >= tab.active
    BY <1>1, <2>2 DEF TabFits
  <2>. QED
    BY <1>3, <2>1, <2>3 DEF tab
<1>4. CASE c.kind \in {"resume", "load", "login"} /\ c.answer = "ok"
  <2>1. CookieFits(c.token, b, now)
    BY <1>4 DEF AnswerFits
  <2>2. c.token.user \in Users /\ c.token.sid \in Sids /\ c.token.sid \in DOMAIN b /\ c.token.user = b[c.token.sid].user
    BY <2>1 DEF CookieFits, Session
  <2>. DEFINE in == [tab EXCEPT !.user = c.token.user, !.csrf = c.token.sid]
              on == [in EXCEPT !.expired = FALSE, !.active = now]
  <2>3. tabAfter(c) = IF c.kind = "resume" THEN on ELSE in
    BY <1>4, TabAfterIs DEF adopt, tab
  <2>b. in \in Tab /\ in.user = c.token.user /\ in.csrf = c.token.sid /\ in.active = tab.active
    <3>. DEFINE Who == Users \cup {Nobody}
                Tokens == {0} \cup Sids
                Times == Time
                u == c.token.user
                k == c.token.sid
    <3>1. Tab = [user : Who, csrf : Tokens, active : Times, expired : BOOLEAN]
      BY DEF Tab
    <3>2. u \in Who /\ k \in Tokens
      BY <2>2
    <3>3. in = [tab EXCEPT !.user = u, !.csrf = k] /\ tab \in Tab
      BY <1>1
    <3>. HIDE DEF in, Who, Tokens, Times, u, k
    <3>4. in \in Tab /\ in.user = u /\ in.csrf = k /\ in.active = tab.active
      BY <3>1, <3>2, <3>3
    <3>. QED
      BY <3>4 DEF u, k
  <2>. HIDE DEF in
  <2>4. on \in Tab /\ on.user = c.token.user /\ on.csrf = c.token.sid /\ on.active = now
    BY <1>1, <2>b, TabResumes
  <2>. HIDE DEF on
  <2>5. TabFits(in, b, now) /\ in.active >= tab.active
    BY <1>1, <2>2, <2>b DEF TabFits
  <2>6. TabFits(on, b, now) /\ on.active >= tab.active /\ on.active >= now
    BY <1>1, <2>2, <2>4 DEF TabFits
  <2>. QED
    BY <1>4, <2>3, <2>5, <2>6 DEF tab
<1>5. CASE \/ c.kind = "resume" /\ c.answer # "ok"
           \/ c.kind \in {"read", "write"}
           \/ c.kind \in {"load", "login"} /\ c.answer # "ok"
  <2>. DEFINE end == [tab EXCEPT !.user = Nobody, !.expired = FALSE]
  <2>1. tabAfter(c) \in {end, tab} /\ ~(c.kind = "resume" /\ c.answer = "ok")
    BY <1>5, TabAfterIs DEF endLocalSession, tab
  <2>2. end \in Tab /\ end.user = Nobody /\ end.csrf = tab.csrf /\ end.active = tab.active
    BY <1>1, TabEnds
  <2>. HIDE DEF end
  <2>3. TabFits(end, b, now) /\ end.active >= tab.active /\ tab.active >= tab.active
    BY <1>1, <2>2 DEF TabFits
  <2>. QED
    BY <1>1, <2>1, <2>3 DEF tab
<1>6. c.kind \in Kinds
  BY DEF AnswerFits, QuestionFits
<1>. QED
  BY <1>3, <1>4, <1>5, <1>6 DEF Kinds

\* A call that has been answered fits as one.
LEMMA StageTells ==
  ASSUME NEW b, NEW c, NEW n, NEW out, CallFits(c, b, n, out)
  PROVE  /\ c.stage = "answered" => AnswerFits(c, b, n)
         /\ c.stage \in {"sent", "judged"} => QuestionFits(c, b, n, out)
         /\ c.stage \in {"sent", "judged", "answered"} => c # NoCall
BY DEF CallFits, QuestionFits, AnswerFits, NoCall

\* A slot without a call fits.
LEMMA NoCallFits ==
  ASSUME NEW b, NEW n, NEW out
  PROVE  CallFits(NoCall, b, n, out)
BY DEF CallFits

\* When the only call ends there is none.
LEMMA NoneLeft ==
  ASSUME NEW s \in Slots, OneCall(calls), calls[s] # NoCall,
         \A r \in Slots : calls'[r] = IF r = s THEN NoCall ELSE calls[r]
  PROVE  \A r \in Slots : calls'[r] = NoCall
BY DEF OneCall

\* With no call under way there is only the jar to look at.
LEMMA NoneIsQuiet ==
  ASSUME \A r \in Slots : calls'[r] = NoCall, JarIsQuiet(jar', tabs', driven', signedOut')
  PROVE  Quiet'
<1>1. \A r \in Slots : CallIsQuiet(calls'[r], tabs', now', driven', signedOut')
  BY NoCallIsQuiet DEF CallIsQuiet
<1>2. OneCall(calls')
  BY DEF OneCall
<1>. QED
  BY <1>1, <1>2 DEF Quiet, Slots

\* The tab of a call is brought up to date.
LEMMA TabBrought ==
  ASSUME NEW b, Sound(b), NEW s \in Slots,
         \/ calls[s].stage = "answered"
         \/ calls[s].stage \in {"sent", "judged"} /\ calls[s].kind = "logout",
         tabs' = [tabs EXCEPT ![calls[s].tab] = tabAfter(calls[s])]
  PROVE  /\ tabs' = [t \in Tabs |-> tabs'[t]]
         /\ \A t \in Tabs : TabFits(tabs'[t], b, now)
         /\ Risen(tabs', tabs)
         /\ calls[s].kind = "resume" /\ calls[s].answer = "ok" =>
              \E t \in Tabs : tabs'[t].active >= now
<1>. DEFINE c == calls[s]
            tab == tabAfter(c)
<1>1. CallFits(c, b, now, signedOut)
  BY DEF Sound, Booked
<1>. HIDE DEF c
<1>2. AnswerFits(c, b, now) \/ (QuestionFits(c, b, now, signedOut) /\ c.kind = "logout")
  BY <1>1, StageTells DEF c
<1>3. c.tab \in Tabs
  BY <1>2 DEF AnswerFits, QuestionFits
<1>4. /\ TabFits(tab, b, now) /\ tab.active >= tabs[c.tab].active
      /\ c.kind = "resume" /\ c.answer = "ok" => tab.active >= now
  BY <1>2, <1>3, TabAfterFits
<1>5. tabs' = [tabs EXCEPT ![c.tab] = tab]
  BY DEF c
<1>. HIDE DEF tab
<1>6. /\ tabs' = [t \in Tabs |-> tabs'[t]]
      /\ \A t \in Tabs : tabs'[t] = IF t = c.tab THEN tab ELSE tabs[t]
  BY <1>5, OneWritten DEF Sound, Counted
<1>7. \A t \in Tabs : TabFits(tabs'[t], b, now)
  BY <1>4, <1>6 DEF Sound, Booked
<1>8. \A t \in Tabs : tabs[t].active \in Nat /\ tabs'[t].active \in Nat
  BY <1>7, LimitTypes DEF Sound, Booked, TabFits, Tab
<1>9. Risen(tabs', tabs)
  BY <1>4, <1>6, <1>8, <1>3 DEF Risen
<1>10. c.kind = "resume" /\ c.answer = "ok" => \E t \in Tabs : tabs'[t].active >= now
  BY <1>3, <1>4, <1>6
<1>. QED
  BY <1>6, <1>7, <1>9, <1>10 DEF c

\* An answer that reaches its tab keeps the invariant, with the same book.
LEMMA AnsweredKeeps ==
  ASSUME NEW b, Sound(b), NEW s \in Slots, answered(s)
  PROVE  Sound(b)'
<1>. DEFINE c == calls[s]
<1>1. /\ c.stage = "answered"
      /\ jar' = cookieAfter(c) /\ tabs' = [tabs EXCEPT ![c.tab] = tabAfter(c)]
      /\ calls' = [calls EXCEPT ![s] = NoCall]
      /\ UNCHANGED <<deployment, now, started, revoked, driven, signedOut, disturbed>>
  BY DEF answered
<1>2. AnswerFits(c, b, now) /\ c # NoCall
  BY <1>1, StageTells DEF Sound, Booked
<1>3. /\ tabs' = [t \in Tabs |-> tabs'[t]]
      /\ \A t \in Tabs : TabFits(tabs'[t], b, now)
      /\ Risen(tabs', tabs)
      /\ c.kind = "resume" /\ c.answer = "ok" => \E t \in Tabs : tabs'[t].active >= now
  BY <1>1, TabBrought
<1>4. /\ calls' = [r \in Slots |-> calls'[r]]
      /\ \A r \in Slots : calls'[r] = IF r = s THEN NoCall ELSE calls[r]
  BY <1>1, OneWritten DEF Sound, Counted
<1>5. \A r \in Slots : CallFits(calls'[r], b, now, signedOut)
  BY <1>4, NoCallFits DEF Sound, Booked
<1>. HIDE DEF c
<1>6. jar' = IF c.token # NoToken THEN c.token
             ELSE IF c.kind = "logout" \/ c.answer = "ended" THEN NoToken ELSE jar
  BY <1>1 DEF cookieAfter
<1>7. JarFits(jar', b, now)
  BY <1>2, <1>6 DEF AnswerFits, JarFits, Sound, Booked
<1>8. Counted' /\ Booked(b)'
  BY <1>1, <1>3, <1>4, <1>5, <1>7, SameSessions DEF Sound, Counted
<1>9. ASSUME disturbed = 0
      PROVE  Quiet'
  <2>1. Quiet /\ CallIsQuiet(c, tabs, now, driven, signedOut)
    BY <1>9 DEF Sound, QuietInv, Quiet, c
  <2>2. \A r \in Slots : calls'[r] = NoCall
    BY <1>2, <1>4, <2>1, NoneLeft DEF Quiet, c
  <2>3. JarIsQuiet(jar', tabs', driven, signedOut)
    <3>1. CASE c.token # NoToken
      <4>1. /\ CookieFits(c.token, b, now) /\ c.token \in Session /\ c.answer = "ok"
            /\ c.token.lastSeen \in Nat /\ c.token.lastSeen <= now
        BY <1>2, <3>1, LimitTypes DEF AnswerFits, JarFits, CookieFits, Session
      <4>2. Current(c.token, driven, signedOut) /\ (Recent(c.token, tabs) \/ c.kind = "resume")
        BY <1>1, <2>1, <3>1 DEF CallIsQuiet, c
      <4>3. Recent(c.token, tabs) => Recent(c.token, tabs')
        BY <1>3, <4>1, RecentStays DEF Sound, Booked
      <4>4. ASSUME c.kind = "resume"
            PROVE  Recent(c.token, tabs')
        <5>1. PICK t \in Tabs : tabs'[t].active >= now
          BY <1>3, <4>1, <4>4
        <5>2. tabs'[t].active \in Nat /\ now \in Nat
          BY <1>3, LimitTypes DEF TabFits, Tab, Sound, Counted
        <5>3. c.token.lastSeen <= tabs'[t].active
          BY <4>1, <5>1, <5>2
        <5>. QED
          BY <5>3 DEF Recent
      <4>. QED
        BY <1>6, <3>1, <4>2, <4>3, <4>4 DEF JarIsQuiet
    <3>2. CASE c.token = NoToken
      <4>1. CASE c.kind = "logout" \/ c.answer = "ended"
        BY <1>6, <3>2, <4>1 DEF JarIsQuiet
      <4>2. CASE ~(c.kind = "logout" \/ c.answer = "ended")
        <5>1. \A r \in Slots : ~Replaces(calls[r])
          <6>1. ~Replaces(calls[s])
            BY <3>2, <4>2 DEF Replaces, c
          <6>2. \A r \in Slots : r # s => calls[r] = NoCall
            BY <1>2, <2>1 DEF Quiet, OneCall, c
          <6>. QED
            BY <6>1, <6>2, NoCallIsQuiet
        <5>2. JarIsQuiet(jar, tabs, driven, signedOut) /\ jar' = jar
          BY <1>6, <2>1, <3>2, <4>2, <5>1 DEF Quiet
        <5>. QED
          BY <1>3, <5>2, JarStaysQuiet DEF Sound, Booked
      <4>. QED
        BY <4>1, <4>2
    <3>. QED
      BY <3>1, <3>2
  <2>. QED
    BY <1>1, <2>2, <2>3, NoneIsQuiet
<1>. QED
  BY <1>1, <1>8, <1>9 DEF Sound, QuietInv

\* A call or its answer is lost.
LEMMA LoseKeeps ==
  ASSUME NEW b, Sound(b), NEW s \in Slots, Lose(s)
  PROVE  Sound(b)'
<1>1. /\ calls[s].stage \in {"sent", "answered"}
      /\ tabs' = IF calls[s].kind = "logout" THEN [tabs EXCEPT ![calls[s].tab] = tabAfter(calls[s])] ELSE tabs
      /\ calls' = [calls EXCEPT ![s] = NoCall] /\ disturbIf(TRUE)
      /\ UNCHANGED <<deployment, now, started, revoked, jar, driven, signedOut>>
  BY DEF Lose
<1>2. disturbed' \in 0..MaxDisturbances /\ disturbed' # 0
  BY <1>1, Undisturbed DEF Sound
<1>3. /\ tabs' = [t \in Tabs |-> tabs'[t]]
      /\ \A t \in Tabs : TabFits(tabs'[t], b, now)
  <2>1. CASE calls[s].kind = "logout"
    BY <1>1, <2>1, TabBrought
  <2>2. CASE calls[s].kind # "logout"
    BY <1>1, <2>2 DEF Sound, Counted, Booked
  <2>. QED
    BY <2>1, <2>2
<1>4. /\ calls' = [r \in Slots |-> calls'[r]]
      /\ \A r \in Slots : calls'[r] = IF r = s THEN NoCall ELSE calls[r]
  BY <1>1, OneWritten DEF Sound, Counted
<1>5. \A r \in Slots : CallFits(calls'[r], b, now, signedOut)
  BY <1>4, NoCallFits DEF Sound, Booked
<1>6. Counted' /\ Booked(b)'
  BY <1>1, <1>2, <1>3, <1>4, <1>5, SameSessions DEF Sound, Booked
<1>. QED
  BY <1>2, <1>6 DEF Sound, QuietInv

-----------------------------------------------------------------------------
(* The server.                                                             *)

\* The larger of two numbers.
LEMMA MaxOfTwo ==
  ASSUME NEW m \in Nat, NEW n \in Nat
  PROVE  Max({m, n}) \in {m, n} /\ m <= Max({m, n}) /\ n <= Max({m, n})
<1>1. \E x \in {m, n} : \A y \in {m, n} : x >= y
  <2>1. CASE m <= n
    BY <2>1
  <2>2. CASE n <= m
    BY <2>2
  <2>. QED
    BY <2>1, <2>2
<1>2. Max({m, n}) \in {m, n} /\ \A y \in {m, n} : Max({m, n}) >= y
  BY <1>1 DEF Max
<1>. QED
  BY <1>2

\* A step of the server on one call: the call changes, sessions may be
\* started or signed out, and nothing else.
LEMMA ServerKeeps ==
  ASSUME NEW b, Sound(b), NEW s \in Slots, calls[s].stage \in {"sent", "judged"},
         NEW d, Grown(b, d), d \in BookOf(started'), started' \in 0..MaxSid, driven' \in 0..now,
         UNCHANGED <<deployment, now, jar, tabs, disturbed>>,
         signedOut \subseteq signedOut', ListFits(revoked', signedOut', d, now),
         NEW a, calls' = [calls EXCEPT ![s] = a], CallFits(a, d, now, signedOut'),
         disturbed = 0 /\ Quiet =>
           /\ CallIsQuiet(a, tabs, now, driven', signedOut')
           /\ JarIsQuiet(jar, tabs, driven', signedOut') \/ Replaces(a)
  PROVE  Sound(d)'
<1>1. /\ calls' = [r \in Slots |-> calls'[r]]
      /\ \A r \in Slots : calls'[r] = IF r = s THEN a ELSE calls[r]
  BY OneWritten DEF Sound, Counted
<1>2. Counted'
  BY <1>1 DEF Sound, Counted, Slots
<1>3. now \in Nat /\ now <= now
  BY LimitTypes DEF Sound, Counted
<1>4. Booked(d)'
  <2>1. JarFits(jar, d, now)
    BY <1>3, JarKept DEF Sound, Booked
  <2>2. \A t \in Tabs : TabFits(tabs[t], d, now)
    BY <1>3, TabKept DEF Sound, Booked
  <2>3. \A r \in Slots : CallFits(calls[r], d, now, signedOut')
    BY <1>3, CallKept DEF Sound, Booked
  <2>4. \A r \in Slots : CallFits(calls'[r], d, now, signedOut')
    BY <1>1, <2>3
  <2>. QED
    BY <2>1, <2>2, <2>4 DEF Booked, Slots
<1>5. ASSUME disturbed = 0
      PROVE  Quiet'
  <2>1. Quiet
    BY <1>5 DEF Sound, QuietInv
  <2>2. calls[s] # NoCall
    BY NoCallIsQuiet
  <2>3. \A r \in Slots : calls'[r] = IF r = s THEN a ELSE NoCall
    BY <1>1, <2>1, <2>2 DEF Quiet, OneCall
  <2>4. OneCall(calls')
    BY <2>3 DEF OneCall
  <2>5. CallIsQuiet(NoCall, tabs, now, driven', signedOut')
    BY NoCallIsQuiet DEF CallIsQuiet
  <2>6. /\ CallIsQuiet(a, tabs, now, driven', signedOut')
        /\ JarIsQuiet(jar, tabs, driven', signedOut') \/ Replaces(a)
    BY <1>5, <2>1
  <2>7. \A r \in Slots : CallIsQuiet(calls'[r], tabs, now, driven', signedOut')
    BY <2>3, <2>5, <2>6
  <2>8. JarIsQuiet(jar, tabs, driven', signedOut') \/ \E r \in Slots : Replaces(calls'[r])
    BY <2>3, <2>6
  <2>. QED
    BY <2>4, <2>7, <2>8 DEF Quiet, Slots
<1>. QED
  BY <1>2, <1>4, <1>5 DEF Sound, QuietInv

\* While the only call is on its way, no answer brings another cookie.
LEMMA JarWhilePending ==
  ASSUME NEW s \in Slots, calls[s].stage \in {"sent", "judged"}, Quiet
  PROVE  JarIsQuiet(jar, tabs, driven, signedOut)
<1>1. calls[s] # NoCall
  BY NoCallIsQuiet
<1>2. \A r \in Slots : r # s => calls[r] = NoCall
  BY <1>1 DEF Quiet, OneCall
<1>3. \A r \in Slots : ~Replaces(calls[r])
  BY <1>2, NoCallIsQuiet DEF Replaces
<1>. QED
  BY <1>3 DEF Quiet

\* A session that has just been started is in nobody's hands yet.
Entered(b, k, user, n) == [j \in 1..k + 1 |-> IF j = k + 1 THEN [user |-> user, issuedAt |-> n] ELSE b[j]]

\* A session that starts is entered in the book under a number of its own.
LEMMA SessionStarts ==
  ASSUME NEW b, Sound(b), started < MaxSid, NEW user \in Users
  PROVE  LET d == Entered(b, started, user, now)
         IN  /\ d \in BookOf(started + 1) /\ Grown(b, d)
             /\ started + 1 \in 0..MaxSid
             /\ CookieFits(startSession(user), d, now)
             /\ ListFits(revoked, signedOut, d, now)
             /\ started + 1 \notin DOMAIN b /\ started + 1 \notin signedOut
             /\ startSession(user).sid = started + 1 /\ startSession(user).lastSeen = now
             /\ Recent(startSession(user), tabs)
<1>. DEFINE d == Entered(b, started, user, now)
            k == started
<1>1. k \in Nat /\ k + 1 \in 1..MaxSid /\ now \in Time /\ now \in Nat /\ MaxSid \in Nat /\ k + 1 \in 0..MaxSid
  BY LimitTypes DEF Sound, Counted
<1>2. b \in BookOf(k) /\ DOMAIN b = 1..k
  BY DEF Sound, Booked, BookOf
<1>3. /\ d = [j \in 1..k + 1 |-> IF j = k + 1 THEN [user |-> user, issuedAt |-> now] ELSE b[j]]
      /\ DOMAIN d = 1..k + 1
  BY DEF Entered
<1>. HIDE DEF d, k
<1>4. k + 1 \notin DOMAIN b /\ \A j \in 1..k : j \in 1..k + 1 /\ j # k + 1
  BY <1>1, <1>2
<1>5. \A j \in 1..k + 1 : d[j] = IF j = k + 1 THEN [user |-> user, issuedAt |-> now] ELSE b[j]
  BY <1>3
<1>6. \A j \in 1..k + 1 : j # k + 1 => j \in 1..k
  BY <1>1
<1>7. d \in BookOf(k + 1)
  <2>1. \A j \in 1..k : b[j] \in [user : Users, issuedAt : Time]
    BY <1>2 DEF BookOf
  <2>2. [user |-> user, issuedAt |-> now] \in [user : Users, issuedAt : Time]
    BY <1>1
  <2>3. \A j \in 1..k + 1 : d[j] \in [user : Users, issuedAt : Time]
    BY <1>5, <1>6, <2>1, <2>2, Zenon
  <2>4. d = [j \in 1..k + 1 |-> d[j]]
    BY <1>3, <1>5, Zenon
  <2>. QED
    BY <2>3, <2>4 DEF BookOf
<1>8. Grown(b, d)
  BY <1>2, <1>3, <1>4, <1>5 DEF Grown
<1>9. k + 1 \in DOMAIN d /\ d[k + 1] = [user |-> user, issuedAt |-> now]
  <2>1. k + 1 \in 1..k + 1
    BY <1>1
  <2>. QED
    BY <2>1, <1>3, <1>5
<1>10. /\ startSession(user).sid = k + 1 /\ startSession(user).user = user
       /\ startSession(user).issuedAt = now /\ startSession(user).lastSeen = now
  BY DEF startSession, k
<1>11. startSession(user) \in Session
  BY <1>1 DEF startSession, Session, Sids, k
<1>12. CookieFits(startSession(user), d, now)
  BY <1>1, <1>9, <1>10, <1>11 DEF CookieFits
<1>13. ListFits(revoked, signedOut, d, now)
  BY <1>1, <1>2, <1>8, ListKept DEF Sound, Booked
<1>14. k + 1 \notin signedOut
  BY <1>4 DEF Sound, Booked, ListFits
<1>15. Recent(startSession(user), tabs)
  BY <1>1, <1>10 DEF Recent
<1>. QED
  BY <1>1, <1>4, <1>7, <1>8, <1>10, <1>12, <1>13, <1>14, <1>15 DEF k, d

\* The answer to a call.
AnswerTo(c, answer, token) ==
  [stage |-> "answered", kind |-> c.kind, tab |-> c.tab, answer |-> answer, token |-> token]

\* What respond of the model writes, as one record.
LEMMA RespondsWith ==
  ASSUME NEW s, NEW answer, NEW token, respond(s, answer, token)
  PROVE  calls' = [calls EXCEPT ![s] = AnswerTo(calls[s], answer, token)]
BY DEF respond, AnswerTo

\* The parts of an answer.
LEMMA AnswerParts ==
  ASSUME NEW c, NEW answer, NEW token
  PROVE  LET a == AnswerTo(c, answer, token)
         IN  /\ a.stage = "answered" /\ a.kind = c.kind /\ a.tab = c.tab /\ a.answer = answer /\ a.token = token
             /\ a = [stage |-> a.stage, kind |-> a.kind, tab |-> a.tab, answer |-> a.answer, token |-> a.token]
BY DEF AnswerTo

\* A call gets no cookie: it is refused, its session has ended, or it was to
\* sign out.
LEMMA TokenlessKeeps ==
  ASSUME NEW b, Sound(b), NEW s \in Slots, calls[s].stage \in {"sent", "judged"},
         NEW answer, answer # "ok" \/ calls[s].kind = "logout", respond(s, answer, NoToken),
         NEW d, Grown(b, d), d \in BookOf(started'), started' \in 0..MaxSid,
         ListFits(revoked, signedOut, d, now),
         UNCHANGED <<deployment, now, revoked, jar, tabs, driven, signedOut, disturbed>>
  PROVE  Sound(d)'
<1>. DEFINE a == AnswerTo(calls[s], answer, NoToken)
<1>1. QuestionFits(calls[s], b, now, signedOut)
  BY StageTells DEF Sound, Booked
<1>2. /\ a.stage = "answered" /\ a.kind = calls[s].kind /\ a.tab = calls[s].tab
      /\ a.answer = answer /\ a.token = NoToken
      /\ a = [stage |-> a.stage, kind |-> a.kind, tab |-> a.tab, answer |-> a.answer, token |-> a.token]
  BY AnswerParts
<1>3. calls' = [calls EXCEPT ![s] = a]
  BY RespondsWith
<1>. HIDE DEF a
<1>4. AnswerFits(a, d, now)
  BY <1>1, <1>2 DEF AnswerFits, QuestionFits, JarFits
<1>5. CallIsQuiet(a, tabs, now, driven', signedOut')
  BY <1>2 DEF CallIsQuiet
<1>6. Quiet => JarIsQuiet(jar, tabs, driven', signedOut')
  BY JarWhilePending
<1>7. driven' \in 0..now /\ CallFits(a, d, now, signedOut')
  BY <1>4 DEF Sound, Counted, CallFits
<1>. QED
  BY <1>3, <1>5, <1>6, <1>7, ServerKeeps

\* A call is served, and gets the cookie of its session.
LEMMA ServedKeeps ==
  ASSUME NEW b, Sound(b), NEW s \in Slots, calls[s].stage \in {"sent", "judged"}, calls[s].kind # "logout",
         NEW d, Grown(b, d), d \in BookOf(started'), started' \in 0..MaxSid, driven' \in 0..now,
         UNCHANGED <<deployment, now, revoked, jar, tabs, signedOut, disturbed>>,
         ListFits(revoked, signedOut, d, now),
         NEW token, CookieFits(token, d, now), respond(s, "ok", token),
         disturbed = 0 /\ Quiet =>
           /\ Current(token, driven', signedOut)
           /\ Recent(token, tabs) \/ calls[s].kind = "resume"
  PROVE  Sound(d)'
<1>. DEFINE a == AnswerTo(calls[s], "ok", token)
<1>1. QuestionFits(calls[s], b, now, signedOut)
  BY StageTells DEF Sound, Booked
<1>2. /\ a.stage = "answered" /\ a.kind = calls[s].kind /\ a.tab = calls[s].tab
      /\ a.answer = "ok" /\ a.token = token
      /\ a = [stage |-> a.stage, kind |-> a.kind, tab |-> a.tab, answer |-> a.answer, token |-> a.token]
  BY AnswerParts
<1>3. calls' = [calls EXCEPT ![s] = a]
  BY RespondsWith
<1>. HIDE DEF a
<1>4. AnswerFits(a, d, now)
  BY <1>1, <1>2 DEF AnswerFits, QuestionFits, JarFits
<1>5. Replaces(a)
  BY <1>2, NoTokenAssumption DEF Replaces, CookieFits, NoTokenAssumption
<1>6. disturbed = 0 /\ Quiet => CallIsQuiet(a, tabs, now, driven', signedOut')
  BY <1>2 DEF CallIsQuiet
<1>7. CallFits(a, d, now, signedOut')
  BY <1>4 DEF CallFits
<1>. QED
  BY <1>3, <1>5, <1>6, <1>7, ServerKeeps

\* What serve does with a session keeps the invariant, if nothing that was
\* driven is later than the session says.
LEMMA ServeKeeps ==
  ASSUME NEW b, Sound(b), NEW s \in Slots, calls[s].stage \in {"sent", "judged"}, calls[s].kind # "logout",
         NEW d, Grown(b, d), d \in BookOf(started'), started' \in 0..MaxSid,
         UNCHANGED <<deployment, now, revoked, jar, tabs, signedOut, disturbed>>,
         ListFits(revoked, signedOut, d, now),
         NEW session, CookieFits(session, d, now), NEW stamp \in 0..now, serve(s, session, stamp),
         disturbed = 0 /\ Quiet =>
           /\ Current(session, driven, signedOut)
           /\ ~calls[s].background => stamp <= session.lastSeen
           /\ Recent(session, tabs) \/ calls[s].kind = "resume"
  PROVE  Sound(d)'
<1>1. CASE respond(s, "refused", NoToken) /\ driven' = driven
  BY <1>1, TokenlessKeeps
<1>2. CASE /\ respond(s, "ok", session)
           /\ driven' = IF calls[s].background THEN driven ELSE Max({driven, stamp})
  <2>1. now \in Nat /\ driven \in Nat /\ driven <= now /\ stamp \in Nat /\ stamp <= now
    BY LimitTypes DEF Sound, Counted
  <2>2. /\ driven' \in {driven, stamp}
        /\ calls[s].background => driven' = driven
    BY <1>2, <2>1, MaxOfTwo
  <2>3. driven' \in 0..now
    BY <2>1, <2>2
  <2>4. ASSUME disturbed = 0, Quiet
        PROVE  /\ Current(session, driven', signedOut)
               /\ Recent(session, tabs) \/ calls[s].kind = "resume"
    BY <2>2, <2>4 DEF Current
  <2>. QED
    BY <1>2, <2>3, <2>4, ServedKeeps
<1>. QED
  BY <1>1, <1>2 DEF serve

\* A call without a session.
LEMMA ResolveKeeps ==
  ASSUME NEW b, Sound(b), NEW s \in Slots, calls[s].stage \in {"sent", "judged"}, resolveSession(s),
         UNCHANGED <<deployment, now, revoked, jar, tabs, signedOut, disturbed>>
  PROVE  \E d : Sound(d)'
<1>1. CASE /\ deployment # Password /\ calls[s].kind # "logout" /\ started < MaxSid
           /\ started' = started + 1 /\ serve(s, startSession(deployment), now)
  <2>a. PICK d : d = Entered(b, started, deployment, now)
    OBVIOUS
  <2>b. PICK session : session = startSession(deployment)
    OBVIOUS
  <2>1. deployment \in Users
    BY <1>1 DEF Sound, Counted
  <2>2. /\ d \in BookOf(started + 1) /\ Grown(b, d) /\ started + 1 \in 0..MaxSid
        /\ CookieFits(session, d, now) /\ ListFits(revoked, signedOut, d, now)
        /\ started + 1 \notin signedOut /\ session.sid = started + 1 /\ session.lastSeen = now
        /\ Recent(session, tabs)
    BY <1>1, <2>1, <2>a, <2>b, SessionStarts
  <2>3. now \in Nat /\ driven \in Nat /\ driven <= now /\ now \in 0..now
    BY LimitTypes DEF Sound, Counted
  <2>4. Current(session, driven, signedOut) /\ now <= session.lastSeen
    BY <2>2, <2>3 DEF Current
  <2>5. serve(s, session, now)
    BY <1>1, <2>b
  <2>6. Sound(d)'
    BY <1>1, <2>2, <2>3, <2>4, <2>5, ServeKeeps
  <2>. QED
    BY <2>6
<1>2. CASE ~(/\ deployment # Password /\ calls[s].kind # "logout" /\ started < MaxSid
             /\ started' = started + 1 /\ serve(s, startSession(deployment), now))
  <2>1. PICK answer : /\ answer # "ok" \/ calls[s].kind = "logout"
                      /\ respond(s, answer, NoToken) /\ UNCHANGED <<started, driven>>
    <3>1. CASE respond(s, "refused", NoToken) /\ UNCHANGED <<started, driven>>
      BY <3>1
    <3>2. CASE /\ respond(s, IF calls[s].kind = "logout" THEN "ok" ELSE "ended", NoToken)
               /\ UNCHANGED <<started, driven>>
      <4>1. CASE calls[s].kind = "logout"
        BY <3>2, <4>1
      <4>2. CASE calls[s].kind # "logout"
        BY <3>2, <4>2
      <4>. QED
        BY <4>1, <4>2
    <3>. QED
      BY <1>2, <3>1, <3>2 DEF resolveSession
  <2>2. Grown(b, b) /\ b \in BookOf(started') /\ started' \in 0..MaxSid /\ ListFits(revoked, signedOut, b, now)
    BY <2>1, GrownSelf DEF Sound, Booked, Counted
  <2>3. Sound(b)'
    BY <2>1, <2>2, TokenlessKeeps
  <2>. QED
    BY <2>3
<1>. QED
  BY <1>1, <1>2

\* The call as it waits for the revocation list.
LEMMA JudgingParts ==
  ASSUME NEW c, NEW n, NEW late,
         c = [stage |-> c.stage, kind |-> c.kind, tab |-> c.tab, user |-> c.user, background |-> c.background,
              cookie |-> c.cookie, csrf |-> c.csrf, shown |-> c.shown, stamp |-> c.stamp, late |-> c.late]
  PROVE  [c EXCEPT !.stage = "judged", !.stamp = n, !.late = late]
           \in [stage : {"judged"}, kind : {c.kind}, tab : {c.tab}, user : {c.user}, background : {c.background},
                cookie : {c.cookie}, csrf : {c.csrf}, shown : {c.shown}, stamp : {n}, late : {late}]
OBVIOUS

\* A call that is resolved keeps the invariant, perhaps with a longer book.
LEMMA ArrivesKeeps ==
  ASSUME NEW b, Sound(b), NEW s \in Slots, arrives(s)
  PROVE  \E d : Sound(d)'
<1>. DEFINE c == calls[s]
<1>1. /\ c.stage = "sent" /\ c.kind # "login"
      /\ UNCHANGED <<deployment, now, revoked, jar, tabs, signedOut, disturbed>>
  BY DEF arrives
<1>2. QuestionFits(c, b, now, signedOut)
  BY <1>1, StageTells DEF Sound, Booked
<1>3. CASE c.cookie = NoToken \/ TooOld(c.cookie, now)
  <2>1. resolveSession(s)
    BY <1>3 DEF arrives
  <2>. QED
    BY <1>1, <2>1, ResolveKeeps
<1>4. CASE ~(c.cookie = NoToken \/ TooOld(c.cookie, now))
  <2>. DEFINE late == c.cookie.sid \in signedOut
              a == [c EXCEPT !.stage = "judged", !.stamp = now, !.late = late]
  <2>1. calls' = [calls EXCEPT ![s] = a] /\ UNCHANGED <<started, driven>>
    BY <1>4 DEF arrives
  <2>2. late \in BOOLEAN
    OBVIOUS
  <2>. HIDE DEF c, late
  <2>3. a \in [stage : {"judged"}, kind : {c.kind}, tab : {c.tab}, user : {c.user}, background : {c.background},
               cookie : {c.cookie}, csrf : {c.csrf}, shown : {c.shown}, stamp : {now}, late : {late}]
    BY <1>2, JudgingParts DEF QuestionFits
  <2>. HIDE DEF a
  <2>4. /\ a.stage = "judged" /\ a.kind = c.kind /\ a.tab = c.tab /\ a.user = c.user
        /\ a.background = c.background /\ a.cookie = c.cookie /\ a.csrf = c.csrf /\ a.shown = c.shown
        /\ a.stamp = now /\ a.late = late
    BY <2>3
  <2>5. a = [stage |-> a.stage, kind |-> a.kind, tab |-> a.tab, user |-> a.user, background |-> a.background,
             cookie |-> a.cookie, csrf |-> a.csrf, shown |-> a.shown, stamp |-> a.stamp, late |-> a.late]
    BY <2>3
  <2>6. /\ CookieFits(a.cookie, b, now) /\ a.stamp \in Time /\ a.cookie.lastSeen <= a.stamp /\ a.stamp <= now
        /\ ~TooOld(a.cookie, a.stamp) /\ (a.late => a.cookie.sid \in signedOut)
    <3>1. CookieFits(c.cookie, b, now)
      BY <1>2, <1>4 DEF QuestionFits, JarFits
    <3>2. now \in Time /\ now \in Nat /\ now <= now /\ c.cookie.lastSeen <= now
      BY <3>1, LimitTypes DEF Sound, Counted, CookieFits
    <3>. QED
      BY <1>4, <2>4, <3>1, <3>2 DEF late
  <2>7. QuestionFits(a, b, now, signedOut)
    <3>1. a.kind # "login" /\ a.kind \in Kinds /\ a.tab \in Tabs /\ a.background \in BOOLEAN
      BY <1>1, <1>2, <2>4 DEF QuestionFits
    <3>2. a.csrf \in {0} \cup DOMAIN b /\ (a.kind = "write" => a.csrf \in DOMAIN b /\ a.shown = b[a.csrf].user)
      BY <1>2, <2>4 DEF QuestionFits
    <3>3. JarFits(a.cookie, b, now)
      BY <2>6 DEF JarFits
    <3>4. a.stage \in {"sent", "judged"} /\ a.late \in BOOLEAN /\ a.stage = "judged"
      BY <2>2, <2>4
    <3>. QED
      BY <2>5, <2>6, <3>1, <3>2, <3>3, <3>4, Zenon DEF QuestionFits
  <2>8. ASSUME disturbed = 0, Quiet
        PROVE  CallIsQuiet(a, tabs, now, driven, signedOut)
    <3>1. CallIsQuiet(c, tabs, now, driven, signedOut)
      BY <2>8 DEF Quiet, c
    <3>2. c.stage \in {"sent", "judged"} /\ a.stage # "answered"
      BY <1>1, <2>4
    <3>. QED
      BY <2>4, <3>1, <3>2 DEF CallIsQuiet
  <2>9. Quiet => JarIsQuiet(jar, tabs, driven, signedOut)
    BY <1>1, JarWhilePending DEF c
  <2>10. /\ Grown(b, b) /\ b \in BookOf(started) /\ started \in 0..MaxSid /\ driven \in 0..now
         /\ ListFits(revoked, signedOut, b, now) /\ CallFits(a, b, now, signedOut)
    BY <2>7, GrownSelf DEF Sound, Booked, Counted, CallFits
  <2>11. calls[s].stage \in {"sent", "judged"}
    BY <1>1 DEF c
  <2>12. Sound(b)'
    BY <1>1, <2>1, <2>8, <2>9, <2>10, <2>11, ServerKeeps
  <2>. QED
    BY <2>12
<1>. QED
  BY <1>3, <1>4

\* A session is signed out, and put on the list.
LEMMA SignedOutIsListed ==
  ASSUME NEW list, NEW out, NEW b, NEW n \in Nat, NEW k, b \in BookOf(k), ListFits(list, out, b, n),
         NEW sid \in DOMAIN b, NEW expiresAt, expiresAt = b[sid].issuedAt + Absolute
  PROVE  ListFits({entry \in list : entry.expiresAt > n} \cup {[sid |-> sid, expiresAt |-> expiresAt]},
                  out \cup {sid}, b, n)
<1>. DEFINE new == [sid |-> sid, expiresAt |-> expiresAt]
            kept == {entry \in list : entry.expiresAt > n} \cup {new}
<1>1. new.sid = sid /\ new.expiresAt = expiresAt
  OBVIOUS
<1>. HIDE DEF new
<1>a. \A j \in DOMAIN b : b[j].issuedAt \in Nat
  BY LimitTypes DEF BookOf
<1>2. \A j \in DOMAIN b : b[j].issuedAt + Absolute \in Nat
  BY <1>a, LimitTypes
<1>3. ASSUME NEW j \in out \cup {sid}
      PROVE  n >= b[j].issuedAt + Absolute \/ \E entry \in kept : entry.sid = j
  <2>1. CASE j = sid
    BY <1>1, <2>1
  <2>2. CASE j # sid
    <3>1. j \in out /\ j \in DOMAIN b
      BY <2>2 DEF ListFits
    <3>2. CASE n >= b[j].issuedAt + Absolute
      BY <3>2
    <3>3. CASE \E entry \in list : entry.sid = j
      <4>1. PICK entry \in list : entry.sid = j
        BY <3>3
      <4>2. entry.expiresAt = b[j].issuedAt + Absolute
        BY <4>1 DEF ListFits
      <4>3. CASE entry.expiresAt > n
        BY <4>1, <4>3
      <4>4. CASE ~(entry.expiresAt > n)
        BY <1>2, <3>1, <4>2, <4>4
      <4>. QED
        BY <4>3, <4>4
    <3>. QED
      BY <3>1, <3>2, <3>3 DEF ListFits
  <2>. QED
    BY <2>1, <2>2
<1>4. \A entry \in kept : entry.sid \in out \cup {sid} /\ entry.expiresAt = b[entry.sid].issuedAt + Absolute
  BY <1>1 DEF ListFits
<1>5. out \cup {sid} \subseteq DOMAIN b
  BY DEF ListFits
<1>6. ListFits(kept, out \cup {sid}, b, n)
  BY <1>3, <1>4, <1>5, Zenon DEF ListFits
<1>. QED
  BY <1>6 DEF new

\* The parts of a cookie that slid.
LEMMA SlidParts ==
  ASSUME NEW S, NEW U, NEW T, NEW c \in [sid : S, user : U, issuedAt : T, lastSeen : T], NEW n \in T
  PROVE  LET d == [c EXCEPT !.lastSeen = n]
         IN  /\ d \in [sid : S, user : U, issuedAt : T, lastSeen : T]
             /\ d.sid = c.sid /\ d.user = c.user /\ d.issuedAt = c.issuedAt /\ d.lastSeen = n
OBVIOUS

\* The cookie a judged call is answered with.
LEMMA SlidFits ==
  ASSUME NEW b, Sound(b), NEW c, QuestionFits(c, b, now, signedOut), c.stage = "judged"
  PROVE  /\ CookieFits(slid(c), b, now) /\ c.stamp \in 0..now
         /\ slid(c).sid = c.cookie.sid /\ slid(c).issuedAt = c.cookie.issuedAt
         /\ slid(c).lastSeen = IF c.background THEN c.cookie.lastSeen ELSE c.stamp
<1>1. /\ CookieFits(c.cookie, b, now) /\ c.stamp \in Time /\ c.cookie.lastSeen <= c.stamp /\ c.stamp <= now
      /\ c.cookie \in Session /\ c.background \in BOOLEAN
  BY DEF QuestionFits, CookieFits
<1>2. /\ c.stamp \in Nat /\ now \in Nat /\ c.cookie.issuedAt \in Nat /\ c.cookie.lastSeen \in Nat
      /\ c.cookie.issuedAt <= c.cookie.lastSeen
  BY <1>1, LimitTypes DEF Sound, Counted, CookieFits, Session
<1>3. CASE c.background
  BY <1>1, <1>2, <1>3 DEF slid
<1>4. CASE ~c.background
  <2>. DEFINE d == [c.cookie EXCEPT !.lastSeen = c.stamp]
  <2>1. slid(c) = d
    BY <1>4 DEF slid
  <2>2. /\ d \in Session /\ d.sid = c.cookie.sid /\ d.user = c.cookie.user
        /\ d.issuedAt = c.cookie.issuedAt /\ d.lastSeen = c.stamp
    <3>. DEFINE T == Time
                S == Sids
                n == c.stamp
                cookie == c.cookie
                e == [cookie EXCEPT !.lastSeen = n]
    <3>1. Session = [sid : S, user : Users, issuedAt : T, lastSeen : T] /\ n \in T /\ cookie \in Session
      BY <1>1 DEF Session
    <3>. HIDE DEF T, S, n, cookie
    <3>2. e \in Session /\ e.sid = cookie.sid /\ e.user = cookie.user /\ e.issuedAt = cookie.issuedAt /\ e.lastSeen = n
      BY <3>1
    <3>. QED
      BY <3>2 DEF cookie, n
  <2>. HIDE DEF d
  <2>3. d.issuedAt <= d.lastSeen /\ d.lastSeen <= now
    BY <1>1, <1>2, <2>2
  <2>4. CookieFits(d, b, now)
    BY <1>1, <2>2, <2>3 DEF CookieFits
  <2>. QED
    BY <1>1, <1>2, <1>4, <2>1, <2>2, <2>4
<1>. QED
  BY <1>3, <1>4

\* A call that is judged keeps the invariant, perhaps with a longer book.
LEMMA JudgedKeeps ==
  ASSUME NEW b, Sound(b), NEW s \in Slots, judged(s)
  PROVE  \E d : Sound(d)'
<1>. DEFINE c == calls[s]
<1>1. c.stage = "judged" /\ UNCHANGED <<deployment, now, jar, tabs, disturbed>>
  BY DEF judged
<1>2. QuestionFits(c, b, now, signedOut)
  BY <1>1, StageTells DEF Sound, Booked
<1>3. CookieFits(c.cookie, b, now) /\ c.cookie \in Session /\ c.cookie # NoToken
  BY <1>1, <1>2, NoTokenAssumption DEF QuestionFits, CookieFits, NoTokenAssumption
<1>4. now \in Nat /\ driven \in Nat /\ driven <= now
  BY LimitTypes DEF Sound, Counted
<1>5. Grown(b, b) /\ b \in BookOf(started) /\ started \in 0..MaxSid /\ driven \in 0..now
      /\ ListFits(revoked, signedOut, b, now)
  BY GrownSelf DEF Sound, Booked, Counted
<1>6. CASE isRevoked(c.cookie.sid) /\ resolveSession(s) /\ UNCHANGED <<revoked, signedOut>>
  BY <1>1, <1>6, ResolveKeeps
<1>7. CASE /\ ~isRevoked(c.cookie.sid) /\ c.kind = "logout" /\ revokeSession(c.cookie.sid, c.cookie.issuedAt + Absolute)
           /\ signedOut' = signedOut \cup {c.cookie.sid} /\ respond(s, "ok", NoToken) /\ UNCHANGED <<driven, started>>
  <2>. DEFINE a == AnswerTo(c, "ok", NoToken)
  <2>1. /\ a.stage = "answered" /\ a.kind = "logout" /\ a.tab = c.tab /\ a.answer = "ok" /\ a.token = NoToken
        /\ a = [stage |-> a.stage, kind |-> a.kind, tab |-> a.tab, answer |-> a.answer, token |-> a.token]
    BY <1>7, AnswerParts
  <2>2. calls' = [calls EXCEPT ![s] = a]
    BY <1>7, RespondsWith
  <2>. HIDE DEF a
  <2>3. CallFits(a, b, now, signedOut')
    <3>1. a.kind \in Kinds /\ a.tab \in Tabs
      BY <1>2, <2>1 DEF QuestionFits, Kinds
    <3>2. AnswerFits(a, b, now)
      BY <2>1, <3>1 DEF AnswerFits, JarFits
    <3>. QED
      BY <3>2 DEF CallFits
  <2>4. c.cookie.sid \in DOMAIN b /\ c.cookie.issuedAt = b[c.cookie.sid].issuedAt
    BY <1>3 DEF CookieFits
  <2>a. ListFits({entry \in revoked : entry.expiresAt > now}
                   \cup {[sid |-> c.cookie.sid, expiresAt |-> c.cookie.issuedAt + Absolute]},
                 signedOut \cup {c.cookie.sid}, b, now)
    BY <1>4, <1>5, <2>4, SignedOutIsListed
  <2>5. ListFits(revoked', signedOut', b, now)
    BY <1>7, <2>a DEF revokeSession
  <2>6. CallIsQuiet(a, tabs, now, driven', signedOut') /\ Replaces(a)
    BY <2>1 DEF CallIsQuiet, Replaces
  <2>7. Sound(b)'
    BY <1>1, <1>5, <1>7, <2>2, <2>3, <2>5, <2>6, ServerKeeps
  <2>. QED
    BY <2>7
<1>8. CASE /\ ~isRevoked(c.cookie.sid) /\ c.kind # "logout" /\ serve(s, slid(c), c.stamp)
           /\ UNCHANGED <<revoked, signedOut, started>>
  <2>a. PICK session : session = slid(c)
    OBVIOUS
  <2>1. /\ CookieFits(session, b, now) /\ c.stamp \in 0..now
        /\ session.sid = c.cookie.sid /\ session.issuedAt = c.cookie.issuedAt
        /\ session.lastSeen = IF c.background THEN c.cookie.lastSeen ELSE c.stamp
    BY <1>1, <1>2, <2>a, SlidFits
  <2>2. ASSUME disturbed = 0, Quiet
        PROVE  /\ Current(session, driven, signedOut)
               /\ ~c.background => c.stamp <= session.lastSeen
               /\ Recent(session, tabs) \/ c.kind = "resume"
    <3>1. /\ Recent(c.cookie, tabs) /\ Current(c.cookie, driven, signedOut) /\ c.stamp = now
          /\ c.kind \notin {"login", "resume"} /\ ~c.background => tabs[c.tab].active >= now
      BY <1>1, <1>3, <2>2 DEF Quiet, CallIsQuiet
    <3>2. CASE c.background
      BY <2>1, <3>1, <3>2 DEF Current, Recent
    <3>3. CASE ~c.background
      <4>1. session.lastSeen = now
        BY <2>1, <3>1, <3>3
      <4>2. Current(session, driven, signedOut) /\ c.stamp <= session.lastSeen
        BY <1>4, <2>1, <3>1, <4>1 DEF Current
      <4>3. c.kind # "login" /\ c.tab \in Tabs
        BY <1>1, <1>2 DEF QuestionFits
      <4>4. ASSUME c.kind # "resume"
            PROVE  Recent(session, tabs)
        <5>1. tabs[c.tab].active >= now /\ tabs[c.tab].active \in Nat
          BY <3>1, <3>3, <4>3, <4>4, LimitTypes DEF Sound, Booked, TabFits, Tab
        <5>2. session.lastSeen <= tabs[c.tab].active
          BY <1>4, <4>1, <5>1
        <5>. QED
          BY <4>3, <5>2 DEF Recent
      <4>. QED
        BY <3>3, <4>2, <4>4
    <3>. QED
      BY <3>2, <3>3
  <2>3. serve(s, session, c.stamp)
    BY <1>8, <2>a
  <2>b. PICK stamp \in 0..now : stamp = c.stamp
    BY <2>1
  <2>4. Sound(b)'
    BY <1>1, <1>5, <1>8, <2>1, <2>2, <2>3, <2>b, ServeKeeps
  <2>. QED
    BY <2>4
<1>9. CASE storeFails(s)
  <2>1. PICK answer \in {"ok", "refused"} : respond(s, answer, NoToken) /\ (answer = "ok" => c.kind = "logout")
    BY <1>9 DEF storeFails
  <2>2. UNCHANGED <<started, revoked, signedOut, driven>>
    BY <1>9 DEF storeFails
  <2>3. Sound(b)'
    BY <1>1, <1>5, <2>1, <2>2, TokenlessKeeps
  <2>. QED
    BY <2>3
<1>. QED
  BY <1>6, <1>7, <1>8, <1>9 DEF judged

\* Somebody signs in with a password.
LEMMA LoginKeeps ==
  ASSUME NEW b, Sound(b), NEW s \in Slots, loginArrives(s)
  PROVE  \E d : Sound(d)'
<1>1. /\ calls[s].stage = "sent" /\ calls[s].kind = "login"
      /\ UNCHANGED <<deployment, now, revoked, jar, tabs, signedOut, disturbed>>
  BY DEF loginArrives
<1>2. calls[s].user \in Users
  BY <1>1, StageTells DEF Sound, Booked, QuestionFits
<1>3. CASE /\ started < MaxSid /\ started' = started + 1 /\ driven' = now
           /\ respond(s, "ok", startSession(calls[s].user))
  <2>a. PICK d : d = Entered(b, started, calls[s].user, now)
    OBVIOUS
  <2>b. PICK token : token = startSession(calls[s].user)
    OBVIOUS
  <2>1. /\ d \in BookOf(started + 1) /\ Grown(b, d) /\ started + 1 \in 0..MaxSid
        /\ CookieFits(token, d, now) /\ ListFits(revoked, signedOut, d, now)
        /\ started + 1 \notin signedOut /\ token.sid = started + 1 /\ token.lastSeen = now
        /\ Recent(token, tabs)
    BY <1>2, <1>3, <2>a, <2>b, SessionStarts
  <2>2. driven' \in 0..now /\ driven' <= token.lastSeen
    BY <1>3, <2>1, LimitTypes DEF Sound, Counted
  <2>3. Current(token, driven', signedOut)
    BY <2>1, <2>2 DEF Current
  <2>4. Sound(d)'
    BY <1>1, <1>3, <2>b, <2>1, <2>2, <2>3, ServedKeeps
  <2>. QED
    BY <2>4
<1>4. CASE respond(s, "refused", NoToken) /\ UNCHANGED <<started, driven>>
  <2>1. Grown(b, b) /\ b \in BookOf(started') /\ started' \in 0..MaxSid /\ ListFits(revoked, signedOut, b, now)
    BY <1>4, GrownSelf DEF Sound, Booked, Counted
  <2>2. Sound(b)'
    BY <1>1, <1>4, <2>1, TokenlessKeeps
  <2>. QED
    BY <2>2
<1>. QED
  BY <1>3, <1>4 DEF loginArrives

-----------------------------------------------------------------------------
(* The invariant, and the type of every variable.                          *)

\* The invariant gives a book,
LEMMA SoundIs ==
  ASSUME SessionsInv, QuietInv
  PROVE  \E b : Sound(b)
BY DEF SessionsInv, Sound

\* and a book gives the invariant.
LEMMA SoundMeans ==
  ASSUME NEW b, Sound(b)'
  PROVE  SessionsInv' /\ QuietInv'
BY DEF SessionsInv, Sound

\* Nobody has signed in yet, and the book is empty.
LEMMA SessionsInitGood == Init => SessionsInv /\ QuietInv
<1>. SUFFICES ASSUME Init PROVE SessionsInv /\ QuietInv
  OBVIOUS
<1>1. now = 0 /\ now \in Time /\ now \in Nat
  BY LimitTypes DEF Init
<1>2. Counted
  BY <1>1, LimitTypes DEF Init, Counted
<1>. DEFINE b == [j \in 1..0 |-> [user |-> Nobody, issuedAt |-> 0]]
<1>3. b \in BookOf(started) /\ DOMAIN b = {}
  BY DEF Init, BookOf
<1>. HIDE DEF b
<1>4. \A t \in Tabs : tabs[t] = Fresh
  BY DEF Init
<1>5. Fresh.user = Nobody /\ Fresh.csrf = 0 /\ Fresh.active = now /\ Fresh \in Tab
  BY <1>1 DEF Fresh, Tab
<1>6. \A t \in Tabs : TabFits(tabs[t], b, now)
  BY <1>1, <1>4, <1>5 DEF TabFits
<1>7. \A s \in Slots : calls[s] = NoCall
  BY DEF Init
<1>8. \A s \in Slots : CallFits(calls[s], b, now, signedOut)
  BY <1>7, NoCallFits
<1>9. JarFits(jar, b, now) /\ ListFits(revoked, signedOut, b, now)
  BY DEF Init, JarFits, ListFits
<1>10. Booked(b)
  BY <1>3, <1>6, <1>8, <1>9 DEF Booked
<1>11. Quiet
  <2>1. OneCall(calls) /\ \A s \in Slots : CallIsQuiet(calls[s], tabs, now, driven, signedOut)
    BY <1>7, NoCallIsQuiet DEF OneCall, CallIsQuiet
  <2>2. JarIsQuiet(jar, tabs, driven, signedOut)
    BY DEF Init, JarIsQuiet
  <2>. QED
    BY <2>1, <2>2 DEF Quiet
<1>. QED
  BY <1>2, <1>10, <1>11 DEF SessionsInv, QuietInv

\* Every step of the page, of the server and of the clock keeps it.
LEMMA SessionsNextGood ==
  ASSUME SessionsInv, QuietInv, [Next]_svars
  PROVE  SessionsInv' /\ QuietInv'
<1>1. PICK b : Sound(b)
  BY SoundIs
<1>2. ASSUME NEW t \in Tabs, load(t) \/ touch(t) \/ idleTimer(t)
      PROVE  Sound(b)'
  BY <1>1, <1>2, LoadKeeps, TouchKeeps
<1>3. ASSUME NEW t \in Tabs, read(t) \/ write(t) \/ signOut(t)
      PROVE  Sound(b)'
  <2>1. PICK kind \in {"read", "write", "logout"} : Usable(t) /\ send(kind, t, Nobody, FALSE)
    BY <1>3 DEF read, write, signOut
  <2>2. /\ kind \in Kinds /\ kind # "login" /\ tabs[t].user # Nobody /\ ~tabs[t].expired
        /\ Nobody \in Users \cup {Nobody} /\ FALSE \in BOOLEAN
    BY <2>1 DEF Usable, Kinds
  <2>. QED
    BY <1>1, <2>1, <2>2, SendKeeps
<1>4. ASSUME NEW t \in Tabs, resumeSession(t)
      PROVE  Sound(b)'
  <2>1. /\ send("resume", t, Nobody, FALSE) /\ "resume" \in Kinds
        /\ Nobody \in Users \cup {Nobody} /\ FALSE \in BOOLEAN
    BY <1>4 DEF resumeSession, Kinds
  <2>. QED
    BY <1>1, <2>1, SendKeeps
<1>5. ASSUME NEW t \in Tabs, autosave(t)
      PROVE  Sound(b)'
  <2>. DEFINE background == tabs[t].active < now
  <2>1. /\ send("write", t, Nobody, background) /\ "write" \in Kinds /\ tabs[t].user # Nobody
        /\ Nobody \in Users \cup {Nobody} /\ background \in BOOLEAN
    BY <1>5 DEF autosave, Kinds
  <2>2. tabs[t].active \in Nat /\ now \in Nat
    BY <1>1, LimitTypes DEF Sound, Counted, Booked, TabFits, Tab
  <2>3. ~background => tabs[t].active >= now
    BY <2>2
  <2>. HIDE DEF background
  <2>. QED
    BY <1>1, <2>1, <2>3, SendKeeps
<1>6. ASSUME NEW t \in Tabs, NEW u \in Users, signIn(t, u)
      PROVE  Sound(b)'
  <2>1. send("login", t, u, FALSE) /\ "login" \in Kinds /\ u \in Users \cup {Nobody} /\ FALSE \in BOOLEAN
    BY <1>6 DEF signIn, Kinds
  <2>. QED
    BY <1>1, <2>1, SendKeeps
<1>7. ASSUME NEW s \in Slots, arrives(s) \/ judged(s) \/ loginArrives(s)
      PROVE  \E d : Sound(d)'
  BY <1>1, <1>7, ArrivesKeeps, JudgedKeeps, LoginKeeps
<1>8. ASSUME NEW s \in Slots, answered(s) \/ Lose(s)
      PROVE  Sound(b)'
  BY <1>1, <1>8, AnsweredKeeps, LoseKeeps
<1>9. CASE Tick
  BY <1>1, <1>9, TickKeeps, SoundMeans
<1>10. CASE UNCHANGED svars
  BY <1>10 DEF svars, SessionsInv, QuietInv, Counted, Booked, Quiet, Slots
<1>11. CASE \E t \in Tabs : \/ load(t) \/ read(t) \/ write(t) \/ signOut(t) \/ resumeSession(t)
                            \/ autosave(t) \/ touch(t) \/ idleTimer(t)
                            \/ \E u \in Users : signIn(t, u)
  <2>1. Sound(b)'
    BY <1>2, <1>3, <1>4, <1>5, <1>6, <1>11
  <2>. QED
    BY <2>1, SoundMeans
<1>12. CASE \E s \in Slots : arrives(s) \/ judged(s) \/ loginArrives(s) \/ answered(s) \/ Lose(s)
  <2>1. \E d : Sound(d)'
    BY <1>7, <1>8, <1>12
  <2>. QED
    BY <2>1, SoundMeans
<1>. QED
  BY <1>9, <1>10, <1>11, <1>12 DEF Next

\* At any moment some book explains every cookie, every token a tab
\* remembers and every call that is under way; and while calls neither
\* overlap nor are lost or delayed, the jar holds the latest cookie.
THEOREM SessionsInvAlways == Spec => [](SessionsInv /\ QuietInv)
<1>1. SessionsInv /\ QuietInv /\ [Next]_svars => (SessionsInv /\ QuietInv)'
  BY SessionsNextGood
<1>. QED
  BY SessionsInitGood, <1>1, PTL DEF Spec

\* Every variable keeps its type, no cookie is of a session that was never
\* started, and the revocation list holds only sessions that were signed out.
THEOREM SessionsTypeCorrect == Spec => []SessionsTypeOK
<1>1. SessionsInv => SessionsTypeOK
  <2>. SUFFICES ASSUME SessionsInv PROVE SessionsTypeOK
    OBVIOUS
  <2>1. PICK b : Booked(b)
    BY DEF SessionsInv
  <2>2. Counted
    BY DEF SessionsInv
  <2>3. started \in Nat /\ DOMAIN b = 1..started /\ now \in Nat /\ now <= MaxTime /\ now \in Time
    BY <2>1, <2>2, LimitTypes DEF Counted, Booked, BookOf, Time
  <2>4. driven \in Time
    BY <2>2, <2>3, LimitTypes DEF Counted, Time
  <2>5. ASSUME NEW c, JarFits(c, b, now), c # NoToken
        PROVE  c \in Session /\ c.sid <= started /\ c.issuedAt <= c.lastSeen
    BY <2>3, <2>5 DEF JarFits, CookieFits
  <2>6. ASSUME NEW c \in Cookies \ {NoToken}
        PROVE  c \in Session /\ c.sid <= started /\ c.issuedAt <= c.lastSeen
    <3>1. CASE c = jar
      BY <2>1, <2>5, <2>6, <3>1 DEF Booked
    <3>2. ASSUME NEW s \in Slots \ Free,
                 c = IF calls[s].stage = "answered" THEN calls[s].token ELSE calls[s].cookie
          PROVE  JarFits(c, b, now)
      <4>1. calls[s] # NoCall /\ CallFits(calls[s], b, now, signedOut)
        BY <2>1, <3>2 DEF Free, Booked
      <4>2. CASE QuestionFits(calls[s], b, now, signedOut)
        BY <3>2, <4>2 DEF QuestionFits
      <4>3. CASE AnswerFits(calls[s], b, now)
        BY <3>2, <4>3 DEF AnswerFits
      <4>. QED
        BY <4>1, <4>2, <4>3 DEF CallFits
    <3>. QED
      BY <2>5, <2>6, <3>1, <3>2 DEF Cookies
  <2>7. ASSUME NEW entry \in revoked
        PROVE  entry.sid \in signedOut /\ entry.expiresAt \in 0..MaxTime + Absolute
    <3>1. /\ entry.sid \in signedOut /\ entry.sid \in DOMAIN b
          /\ entry.expiresAt = b[entry.sid].issuedAt + Absolute
      BY <2>1 DEF Booked, ListFits
    <3>2. b[entry.sid].issuedAt \in Time
      BY <2>1, <3>1 DEF Booked, BookOf
    <3>3. b[entry.sid].issuedAt \in Nat /\ b[entry.sid].issuedAt <= MaxTime
      BY <3>2, LimitTypes DEF Time
    <3>. QED
      BY <3>1, <3>3, LimitTypes
  <2>8. \A t \in Tabs : tabs[t] \in Tab
    BY <2>1 DEF Booked, TabFits
  <2>. QED
    BY <2>2, <2>3, <2>4, <2>6, <2>7, <2>8 DEF SessionsTypeOK, Counted
<1>. QED
  BY SessionsInvAlways, <1>1, PTL

-----------------------------------------------------------------------------
(* How a call is answered.                                                 *)

\* Only the server answers, and one call at a time.
LEMMA ServerAnswers ==
  ASSUME SessionsInv, Next, NEW s \in Slots, Answers(s)
  PROVE  arrives(s) \/ judged(s) \/ loginArrives(s)
<1>1. calls = [r \in Slots |-> calls[r]]
  BY DEF SessionsInv, Counted
<1>2. calls[s].stage \in {"sent", "judged"} /\ calls'[s].stage = "answered"
  BY DEF Answers
<1>3. ASSUME NEW m, NEW c, c.stage # "answered", calls' = [calls EXCEPT ![m] = c]
      PROVE  FALSE
  <2>1. calls'[s] = IF s = m THEN c ELSE calls[s]
    BY <1>1, <1>3, OneWritten
  <2>. QED
    BY <1>2, <1>3, <2>1
<1>4. ASSUME NEW t \in Tabs, NEW kind, NEW user, NEW background, send(kind, t, user, background)
      PROVE  FALSE
  <2>1. PICK c : c = NewCall(kind, t, user, background)
    OBVIOUS
  <2>2. c.stage # "answered"
    BY <2>1 DEF NewCall
  <2>3. calls' = [calls EXCEPT ![Min(Free)] = c]
    BY <1>4, <2>1 DEF send
  <2>. QED
    BY <1>3, <2>2, <2>3
<1>5. ASSUME NEW t \in Tabs, load(t)
      PROVE  FALSE
  <2>1. PICK c : c = [NewCall("load", t, Nobody, FALSE) EXCEPT !.csrf = 0]
    OBVIOUS
  <2>2. c.stage # "answered"
    BY <2>1 DEF NewCall
  <2>3. calls' = [calls EXCEPT ![Min(Free)] = c]
    BY <1>5, <2>1 DEF load
  <2>. QED
    BY <1>3, <2>2, <2>3
<1>6. ASSUME NEW t \in Tabs, touch(t) \/ idleTimer(t)
      PROVE  FALSE
  BY <1>2, <1>6 DEF touch, idleTimer
<1>7. CASE Tick
  BY <1>2, <1>7 DEF Tick
<1>8. ASSUME NEW r \in Slots, answered(r) \/ Lose(r)
      PROVE  FALSE
  <2>1. calls' = [calls EXCEPT ![r] = NoCall] /\ NoCall.stage # "answered"
    BY <1>8, NoCallIsQuiet DEF answered, Lose
  <2>. QED
    BY <1>3, <2>1
<1>9. ASSUME NEW r \in Slots, r # s, arrives(r) \/ judged(r) \/ loginArrives(r)
      PROVE  FALSE
  <2>1. \E a : calls' = [calls EXCEPT ![r] = a]
    <3>1. \A answer, token : respond(r, answer, token) => \E a : calls' = [calls EXCEPT ![r] = a]
      BY DEF respond
    <3>2. \A session, stamp : serve(r, session, stamp) => \E a : calls' = [calls EXCEPT ![r] = a]
      BY <3>1 DEF serve
    <3>3. resolveSession(r) => \E a : calls' = [calls EXCEPT ![r] = a]
      BY <3>1, <3>2 DEF resolveSession
    <3>4. CASE arrives(r)
      BY <3>3, <3>4 DEF arrives
    <3>5. CASE judged(r)
      BY <3>1, <3>2, <3>3, <3>5 DEF judged, storeFails
    <3>6. CASE loginArrives(r)
      BY <3>1, <3>6 DEF loginArrives
    <3>. QED
      BY <1>9, <3>4, <3>5, <3>6
  <2>2. calls'[s] = calls[s]
    BY <1>1, <1>9, <2>1
  <2>. QED
    BY <1>2, <2>2
<1>. QED
  BY <1>4, <1>5, <1>6, <1>7, <1>8, <1>9
     DEF Next, read, write, signOut, resumeSession, autosave, signIn

\* What the answer may be.
Nothing(s) == calls'[s].token = NoToken /\ calls'[s].answer # "ended"

Ended(s) ==
  /\ calls'[s].token = NoToken /\ deployment = Password
  /\ \/ calls[s].cookie = NoToken
     \/ TooOld(calls[s].cookie, now)
     \/ calls[s].stage = "judged" /\ isRevoked(calls[s].cookie.sid)

Starts(s) ==
  /\ deployment \in Users /\ started < MaxSid
  /\ calls'[s].token = startSession(deployment) /\ calls'[s].answer = "ok"
  /\ ~csrfFailure(s, startSession(deployment))

SignsIn(s) ==
  /\ calls[s].stage = "sent" /\ calls[s].kind = "login" /\ started < MaxSid
  /\ calls'[s].token = startSession(calls[s].user) /\ calls'[s].answer = "ok"

Slides(s) ==
  /\ calls[s].stage = "judged" /\ ~isRevoked(calls[s].cookie.sid)
  /\ calls'[s].token = slid(calls[s]) /\ calls'[s].answer = "ok"
  /\ ~csrfFailure(s, slid(calls[s]))

\* What serving a call can come to.
LEMMA Outcome ==
  ASSUME SessionsInv, Next, NEW s \in Slots, Answers(s)
  PROVE  Nothing(s) \/ Ended(s) \/ Starts(s) \/ SignsIn(s) \/ Slides(s)
<1>1. calls = [r \in Slots |-> calls[r]] /\ deployment \in Users \cup {Password}
  BY DEF SessionsInv, Counted
<1>2. ASSUME NEW answer, NEW token, respond(s, answer, token)
      PROVE  calls'[s].token = token /\ calls'[s].answer = answer
  <2>1. calls' = [calls EXCEPT ![s] = AnswerTo(calls[s], answer, token)]
    BY <1>2, RespondsWith
  <2>2. calls'[s] = AnswerTo(calls[s], answer, token)
    BY <1>1, <2>1
  <2>. QED
    BY <2>2, AnswerParts
<1>3. ASSUME NEW session, NEW stamp, serve(s, session, stamp)
      PROVE  \/ Nothing(s)
             \/ ~csrfFailure(s, session) /\ calls'[s].token = session /\ calls'[s].answer = "ok"
  <2>1. CASE respond(s, "refused", NoToken)
    BY <1>2, <2>1 DEF Nothing
  <2>2. CASE ~csrfFailure(s, session) /\ respond(s, "ok", session)
    BY <1>2, <2>2
  <2>. QED
    BY <1>3, <2>1, <2>2 DEF serve
<1>4. ASSUME resolveSession(s),
             \/ calls[s].cookie = NoToken \/ TooOld(calls[s].cookie, now)
             \/ calls[s].stage = "judged" /\ isRevoked(calls[s].cookie.sid)
      PROVE  Nothing(s) \/ Ended(s) \/ Starts(s)
  <2>1. CASE /\ deployment # Password /\ started < MaxSid
             /\ serve(s, startSession(deployment), now)
    <3>1. deployment \in Users
      BY <1>1, <2>1
    <3>. QED
      BY <1>3, <2>1, <3>1 DEF Starts
  <2>2. CASE respond(s, "refused", NoToken)
    BY <1>2, <2>2 DEF Nothing
  <2>3. CASE /\ deployment = Password \/ calls[s].kind = "logout"
             /\ respond(s, IF calls[s].kind = "logout" THEN "ok" ELSE "ended", NoToken)
    <3>1. CASE calls[s].kind = "logout"
      <4>1. respond(s, "ok", NoToken)
        BY <2>3, <3>1
      <4>. QED
        BY <1>2, <4>1 DEF Nothing
    <3>2. CASE calls[s].kind # "logout"
      <4>1. respond(s, "ended", NoToken) /\ deployment = Password
        BY <2>3, <3>2
      <4>2. calls'[s].token = NoToken
        BY <1>2, <4>1
      <4>. QED
        BY <1>4, <4>1, <4>2 DEF Ended
    <3>. QED
      BY <3>1, <3>2
  <2>. QED
    BY <1>4, <2>1, <2>2, <2>3 DEF resolveSession
<1>5. CASE arrives(s)
  <2>1. CASE calls[s].cookie = NoToken \/ TooOld(calls[s].cookie, now)
    BY <1>4, <1>5, <2>1 DEF arrives
  <2>2. CASE ~(calls[s].cookie = NoToken \/ TooOld(calls[s].cookie, now))
    <3>1. PICK a : a = [calls[s] EXCEPT !.stage = "judged", !.stamp = now,
                                        !.late = (calls[s].cookie.sid \in signedOut)]
      OBVIOUS
    <3>2. calls' = [calls EXCEPT ![s] = a]
      BY <1>5, <2>2, <3>1 DEF arrives
    <3>3. PICK b : Booked(b)
      BY DEF SessionsInv
    <3>4. QuestionFits(calls[s], b, now, signedOut)
      BY <1>5, <3>3, StageTells DEF arrives, Booked
    <3>5. a.stage = "judged"
      BY <3>1, <3>4 DEF QuestionFits
    <3>6. calls'[s].stage = "judged"
      BY <1>1, <3>2, <3>5
    <3>. QED
      BY <3>6 DEF Answers
  <2>. QED
    BY <2>1, <2>2
<1>6. CASE judged(s)
  <2>1. calls[s].stage = "judged"
    BY <1>6 DEF judged
  <2>2. CASE isRevoked(calls[s].cookie.sid) /\ resolveSession(s)
    BY <1>4, <2>1, <2>2
  <2>3. CASE respond(s, "ok", NoToken)
    BY <1>2, <2>3 DEF Nothing
  <2>4. CASE ~isRevoked(calls[s].cookie.sid) /\ serve(s, slid(calls[s]), calls[s].stamp)
    BY <1>3, <2>1, <2>4 DEF Slides
  <2>5. CASE storeFails(s)
    BY <1>2, <2>5 DEF storeFails, Nothing
  <2>. QED
    BY <1>6, <2>2, <2>3, <2>4, <2>5 DEF judged
<1>7. CASE loginArrives(s)
  <2>1. CASE started < MaxSid /\ respond(s, "ok", startSession(calls[s].user))
    BY <1>2, <1>7, <2>1 DEF SignsIn, loginArrives
  <2>2. CASE respond(s, "refused", NoToken)
    BY <1>2, <2>2 DEF Nothing
  <2>. QED
    BY <1>7, <2>1, <2>2 DEF loginArrives
<1>. QED
  BY <1>5, <1>6, <1>7, ServerAnswers

-----------------------------------------------------------------------------
(* The properties.                                                         *)

\* A session that was signed out before a call of its arrived is not served
\* by that call: RevokedStaysOut, however late which answers come back.
THEOREM RevokedStayOut == Spec => RevokedStaysOut
<1>1. ASSUME SessionsInv, QuietInv, [Next]_svars, NEW s \in Slots, Answers(s), calls[s].late
      PROVE  \/ calls'[s].token = NoToken
             \/ calls'[s].token.sid # calls[s].cookie.sid
             \/ now >= calls[s].cookie.issuedAt + Absolute
  <2>1. PICK b : Sound(b)
    BY <1>1, SoundIs
  <2>2. Next
    BY <1>1 DEF svars, Answers
  <2>3. QuestionFits(calls[s], b, now, signedOut)
    BY <1>1, <2>1, StageTells DEF Answers, Sound, Booked
  <2>4. /\ calls[s].stage = "judged" /\ CookieFits(calls[s].cookie, b, now)
        /\ calls[s].cookie.sid \in signedOut
    BY <1>1, <2>3 DEF QuestionFits
  <2>5. CASE Nothing(s) \/ Ended(s)
    BY <2>5 DEF Nothing, Ended
  <2>6. CASE Starts(s)
    <3>1. calls'[s].token.sid = started + 1 /\ started + 1 \notin signedOut
      BY <2>1, <2>6, SessionStarts DEF Starts
    <3>. QED
      BY <2>4, <3>1
  <2>7. CASE SignsIn(s)
    BY <2>4, <2>7 DEF SignsIn
  <2>8. CASE Slides(s)
    <3>. DEFINE sid == calls[s].cookie.sid
    <3>1. \A entry \in revoked : entry.sid = sid => ~(entry.expiresAt > now)
      BY <2>8 DEF Slides, isRevoked
    <3>2. b[sid].issuedAt = calls[s].cookie.issuedAt /\ b[sid].issuedAt \in Nat /\ now \in Nat
      BY <2>1, <2>4, LimitTypes DEF CookieFits, Session, Sound, Counted
    <3>3. CASE \E entry \in revoked : entry.sid = sid
      <4>1. PICK entry \in revoked : entry.sid = sid
        BY <3>3
      <4>2. entry.expiresAt = b[sid].issuedAt + Absolute /\ ~(entry.expiresAt > now)
        BY <2>1, <3>1, <4>1 DEF Sound, Booked, ListFits
      <4>. QED
        BY <3>2, <4>2, LimitTypes
    <3>4. CASE now >= b[sid].issuedAt + Absolute
      BY <3>2, <3>4
    <3>. QED
      BY <2>1, <2>4, <3>3, <3>4 DEF Sound, Booked, ListFits
  <2>. QED
    BY <1>1, <2>2, <2>5, <2>6, <2>7, <2>8, Outcome
<1>2. SessionsInv /\ QuietInv /\ [Next]_svars
        => \A s \in Slots : Answers(s) /\ calls[s].late =>
             \/ calls'[s].token = NoToken
             \/ calls'[s].token.sid # calls[s].cookie.sid
             \/ now >= calls[s].cookie.issuedAt + Absolute
  BY <1>1
<1>. QED
  BY SessionsInvAlways, <1>2, PTL DEF Spec, RevokedStaysOut

\* A mutation that is served is done as the person its tab showed when it was
\* sent: ActsAsShown.  The CSRF token of the tab and the cookie of the
\* browser are of one session, and the book knows whose.
THEOREM ActAsShown == Spec => ActsAsShown
<1>1. ASSUME SessionsInv, QuietInv, [Next]_svars, NEW s \in Slots, Serves(s), calls[s].kind = "write"
      PROVE  calls[s].shown = calls'[s].token.user
  <2>1. PICK b : Sound(b)
    BY <1>1, SoundIs
  <2>2. Next /\ Answers(s) /\ calls'[s].token # NoToken
    BY <1>1 DEF svars, Serves, Answers
  <2>3. QuestionFits(calls[s], b, now, signedOut)
    BY <2>1, <2>2, StageTells DEF Answers, Sound, Booked
  <2>4. calls[s].csrf \in DOMAIN b /\ calls[s].shown = b[calls[s].csrf].user
    BY <1>1, <2>3 DEF QuestionFits
  <2>5. CASE Nothing(s) \/ Ended(s)
    BY <2>2, <2>5 DEF Nothing, Ended
  <2>6. CASE Starts(s)
    <3>1. startSession(deployment).sid = started + 1 /\ started + 1 \notin DOMAIN b
      BY <2>1, <2>6, SessionStarts DEF Starts
    <3>2. calls[s].csrf = startSession(deployment).sid
      BY <1>1, <2>6 DEF Starts, csrfFailure
    <3>. QED
      BY <2>4, <3>1, <3>2
  <2>7. CASE SignsIn(s)
    BY <1>1, <2>7 DEF SignsIn
  <2>8. CASE Slides(s)
    <3>1. calls[s].csrf = slid(calls[s]).sid
      BY <1>1, <2>8 DEF Slides, csrfFailure
    <3>2. CookieFits(slid(calls[s]), b, now)
      BY <2>1, <2>3, <2>8, SlidFits DEF Slides
    <3>3. slid(calls[s]).user = b[slid(calls[s]).sid].user
      BY <3>2 DEF CookieFits
    <3>. QED
      BY <2>4, <2>8, <3>1, <3>3 DEF Slides
  <2>. QED
    BY <1>1, <2>2, <2>5, <2>6, <2>7, <2>8, Outcome
<1>2. SessionsInv /\ QuietInv /\ [Next]_svars
        => \A s \in Slots : Serves(s) /\ calls[s].kind = "write" => calls[s].shown = calls'[s].token.user
  BY <1>1
<1>. QED
  BY SessionsInvAlways, <1>2, PTL DEF Spec, ActsAsShown

\* A call made with the session its tab knows is turned away only if nothing
\* that somebody did was served for an hour, or the session is too old:
\* ActiveUserStaysIn.
THEOREM ActiveUsersStayIn == Spec => ActiveUserStaysIn
<1>1. ASSUME SessionsInv, QuietInv, [Next]_svars, NEW s \in Slots, Answers(s), disturbed = 0,
             calls[s].cookie # NoToken, calls[s].cookie.sid = calls[s].csrf,
             calls'[s].answer = "ended" \/ csrfFailure(s, calls[s].cookie)
      PROVE  now - driven > Idle \/ now - calls[s].cookie.issuedAt > Absolute
  <2>1. PICK b : Sound(b)
    BY <1>1, SoundIs
  <2>2. Next /\ calls'[s].answer = "ended" /\ calls[s].stage \in {"sent", "judged"}
    BY <1>1 DEF svars, Answers, csrfFailure
  <2>3. Ended(s)
    BY <1>1, <2>2, Outcome DEF Nothing, Starts, SignsIn, Slides
  <2>4. Current(calls[s].cookie, driven, signedOut)
    BY <1>1, <2>2 DEF QuietInv, Quiet, CallIsQuiet
  <2>5. ~isRevoked(calls[s].cookie.sid)
    BY <2>1, <2>4 DEF isRevoked, Current, Sound, Booked, ListFits
  <2>6. TooOld(calls[s].cookie, now)
    BY <1>1, <2>3, <2>5 DEF Ended
  <2>7. calls[s].cookie \in Session
    BY <1>1, <2>1, <2>2, StageTells DEF Sound, Booked, QuestionFits, JarFits, CookieFits
  <2>8. now \in Nat /\ driven \in Nat /\ calls[s].cookie.lastSeen \in Nat /\ calls[s].cookie.issuedAt \in Nat
    BY <2>1, <2>7, LimitTypes DEF Session, Sound, Counted
  <2>. QED
    BY <2>4, <2>6, <2>8, LimitTypes DEF TooOld, Current
<1>2. SessionsInv /\ QuietInv /\ [Next]_svars
        => \A s \in Slots :
             /\ Answers(s) /\ disturbed = 0
             /\ calls[s].cookie # NoToken /\ calls[s].cookie.sid = calls[s].csrf
             /\ calls'[s].answer = "ended" \/ csrfFailure(s, calls[s].cookie)
             => now - driven > Idle \/ now - calls[s].cookie.issuedAt > Absolute
  BY <1>1
<1>. QED
  BY SessionsInvAlways, <1>2, PTL DEF Spec, ActiveUserStaysIn

\* A non-empty set of naturals has a least element.
LEMMA LeastExists ==
  ASSUME NEW S \in SUBSET Nat, S # {}
  PROVE  \E m \in S : \A n \in S : m <= n
<1>. DEFINE R == OpToRel(<, Nat)
<1>1. IsWellFoundedOn(R, Nat)
  BY NatLessThanWellFounded
<1>2. \A m, n \in Nat : <<n, m>> \in R <=> n < m
  BY DEF OpToRel
<1>. HIDE DEF R
<1>3. PICK m \in S : \A n \in S : ~(<<n, m>> \in R)
  BY <1>1, WFMin
<1>4. ASSUME NEW n \in S  PROVE m <= n
  <2>1. m \in Nat /\ n \in Nat /\ ~(n < m)
    BY <1>2, <1>3
  <2>. QED
    BY <2>1
<1>. QED
  BY <1>4

\* And a bounded one has a greatest.
LEMMA GreatestExists ==
  ASSUME NEW n \in Nat, NEW S \in SUBSET (0..n), S # {}
  PROVE  \E m \in S : \A i \in S : i <= m
<1>. DEFINE T == {n - i : i \in S}
<1>1. T \in SUBSET Nat
  <2>1. \A i \in S : i \in Nat /\ i <= n
    OBVIOUS
  <2>. QED
    BY <2>1
<1>2. T # {}
  OBVIOUS
<1>3. PICK m \in S : \A j \in T : n - m <= j
  <2>1. PICK k \in T : \A j \in T : k <= j
    <3>. HIDE DEF T
    <3>. QED  BY <1>1, <1>2, LeastExists
  <2>. QED
    BY <2>1
<1>4. ASSUME NEW i \in S  PROVE i <= m
  <2>1. n - m <= n - i /\ i \in Nat /\ m \in Nat
    BY <1>3
  <2>. QED
    BY <2>1
<1>. QED
  BY <1>4

\* The largest of some numbers up to a bound.
LEMMA MaxOfBounded ==
  ASSUME NEW n \in Nat, NEW S \in SUBSET (0..n), NEW k \in S
  PROVE  Max(S) \in S /\ Max(S) >= k
<1>1. S # {}
  OBVIOUS
<1>2. PICK m \in S : \A i \in S : i <= m
  BY <1>1, GreatestExists
<1>3. \A i \in S : i \in Nat
  OBVIOUS
<1>4. \A i \in S : m >= i
  BY <1>2, <1>3
<1>5. \E x \in S : \A y \in S : x >= y
  BY <1>4
<1>. QED
  BY <1>5 DEF Max

\* An hour after anybody signed in or touched a tab, nothing the application
\* does on its own is served: UnattendedBrowserEnds.
THEOREM UnattendedBrowsersEnd == Spec => UnattendedBrowserEnds
<1>1. ASSUME SessionsInv, QuietInv, [Next]_svars, NEW s \in Slots,
             Serves(s), calls[s].background, disturbed = 0
      PROVE  now - Max({calls'[s].token.issuedAt} \cup {tabs[t].active : t \in Tabs}) <= Idle
  <2>1. PICK b : Sound(b)
    BY <1>1, SoundIs
  <2>2. Next /\ Answers(s) /\ calls'[s].token # NoToken /\ calls[s].stage \in {"sent", "judged"}
    BY <1>1 DEF svars, Serves, Answers
  <2>3. QuestionFits(calls[s], b, now, signedOut)
    BY <2>1, <2>2, StageTells DEF Sound, Booked
  <2>. DEFINE token == calls'[s].token
              S == {token.issuedAt} \cup {tabs[t].active : t \in Tabs}
  <2>4. now \in Nat /\ now \in Time /\ MaxTime \in Nat
    BY <2>1, LimitTypes DEF Sound, Counted
  <2>5. \A t \in Tabs : tabs[t].active \in Time
    BY <2>1 DEF Sound, Booked, TabFits, Tab
  <2>6. token.issuedAt \in Time /\ \E k \in S : now - k <= Idle
    <3>1. CASE Nothing(s) \/ Ended(s)
      BY <2>2, <3>1 DEF Nothing, Ended
    <3>2. CASE Starts(s) \/ SignsIn(s)
      <4>1. token.issuedAt = now
        BY <3>2 DEF Starts, SignsIn, startSession
      <4>2. now - now <= Idle
        BY <2>4, LimitTypes
      <4>. QED
        BY <2>4, <4>1, <4>2
    <3>3. CASE Slides(s)
      <4>1. token = calls[s].cookie /\ calls[s].stage = "judged"
        BY <1>1, <3>3 DEF Slides, slid
      <4>2. token \in Session /\ token # NoToken
        BY <2>2, <2>3, <4>1 DEF QuestionFits, CookieFits
      <4>3. calls[s].stamp = now /\ Recent(token, tabs)
        BY <1>1, <4>1, <4>2 DEF QuietInv, Quiet, CallIsQuiet
      <4>4. ~(now - token.lastSeen > Idle)
        BY <2>3, <4>1, <4>3 DEF QuestionFits, TooOld
      <4>5. token.lastSeen \in Nat /\ token.issuedAt \in Time /\ token.issuedAt \in Nat
        BY <4>2, LimitTypes DEF Session
      <4>6. PICK k \in S : token.lastSeen <= k
        BY <4>3 DEF Recent
      <4>7. k \in Nat
        BY <2>5, <4>5, LimitTypes
      <4>8. now - k <= Idle
        BY <2>4, <4>4, <4>5, <4>6, <4>7, LimitTypes
      <4>. QED
        BY <4>5, <4>8
    <3>. QED
      BY <1>1, <2>2, <3>1, <3>2, <3>3, Outcome
  <2>7. PICK k \in S : now - k <= Idle
    BY <2>6
  <2>8. S \in SUBSET (0..MaxTime)
    BY <2>5, <2>6 DEF Time
  <2>. HIDE DEF S
  <2>9. Max(S) \in S /\ Max(S) >= k
    BY <2>4, <2>8, MaxOfBounded
  <2>a. k \in 0..MaxTime /\ Max(S) \in 0..MaxTime
    BY <2>7, <2>8, <2>9
  <2>10. k \in Nat /\ Max(S) \in Nat
    BY <2>4, <2>a
  <2>11. now - Max(S) <= Idle
    BY <2>4, <2>7, <2>9, <2>10, LimitTypes
  <2>. QED
    BY <2>11 DEF S
<1>2. SessionsInv /\ QuietInv /\ [Next]_svars
        => \A s \in Slots :
             Serves(s) /\ calls[s].background /\ disturbed = 0 =>
               now - Max({calls'[s].token.issuedAt} \cup {tabs[t].active : t \in Tabs}) <= Idle
  BY <1>1
<1>. QED
  BY SessionsInvAlways, <1>2, PTL DEF Spec, UnattendedBrowserEnds
=============================================================================
