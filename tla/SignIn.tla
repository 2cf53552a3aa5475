-------------------------------- MODULE SignIn --------------------------------
(***************************************************************************)
(* Signing in over OpenID Connect: the browser tabs that go back and forth *)
(* between the pages and the identity provider, the session that the tabs  *)
(* of a browser share, the accounts that identities are matched with, and  *)
(* the decision who has to prove their identity first.                     *)
(*                                                                         *)
(* The invitations and roles are those of one domain; what else changes    *)
(* them is in Members.  A request is atomic, apart from the callback: it   *)
(* talks to the provider, and works on the session as it was before.       *)
(***************************************************************************)
EXTENDS Integers, FiniteSets

CONSTANTS
  Browser,
  Tab,
  BrowserOf,     \* the browser of each tab
  Identity,      \* accounts at the provider
  Email,         \* their addresses, in lower case
  Account,       \* rows of User
  Known,         \* addresses of transition domains and VerifiedByStaff
  Nobody,
  Beginnings,    \* the addresses, accounts, roles and invitations there may be at first
  MaxVisits,     \* bound: how often somebody opens a page
  MaxChanges,    \* bound: changes of addresses, invitations, roles and accounts
  MaxFaults      \* bound: sessions that vanish, and unreachable providers

\* `kind` is verification_type: "known" for all but "regular".
None == [sub |-> Nobody, mail |-> Nobody, kind |-> "none"]
User == [sub : Identity, mail : Email, kind : {"known", "regular"}]
Status == {"none", "invited", "retrieved", "canceled"}

ASSUME SignInAssumption ==
  /\ BrowserOf \in [Tab -> Browser]
  /\ Known \subseteq Email
  /\ Nobody \notin Tab \cup Account \cup Identity \cup Email
  /\ \A w \in Beginnings, i, j \in Identity : w.mail[i] = w.mail[j] => i = j \/ w.mail[i] = Nobody
  /\ Beginnings \subseteq [mail : [Identity -> Email \cup {Nobody}],
                            account : [Account -> User \cup {None}],
                            role : SUBSET Account, invitation : [Email -> Status]]
  /\ MaxVisits \in Nat /\ MaxChanges \in Nat /\ MaxFaults \in Nat

VARIABLES
  mail,       \* provider: the address of each identity, Nobody if it is none
  account,    \* the rows of User
  inactive,   \* those with is_active = False
  role,       \* the accounts that manage the domain
  invitation, \* the status of the DomainInvitation of each address
  session,    \* of each browser
  tab,        \* where each tab is
  visits,     \* how often somebody opened a page
  changes, faults

vars == <<mail, account, inactive, role, invitation, session, tab,
          visits, changes, faults>>

-----------------------------------------------------------------------------
(* State *)

\* `state` is the tab whose request to the provider was the last one,
\* `next` where to go afterwards, `attempted` the flag redirect_attempted.
Session ==
  [state : Tab \cup {Nobody}, user : Account \cup {Nobody}, attempted : BOOLEAN,
   next : {"page", "outside"}]
EmptySession == [state |-> Nobody, user |-> Nobody, attempted |-> FALSE, next |-> "page"]

\* A tab is about to load a page, away at the provider with a request for
\* `level`, in the callback with the answer for `who` and a `copy` of the
\* session, or past the check of the level. `lost` says that the row of the
\* copy is gone. History: `crossed`, that what the check found has been
\* taken away since.
TabState ==
  [step : {"idle", "landing", "away", "callback", "admitted"}, level : 1..2,
   who : Identity \cup {Nobody}, email : Email \cup {Nobody}, copy : Session,
   lost : BOOLEAN, crossed : BOOLEAN]
IdleTab ==
  [step |-> "idle", level |-> 1, who |-> Nobody, email |-> Nobody, copy |-> EmptySession,
   lost |-> FALSE, crossed |-> FALSE]
LandingTab == [IdleTab EXCEPT !.step = "landing"]

TypeOK ==
  /\ mail \in [Identity -> Email \cup {Nobody}]
  /\ account \in [Account -> User \cup {None}]
  /\ inactive \subseteq Account
  /\ role \subseteq Account
  /\ invitation \in [Email -> Status]
  /\ session \in [Browser -> Session]
  /\ tab \in [Tab -> TabState]
  /\ visits \in 0..MaxVisits
  /\ changes \in 0..MaxChanges
  /\ faults \in 0..MaxFaults

Init ==
  /\ \E w \in Beginnings : /\ mail = w.mail /\ account = w.account
                            /\ role = w.role /\ invitation = w.invitation
  /\ inactive = {}
  /\ session = [b \in Browser |-> EmptySession]
  /\ tab = [t \in Tab |-> IdleTab]
  /\ visits = 0 /\ changes = 0 /\ faults = 0

database == <<account, inactive, role, invitation, changes>>

SessionOf(t) == session[BrowserOf[t]]
SetSession(t, x) == session' = [session EXCEPT ![BrowserOf[t]] = x]
SetTab(t, x) == tab' = [tab EXCEPT ![t] = x]
Leave(t) == SetTab(t, IdleTab)

\* The tabs `T` lose the row of the session they work on.
Working(t) == tab[t].step \in {"callback", "admitted"}
Losing(T) == [t \in Tab |-> [tab[t] EXCEPT !.lost = @ \/ (t \in T /\ Working(t))]]
TabsOf(b) == {t \in Tab : BrowserOf[t] = b}

-----------------------------------------------------------------------------
(* Pages *)

Visit(t) ==
  /\ tab[t].step = "idle" /\ visits < MaxVisits
  /\ SetTab(t, LandingTab)
  /\ visits' = visits + 1
  /\ UNCHANGED <<mail, database, session, faults>>

\* The page is shown to somebody signed in. For all others the middleware
\* redirects to openid(), which asks the provider.
Land(t) ==
  LET s == SessionOf(t)
  IN /\ tab[t].step = "landing"
     /\ IF s.user \in Account \ inactive
        THEN Leave(t) /\ UNCHANGED session
        ELSE /\ SetTab(t, [tab[t] EXCEPT !.step = "away", !.level = 1])
             /\ SetSession(t, [s EXCEPT !.state = t, !.next = "page"])
     /\ UNCHANGED <<mail, database, visits, faults>>

\* The provider cannot be discovered: the page of an internal error.
Unavailable(t) ==
  /\ tab[t].step \in {"landing", "away"}
  /\ tab[t].step = "landing" => SessionOf(t).user \notin Account \ inactive
  /\ faults < MaxFaults /\ faults' = faults + 1
  /\ Leave(t)
  /\ UNCHANGED <<mail, database, session, visits>>

Logout(t) ==
  /\ tab[t].step = "idle" /\ SessionOf(t).user # Nobody
  /\ visits < MaxVisits /\ visits' = visits + 1
  /\ SetSession(t, [EmptySession EXCEPT !.next = "outside"])
  /\ tab' = Losing(TabsOf(BrowserOf[t]))
  /\ UNCHANGED <<mail, database, faults>>

\* The session vanishes: its cookie, or its row.
Expire(b) ==
  /\ faults < MaxFaults /\ faults' = faults + 1
  /\ session[b] # EmptySession
  /\ session' = [session EXCEPT ![b] = EmptySession]
  /\ tab' = Losing(TabsOf(b))
  /\ UNCHANGED <<mail, database, visits>>

-----------------------------------------------------------------------------
(* The answer of the provider *)

\* It answers the last request of the session: the callback goes on with it.
Accepted(t, i) ==
  /\ tab[t].step = "away" /\ SessionOf(t).state = t /\ mail[i] # Nobody
  /\ SetTab(t, [tab[t] EXCEPT !.step = "callback", !.who = i, !.copy = SessionOf(t),
                              !.lost = FALSE, !.crossed = FALSE])
  /\ UNCHANGED <<mail, database, session, visits, faults>>

\* A mutant: the flag is not set.
Mismatch_NoFlag(t) ==
  LET s == SessionOf(t)
  IN /\ tab[t].step = "away" /\ s.state # t
     /\ IF s.next = "page" THEN SetTab(t, LandingTab) ELSE Leave(t)
     /\ UNCHANGED <<mail, database, session, visits, faults>>

\* It answers another request: the sign-in is begun again, once.
Mismatch(t) ==
  LET s == SessionOf(t)
  IN /\ tab[t].step = "away" /\ s.state # t
     /\ SetSession(t, [s EXCEPT !.attempted = ~@])
     /\ IF ~s.attempted /\ s.next = "page" THEN SetTab(t, LandingTab) ELSE Leave(t)
     /\ UNCHANGED <<mail, database, visits, faults>>

\* It is an error, or the person has given up.
Refused(t) ==
  /\ tab[t].step = "away"
  /\ Leave(t)
  /\ UNCHANGED <<mail, database, session, visits, faults>>

\* Nobody is signed in at the provider: the request is repeated, and as the
\* response is taken for the user's data, at the higher level.
LoginRequired(t) ==
  /\ tab[t].step = "away"
  /\ faults < MaxFaults /\ faults' = faults + 1
  /\ SetTab(t, [tab[t] EXCEPT !.level = 2])
  /\ SetSession(t, [SessionOf(t) EXCEPT !.state = t])
  /\ UNCHANGED <<mail, database, visits>>

\* The session is written whole, unless its row is gone.
WriteBack(t, x) == IF tab[t].lost THEN UNCHANGED session ELSE SetSession(t, x)

\* Token or user's data are not to be had.
Failed(t) ==
  /\ tab[t].step = "callback"
  /\ Leave(t)
  /\ UNCHANGED session \/ WriteBack(t, tab[t].copy)
  /\ UNCHANGED <<mail, database, visits, faults>>

-----------------------------------------------------------------------------
(* Who has to prove their identity *)

AccountOf(i) == {a \in Account : account[a].sub = i}
WithMail(e) == {a \in Account : account[a].mail = e}

\* A mutant: an invitation counts whatever has become of it.
NeedsVerification_AnyInvitation(i) ==
  /\ AccountOf(i) \cap role = {}
  /\ mail[i] \notin Known
  /\ invitation[mail[i]] = "none"

\* needs_identity_verification
NeedsVerification(i) ==
  /\ AccountOf(i) \cap role = {}
  /\ mail[i] \notin Known
  /\ invitation[mail[i]] # "invited"

StepUp(t) ==
  /\ tab[t].step = "callback" /\ tab[t].level = 1 /\ NeedsVerification(tab[t].who)
  /\ IF tab[t].lost THEN Leave(t)
     ELSE SetTab(t, [IdleTab EXCEPT !.step = "away", !.level = 2])
  /\ WriteBack(t, tab[t].copy)
  /\ UNCHANGED <<mail, database, visits, faults>>

Admitted(t) ==
  /\ tab[t].step = "callback"
  /\ tab[t].level = 1 => ~NeedsVerification(tab[t].who)
  /\ SetTab(t, [tab[t] EXCEPT !.step = "admitted", !.email = mail[tab[t].who]])
  /\ UNCHANGED <<mail, database, session, visits, faults>>

-----------------------------------------------------------------------------
(* The account *)

\* The account of the identity, or else the one with its address.
Matches(t) ==
  IF AccountOf(tab[t].who) # {} THEN AccountOf(tab[t].who) ELSE WithMail(tab[t].email)

\* Invitations are retrieved for the one account with the address.
Pending(t) == invitation[tab[t].email] = "invited"
Several(t, a) == WithMail(tab[t].email) \ {a} # {}

\* A row not yet in use.
NextAccount == CHOOSE a \in Account : account[a] = None

\* A mutant: the address is not taken over.
Row_NoMail(t, k) == [sub |-> tab[t].who, mail |-> Nobody, kind |-> k]

Row(t, k) == [sub |-> tab[t].who, mail |-> tab[t].email, kind |-> k]

\* The check has found what `P` of the tabs holds no longer.
Crossing(P, u) == u.crossed \/ (u.step = "admitted" /\ P)

\* The login: it replaces the row of the session, unless this user is in it
\* already; with another user in it, it is emptied first.
LogIn(t, a) ==
  LET c == tab[t].copy
      others == TabsOf(BrowserOf[t]) \ {t}
      taken(u) == [tab[u] EXCEPT !.crossed = Crossing(tab[u].who = account[a].sub /\ tab[u].who # tab[t].who, tab[u])]
      replaced == [u \in Tab |-> IF u = t THEN LandingTab
                                 ELSE [taken(u) EXCEPT !.lost = @ \/ (u \in others /\ Working(u))]]
      kept == [u \in Tab |-> IF u = t THEN (IF tab[t].lost THEN IdleTab ELSE LandingTab) ELSE taken(u)]
  IN \/ c.user = Nobody /\ tab' = replaced
        /\ SetSession(t, [c EXCEPT !.user = a, !.attempted = FALSE])
     \/ c.user = a /\ tab' = kept /\ WriteBack(t, [c EXCEPT !.attempted = FALSE])
     \/ c.user \notin {a, Nobody} /\ tab' = replaced
        /\ SetSession(t, [EmptySession EXCEPT !.user = a])

\* The account exists, or is created and given its verification type.
Entered(t) ==
  LET e == tab[t].email
      i == IF Pending(t) THEN [invitation EXCEPT ![e] = "retrieved"] ELSE invitation
      k == IF e \in Known \/ i[e] = "retrieved" THEN "known" ELSE "regular"
  IN /\ tab[t].step = "admitted"
     /\ \E a \in Account :
          /\ IF Matches(t) = {} THEN a = NextAccount ELSE Matches(t) = {a}
          /\ ~(Pending(t) /\ Several(t, a))
          /\ account' = [account EXCEPT ![a] =
                           Row(t, IF Matches(t) = {} THEN k ELSE account[a].kind)]
          /\ role' = IF Pending(t) THEN role \cup {a} ELSE role
          /\ invitation' = i
          /\ LogIn(t, a)
     /\ UNCHANGED <<mail, inactive, visits, changes, faults>>

\* Two accounts have the address, and the one is looked for: by the backend,
\* or for an invitation, when the account has been updated. The page of an
\* internal error saves no session.
Ambiguous(t) ==
  /\ tab[t].step = "admitted"
  /\ \/ Cardinality(Matches(t)) > 1 /\ UNCHANGED account
     \/ \E a \in Account : /\ Matches(t) = {a} /\ Pending(t) /\ Several(t, a)
                           /\ account' = [account EXCEPT ![a] = Row(t, account[a].kind)]
  /\ Leave(t)
  /\ UNCHANGED <<mail, inactive, role, invitation, session, visits, changes, faults>>

-----------------------------------------------------------------------------
(* Others *)

Change == changes < MaxChanges /\ changes' = changes + 1

\* Somebody signs up at the provider, moves to an address that no other
\* identity has, or gives up the identity.
ChangeMail(i, e) ==
  /\ e = Nobody \/ \A j \in Identity : mail[j] # e
  /\ \A t \in Tab : ~Working(t)
  /\ Change /\ mail' = [mail EXCEPT ![i] = e]
  /\ UNCHANGED <<account, inactive, role, invitation, session, tab, visits, faults>>

\* A manager invites somebody without an account, or adds somebody with one.
Invite(e) ==
  /\ Change /\ WithMail(e) = {} /\ invitation[e] \in {"none", "canceled"}
  /\ invitation' = [invitation EXCEPT ![e] = "invited"]
  /\ UNCHANGED <<mail, account, inactive, role, session, tab, visits, faults>>

AddManager(a) ==
  LET e == account[a].mail
  IN /\ Change /\ account[a] # None /\ a \notin role
     /\ invitation[e] \in {"none", "canceled"}
     /\ invitation' = IF invitation[e] = "canceled" THEN [invitation EXCEPT ![e] = "invited"]
                      ELSE invitation
     /\ role' = role \cup {a}
     /\ UNCHANGED <<mail, account, inactive, session, tab, visits, faults>>

CancelInvitation(e) ==
  /\ Change /\ invitation[e] = "invited"
  /\ invitation' = [invitation EXCEPT ![e] = "canceled"]
  /\ tab' = [t \in Tab |-> [tab[t] EXCEPT !.crossed = Crossing(tab[t].email = e, tab[t])]]
  /\ UNCHANGED <<mail, account, inactive, role, session, visits, faults>>

\* The role goes, and the retrieved invitation with it.
RemoveManager(a) ==
  LET e == account[a].mail
  IN /\ Change /\ a \in role
     /\ role' = role \ {a}
     /\ invitation' = IF invitation[e] = "retrieved" THEN [invitation EXCEPT ![e] = "none"]
                      ELSE invitation
     /\ tab' = [t \in Tab |-> [tab[t] EXCEPT !.crossed =
                  Crossing(tab[t].who = account[a].sub \/ tab[t].email = e, tab[t])]]
     /\ UNCHANGED <<mail, account, inactive, session, visits, faults>>

Deactivate(a) ==
  /\ Change /\ account[a] # None /\ a \notin inactive
  /\ inactive' = inactive \cup {a}
  /\ UNCHANGED <<mail, account, role, invitation, session, tab, visits, faults>>

-----------------------------------------------------------------------------
\* What a tab does next once somebody has opened a page.
TabStep(t) ==
  \/ Land(t) \/ Unavailable(t)
  \/ \E i \in Identity : Accepted(t, i)
  \/ Mismatch(t) \/ Refused(t) \/ LoginRequired(t) \/ Failed(t)
  \/ StepUp(t) \/ Admitted(t) \/ Entered(t) \/ Ambiguous(t)

Next ==
  \/ \E t \in Tab : Visit(t) \/ Logout(t) \/ TabStep(t)
  \/ \E b \in Browser : Expire(b)
  \/ \E i \in Identity, e \in Email \cup {Nobody} : ChangeMail(i, e)
  \/ \E e \in Email : Invite(e) \/ CancelInvitation(e)
  \/ \E a \in Account : AddManager(a) \/ RemoveManager(a) \/ Deactivate(a)

\* A browser follows the redirects, and the provider answers sooner or later.
Fairness == \A t \in Tab : WF_vars(TabStep(t))

Spec == Init /\ [][Next]_vars /\ Fairness

-----------------------------------------------------------------------------
(* Properties *)

\* Whoever gets in without having proved their identity is known: their
\* address is, or they manage the domain now, also when the invitation by
\* which they were let through is retrieved only afterwards; and a new
\* account of theirs is not recorded as one that was verified regularly.
\* Excepted are those to whom this was taken away in the midst of it.
VerifiedOrKnown ==
  [][\A t \in Tab :
       /\ tab[t].step = "admitted" /\ tab[t].level = 1 /\ ~tab[t].crossed
       /\ tab'[t].step = "landing"
       => LET a == session'[BrowserOf[t]].user
          IN /\ account'[a].mail \in Known \/ a \in role'
             /\ account[a] = None => account'[a].kind = "known"]_vars

\* A request for the higher level writes the session back as it was before
\* another tab set the flag.
FlagLost ==
  \E t \in Tab : /\ tab[t].step = "callback" /\ tab'[t].step = "away"
                 /\ SessionOf(t).attempted /\ ~session'[BrowserOf[t]].attempted

\* A visit ends with a page, if that of an error: tabs of one browser cannot
\* send each other back and forth for ever, although each attempt to sign in
\* makes the attempts of the other tabs fail - unless the flag that stops
\* them is lost again and again, or the account is inactive: its user is
\* logged in, and taken for nobody by every page.
SignInEnds ==
  \/ []<><<FlagLost>>_vars
  \/ \A t \in Tab : tab[t].step # "idle"
                     ~> tab[t].step = "idle" \/ SessionOf(t).user \in inactive

=============================================================================
