----------------------------- MODULE SignInProofs -----------------------------
(***************************************************************************)
(* For any numbers of browsers, tabs, identities, addresses, accounts,     *)
(* visits, changes and faults: whoever gets in without having proved their *)
(* identity is known.                                                      *)
(*                                                                         *)
(* The check and the login are two steps of a tab, and other tabs, other   *)
(* people and the managers of the domain act between them.  The invariant  *)
(* says what the check has found and is still so at the login: the address *)
(* is that of the identity, no other identity has it, and whatever let it  *)
(* through is there, in the form of a role once the invitation has been    *)
(* retrieved by another tab.                                               *)
(***************************************************************************)
EXTENDS SignIn, TLAPS

\* No two identities have one address.
Distinct == \A i, j \in Identity : mail[i] = mail[j] => i = j \/ mail[i] = Nobody

\* What the check has found, unless it was taken away since.
Found(t) ==
  \/ tab[t].email \in Known
  \/ AccountOf(tab[t].who) \cap role # {}
  \/ invitation[tab[t].email] = "invited"
Unchecked(t) == tab[t].step = "admitted" /\ tab[t].level = 1 /\ ~tab[t].crossed

\* The answer of the provider is about an identity with an address; the
\* address that was checked is still that of the identity; and what let it
\* through without verification is there.
Fine(t) ==
  /\ Working(t) => tab[t].who \in Identity /\ mail[tab[t].who] \in Email
  /\ tab[t].step = "admitted" => tab[t].email = mail[tab[t].who]
  /\ Unchecked(t) => Found(t)

IInv == TypeOK /\ Distinct /\ \A t \in Tab : Fine(t)

-----------------------------------------------------------------------------
(* What steps do to tabs *)

\* The tab stays where it is; only `lost` and `crossed` may become true.
Stays(t) ==
  /\ tab'[t].step = tab[t].step /\ tab'[t].level = tab[t].level
  /\ tab'[t].who = tab[t].who /\ tab'[t].email = tab[t].email
  /\ tab[t].crossed => tab'[t].crossed

\* The sets of records that tabs, sessions and accounts are.
LEMMA Records ==
  /\ EmptySession \in Session
  /\ IdleTab \in TabState /\ LandingTab \in TabState
  <1>1. EmptySession \in Session
    BY DEF EmptySession, Session
  <1>2. IdleTab \in TabState
    BY <1>1 DEF IdleTab, TabState
  <1>3. LandingTab \in TabState
    BY <1>1, <1>2 DEF LandingTab, IdleTab, TabState
  <1> QED BY <1>1, <1>2, <1>3

\* Losing a session moves no tab.
LEMMA LosingStays ==
  ASSUME TypeOK, NEW T \in SUBSET Tab
  PROVE  /\ Losing(T) \in [Tab -> TabState]
         /\ tab' = Losing(T) => \A t \in Tab : Stays(t)
  <1>1. \A t \in Tab : tab[t] \in TabState
    BY DEF TypeOK
  <1>2. \A t \in Tab : [tab[t] EXCEPT !.lost = @ \/ (t \in T /\ Working(t))] \in TabState
    BY <1>1 DEF TabState
  <1>3. ASSUME tab' = Losing(T), NEW t \in Tab PROVE Stays(t)
    <2>1. tab'[t] = [tab[t] EXCEPT !.lost = @ \/ (t \in T /\ Working(t))]
      BY <1>3 DEF Losing
    <2> QED BY <2>1, <1>1 DEF Stays, TabState
  <1> QED BY <1>2, <1>3 DEF Losing

\* Taking away what was found moves no tab.
LEMMA CrossingStays ==
  ASSUME TypeOK, NEW P \in [Tab -> BOOLEAN],
         tab' = [t \in Tab |-> [tab[t] EXCEPT !.crossed = Crossing(P[t], tab[t])]]
  PROVE  /\ tab' \in [Tab -> TabState]
         /\ \A t \in Tab : /\ Stays(t)
                           /\ tab[t].step = "admitted" /\ P[t] => tab'[t].crossed
  <1>1. \A t \in Tab : tab[t] \in TabState /\ Crossing(P[t], tab[t]) \in BOOLEAN
    BY DEF TypeOK, Crossing, TabState
  <1>2. \A t \in Tab : tab'[t] \in TabState
    BY <1>1 DEF TabState
  <1>3. ASSUME NEW t \in Tab
        PROVE  Stays(t) /\ (tab[t].step = "admitted" /\ P[t] => tab'[t].crossed)
    <2>1. tab'[t] = [tab[t] EXCEPT !.crossed = Crossing(P[t], tab[t])]
      OBVIOUS
    <2> QED BY <2>1, <1>1 DEF Stays, TabState, Crossing
  <1> QED BY <1>2, <1>3

-----------------------------------------------------------------------------
(* Types *)

LEMMA InitTypes == Init => TypeOK
  BY Records, SignInAssumption DEF Init, TypeOK, None

\* Setting a tab or the session of its browser.
LEMMA Sets ==
  ASSUME TypeOK, NEW t \in Tab
  PROVE  /\ SessionOf(t) \in Session /\ tab[t].copy \in Session /\ tab[t] \in TabState
         /\ \A x \in TabState : SetTab(t, x) => /\ tab' \in [Tab -> TabState]
                                             /\ tab'[t] = x
                                             /\ \A u \in Tab \ {t} : tab'[u] = tab[u]
         /\ \A x \in Session : SetSession(t, x) => /\ session' \in [Browser -> Session]
                                                /\ session'[BrowserOf[t]] = x
         /\ \A x \in Session : WriteBack(t, x) => session' \in [Browser -> Session]
  BY SignInAssumption DEF TypeOK, SessionOf, SetTab, SetSession, WriteBack, TabState

\* Sessions with a field changed are sessions.
LEMMA SessionFields ==
  ASSUME NEW s \in Session
  PROVE  /\ \A t \in Tab : [s EXCEPT !.state = t] \in Session
         /\ \A t \in Tab : [s EXCEPT !.state = t, !.next = "page"] \in Session
         /\ [s EXCEPT !.attempted = ~@] \in Session
         /\ [s EXCEPT !.attempted = FALSE] \in Session
         /\ [s EXCEPT !.next = "outside"] \in Session
         /\ \A a \in Account : /\ [s EXCEPT !.user = a] \in Session
                              /\ [s EXCEPT !.user = a, !.attempted = FALSE] \in Session
  BY DEF Session

\* The same for tabs.
LEMMA TabFields ==
  ASSUME NEW u \in TabState
  PROVE  /\ \A n \in 1..2 :
              /\ [u EXCEPT !.step = "away", !.level = n] \in TabState
              /\ [u EXCEPT !.step = "away", !.level = n].step = "away"
              /\ [u EXCEPT !.level = n] \in TabState
              /\ [u EXCEPT !.level = n].step = u.step
         /\ \A i \in Identity, s \in Session :
              [u EXCEPT !.step = "callback", !.who = i, !.copy = s,
                        !.lost = FALSE, !.crossed = FALSE] \in TabState
         /\ \A e \in Email : [u EXCEPT !.step = "admitted", !.email = e] \in TabState
  BY DEF TabState

\* One tab moves, the database and the addresses stay.
Alone(t) ==
  /\ tab' \in [Tab -> TabState] /\ session' \in [Browser -> Session]
  /\ \A u \in Tab \ {t} : tab'[u] = tab[u]
  /\ UNCHANGED <<mail, account, inactive, role, invitation>>

\* The steps in which only the tab and its session change.
Simple(t) ==
  \/ Visit(t) \/ Land(t) \/ Unavailable(t) \/ \E i \in Identity : Accepted(t, i)
  \/ Mismatch(t) \/ Refused(t) \/ LoginRequired(t) \/ Failed(t) \/ StepUp(t) \/ Admitted(t)

LEMMA SimpleMoves ==
  ASSUME IInv, NEW t \in Tab, Simple(t)
  PROVE  Alone(t) /\ Fine(t)' /\ (tab[t].step = "admitted" => FALSE)
  <1> USE DEF IInv, Alone
  <1> DEFINE s == SessionOf(t)
             quiet == tab'[t].step \notin {"callback", "admitted"}
  <1>a. quiet => Fine(t)'
    BY DEF Fine, Working, Unchecked
  <1>t. TypeOK /\ s \in Session /\ tab[t].copy \in Session /\ tab[t] \in TabState
    BY Sets
  <1>n. 1 \in 1..2 /\ 2 \in 1..2
    OBVIOUS
  <1>1. CASE Visit(t)
    <2>1. SetTab(t, LandingTab) /\ LandingTab \in TabState /\ LandingTab.step = "landing"
      BY <1>1, Records DEF Visit, LandingTab, IdleTab
    <2> QED BY <2>1, <1>1, <1>a, <1>t, Sets DEF Visit, database, TypeOK
  <1>2. CASE Land(t)
    <2>1. CASE Leave(t) /\ UNCHANGED session
      BY <2>1, <1>2, <1>a, <1>t, Sets, Records DEF Land, Leave, IdleTab, database, TypeOK
    <2>2. CASE /\ SetTab(t, [tab[t] EXCEPT !.step = "away", !.level = 1])
               /\ SetSession(t, [s EXCEPT !.state = t, !.next = "page"])
      <3>1. /\ [tab[t] EXCEPT !.step = "away", !.level = 1] \in TabState
            /\ [tab[t] EXCEPT !.step = "away", !.level = 1].step = "away"
            /\ [s EXCEPT !.state = t, !.next = "page"] \in Session
        BY <1>t, <1>n, TabFields, SessionFields
      <3> QED BY <3>1, <2>2, <1>2, <1>a, <1>t, Sets DEF Land, database
    <2> QED BY <2>1, <2>2, <1>2 DEF Land
  <1>3. CASE Unavailable(t)
    BY <1>3, <1>a, <1>t, Sets, Records DEF Unavailable, Leave, IdleTab, database, TypeOK
  <1>4. CASE \E i \in Identity : Accepted(t, i)
    <2>1. PICK i \in Identity : Accepted(t, i)
      BY <1>4
    <2> DEFINE x == [tab[t] EXCEPT !.step = "callback", !.who = i, !.copy = SessionOf(t),
                                   !.lost = FALSE, !.crossed = FALSE]
    <2>2. x \in TabState /\ x.step = "callback" /\ x.who = i
      BY <1>t, TabFields DEF TabState
    <2>3. tab' \in [Tab -> TabState] /\ tab'[t] = x /\ (\A u \in Tab \ {t} : tab'[u] = tab[u])
      BY <2>1, <2>2, <1>t, Sets DEF Accepted
    <2>4. mail' = mail /\ mail[i] \in Email
      BY <2>1, <1>t DEF Accepted, TypeOK
    <2>5. Fine(t)'
      BY <2>2, <2>3, <2>4 DEF Fine, Unchecked
    <2> QED BY <2>1, <2>3, <2>5, <1>t DEF Accepted, database, TypeOK
  <1>5. CASE Mismatch(t)
    <2>1. [s EXCEPT !.attempted = ~@] \in Session
      BY <1>t, SessionFields
    <2>2. session' \in [Browser -> Session]
      BY <2>1, <1>5, <1>t, Sets DEF Mismatch
    <2>3. SetTab(t, LandingTab) \/ SetTab(t, IdleTab)
      BY <1>5 DEF Mismatch, Leave
    <2>4. IdleTab.step = "idle" /\ LandingTab.step = "landing"
      BY DEF IdleTab, LandingTab
    <2> QED BY <2>2, <2>3, <2>4, <1>5, <1>a, <1>t, Sets, Records DEF Mismatch, database
  <1>6. CASE Refused(t)
    BY <1>6, <1>a, <1>t, Sets, Records DEF Refused, Leave, IdleTab, database, TypeOK
  <1>7. CASE LoginRequired(t)
    <2>1. /\ [tab[t] EXCEPT !.level = 2] \in TabState
          /\ [tab[t] EXCEPT !.level = 2].step = tab[t].step
          /\ [s EXCEPT !.state = t] \in Session
      BY <1>t, <1>n, TabFields, SessionFields
    <2>2. tab[t].step = "away" /\ SetTab(t, [tab[t] EXCEPT !.level = 2])
          /\ SetSession(t, [s EXCEPT !.state = t])
      BY <1>7 DEF LoginRequired
    <2> QED BY <2>1, <2>2, <1>7, <1>a, <1>t, Sets DEF LoginRequired, database
  <1>8. CASE Failed(t)
    <2>1. session' \in [Browser -> Session]
      BY <1>8, <1>t, Sets DEF Failed, TypeOK
    <2> QED BY <2>1, <1>8, <1>a, <1>t, Sets, Records DEF Failed, Leave, IdleTab, database
  <1>9. CASE StepUp(t)
    <2> DEFINE x == [IdleTab EXCEPT !.step = "away", !.level = 2]
    <2>1. x \in TabState /\ x.step = "away"
      BY Records, <1>n, TabFields
    <2>2. session' \in [Browser -> Session]
      BY <1>9, <1>t, Sets DEF StepUp
    <2>3. tab[t].step = "callback" /\ (SetTab(t, IdleTab) \/ SetTab(t, x))
      BY <1>9 DEF StepUp, Leave
    <2>4. IdleTab.step = "idle"
      BY DEF IdleTab
    <2> QED BY <2>1, <2>2, <2>3, <2>4, <1>9, <1>a, <1>t, Sets, Records DEF StepUp, database
  <1>10. CASE Admitted(t)
    <2> DEFINE e == mail[tab[t].who]
               x == [tab[t] EXCEPT !.step = "admitted", !.email = e]
    <2>1. tab[t].step = "callback" /\ tab[t].who \in Identity /\ e \in Email
      BY <1>10 DEF Admitted, Fine, Working
    <2>2. /\ x \in TabState /\ x.step = "admitted" /\ x.who = tab[t].who /\ x.email = e
          /\ x.level = tab[t].level
      BY <2>1, <1>t, TabFields DEF TabState
    <2>3. tab' \in [Tab -> TabState] /\ tab'[t] = x /\ (\A u \in Tab \ {t} : tab'[u] = tab[u])
      BY <1>10, <2>2, <1>t, Sets DEF Admitted
    <2>4. UNCHANGED <<mail, account, role, invitation>>
      BY <1>10 DEF Admitted, database
    <2>5. x.level = 1 => \/ e \in Known
                         \/ AccountOf(x.who) \cap role # {}
                         \/ invitation[e] = "invited"
      BY <1>10, <2>2 DEF Admitted, NeedsVerification
    <2>6. Fine(t)'
      BY <2>1, <2>2, <2>3, <2>4, <2>5 DEF Fine, Unchecked, Found, AccountOf
    <2> QED BY <2>1, <2>3, <2>4, <2>6, <1>10, <1>t DEF Admitted, database, TypeOK
  <1> QED BY <1>1, <1>2, <1>3, <1>4, <1>5, <1>6, <1>7, <1>8, <1>9, <1>10 DEF Simple

\* A tab that stays is fine while what let it through is there.
LEMMA Stayers ==
  ASSUME IInv, NEW t \in Tab, Stays(t), mail' = mail,
         Unchecked(t)' /\ Found(t) => Found(t)'
  PROVE  Fine(t)'
  BY DEF IInv, Fine, Stays, Working, Unchecked

\* Nothing that let a tab through is taken away.
LEMMA NothingTaken ==
  ASSUME IInv, NEW t \in Tab, Stays(t), mail' = mail, account' = account, role \subseteq role',
         \A e \in Email : invitation[e] = "invited" => invitation'[e] = "invited"
  PROVE  Fine(t)'
  <1>1. Unchecked(t)' => tab[t].step = "admitted" /\ tab[t].email \in Email
    BY DEF Unchecked, Stays, IInv, Fine, Working
  <1>2. Unchecked(t)' /\ Found(t) => Found(t)'
    BY <1>1 DEF Found, Stays, AccountOf
  <1> QED BY <1>2, Stayers

-----------------------------------------------------------------------------
(* Sessions that vanish, and the acts of others *)

LEMMA UnchangedStays == ASSUME NEW t \in Tab, tab'[t] = tab[t] PROVE Stays(t)
  BY DEF Stays

LEMMA CounterTypes ==
  /\ TypeOK /\ visits < MaxVisits /\ visits' = visits + 1 => visits' \in 0..MaxVisits
  /\ TypeOK /\ Change => changes' \in 0..MaxChanges
  /\ TypeOK /\ faults < MaxFaults /\ faults' = faults + 1 => faults' \in 0..MaxFaults
  BY SignInAssumption DEF TypeOK, Change

LEMMA LogoutKeeps == ASSUME IInv, NEW t \in Tab, Logout(t) PROVE IInv'
  <1>1. TypeOK /\ TabsOf(BrowserOf[t]) \in SUBSET Tab
    BY DEF IInv, TabsOf
  <1>2. tab' \in [Tab -> TabState] /\ \A u \in Tab : Stays(u)
    BY <1>1, LosingStays DEF Logout
  <1>3. session' \in [Browser -> Session]
    BY <1>1, Records, SessionFields, Sets DEF Logout
  <1>4. UNCHANGED <<mail, account, inactive, role, invitation, changes, faults>>
    BY DEF Logout, database
  <1>5. TypeOK'
    BY <1>1, <1>2, <1>3, <1>4, CounterTypes DEF TypeOK, Logout
  <1>6. \A u \in Tab : Fine(u)'
    BY <1>2, <1>4, NothingTaken
  <1> QED BY <1>4, <1>5, <1>6 DEF IInv, Distinct

LEMMA ExpireKeeps == ASSUME IInv, NEW b \in Browser, Expire(b) PROVE IInv'
  <1>1. TypeOK /\ TabsOf(b) \in SUBSET Tab
    BY DEF IInv, TabsOf
  <1>2. tab' \in [Tab -> TabState] /\ \A u \in Tab : Stays(u)
    BY <1>1, LosingStays DEF Expire
  <1>3. session' \in [Browser -> Session]
    BY <1>1, Records DEF Expire, TypeOK
  <1>4. UNCHANGED <<mail, account, inactive, role, invitation, changes, visits>>
    BY DEF Expire, database
  <1>5. TypeOK'
    BY <1>1, <1>2, <1>3, <1>4, CounterTypes DEF TypeOK, Expire
  <1>6. \A u \in Tab : Fine(u)'
    BY <1>2, <1>4, NothingTaken
  <1> QED BY <1>4, <1>5, <1>6 DEF IInv, Distinct

\* Nobody is in the middle of a login when an address changes.
LEMMA ChangeMailKeeps ==
  ASSUME IInv, NEW i \in Identity, NEW e \in Email \cup {Nobody}, ChangeMail(i, e)
  PROVE  IInv'
  <1>1. TypeOK'
    BY CounterTypes DEF IInv, TypeOK, ChangeMail
  <1>2. Distinct'
    <2> SUFFICES ASSUME NEW j \in Identity, NEW k \in Identity, mail'[j] = mail'[k], j # k
                 PROVE  mail'[j] = Nobody
      BY DEF Distinct
    <2>1. mail' = [mail EXCEPT ![i] = e] /\ mail \in [Identity -> Email \cup {Nobody}]
      BY DEF ChangeMail, IInv, TypeOK
    <2>2. e = Nobody \/ \A n \in Identity : mail[n] # e
      BY DEF ChangeMail
    <2> QED BY <2>1, <2>2 DEF IInv, Distinct
  <1>3. ASSUME NEW t \in Tab PROVE Fine(t)'
    BY DEF ChangeMail, Fine, Working, Unchecked
  <1> QED BY <1>1, <1>2, <1>3 DEF IInv

\* The manager of an account has an address.
LEMMA Rows ==
  ASSUME TypeOK, NEW a \in Account, account[a] # None
  PROVE  account[a] \in User /\ account[a].mail \in Email /\ account[a].sub \in Identity
  BY DEF TypeOK, User

LEMMA InviteKeeps == ASSUME IInv, NEW e \in Email, Invite(e) PROVE IInv'
  <1>1. TypeOK'
    BY CounterTypes DEF IInv, TypeOK, Invite, Status
  <1>2. ASSUME NEW t \in Tab PROVE Fine(t)'
    BY UnchangedStays, NothingTaken DEF Invite, IInv, TypeOK
  <1> QED BY <1>1, <1>2 DEF IInv, Distinct, Invite

LEMMA AddManagerKeeps == ASSUME IInv, NEW a \in Account, AddManager(a) PROVE IInv'
  <1> DEFINE e == account[a].mail
  <1>1. e \in Email
    BY Rows DEF AddManager, IInv
  <1>2. TypeOK'
    BY <1>1, CounterTypes DEF IInv, TypeOK, AddManager, Status
  <1>3. role \subseteq role' /\ UNCHANGED <<mail, account, tab>>
    BY DEF AddManager
  <1>4. \A f \in Email : invitation[f] = "invited" => invitation'[f] = "invited"
    BY <1>1 DEF AddManager, IInv, TypeOK
  <1>5. ASSUME NEW t \in Tab PROVE Fine(t)'
    BY <1>3, <1>4, UnchangedStays, NothingTaken
  <1> QED BY <1>2, <1>3, <1>5 DEF IInv, Distinct

LEMMA DeactivateKeeps == ASSUME IInv, NEW a \in Account, Deactivate(a) PROVE IInv'
  <1>1. TypeOK'
    BY CounterTypes DEF IInv, TypeOK, Deactivate
  <1>2. ASSUME NEW t \in Tab PROVE Fine(t)'
    BY UnchangedStays, NothingTaken DEF Deactivate
  <1> QED BY <1>1, <1>2 DEF IInv, Distinct, Deactivate

\* Those whose invitation or role goes are crossed.
LEMMA CancelKeeps == ASSUME IInv, NEW e \in Email, CancelInvitation(e) PROVE IInv'
  <1> DEFINE P == [t \in Tab |-> tab[t].email = e]
  <1>1. TypeOK /\ P \in [Tab -> BOOLEAN]
    BY DEF IInv
  <1>2. tab' = [t \in Tab |-> [tab[t] EXCEPT !.crossed = Crossing(P[t], tab[t])]]
    BY DEF CancelInvitation
  <1>3. /\ tab' \in [Tab -> TabState]
        /\ \A t \in Tab : Stays(t) /\ (tab[t].step = "admitted" /\ P[t] => tab'[t].crossed)
    BY <1>1, <1>2, CrossingStays
  <1>4. UNCHANGED <<mail, account, role>>
    BY DEF CancelInvitation
  <1>5. TypeOK'
    BY <1>1, <1>3, CounterTypes DEF TypeOK, CancelInvitation, Status
  <1>6. ASSUME NEW t \in Tab PROVE Fine(t)'
    <2>1. Unchecked(t)' => tab[t].email # e
      BY <1>3 DEF Unchecked, Stays
    <2>2. \A f \in Email \cup {Nobody} : f # e => invitation'[f] = invitation[f]
      BY <1>1 DEF CancelInvitation, TypeOK
    <2>3. tab[t].email \in Email \cup {Nobody}
      BY <1>1 DEF TypeOK, TabState
    <2>4. Unchecked(t)' /\ Found(t) => Found(t)'
      BY <1>3, <1>4, <2>1, <2>2, <2>3 DEF Found, Stays, AccountOf
    <2> QED BY <1>3, <1>4, <2>4, Stayers
  <1> QED BY <1>4, <1>5, <1>6 DEF IInv, Distinct

LEMMA RemoveKeeps == ASSUME IInv, NEW a \in Account, RemoveManager(a) PROVE IInv'
  <1> DEFINE e == account[a].mail
             P == [t \in Tab |-> tab[t].who = account[a].sub \/ tab[t].email = e]
  <1>1. TypeOK /\ P \in [Tab -> BOOLEAN]
    BY DEF IInv
  <1>2. tab' = [t \in Tab |-> [tab[t] EXCEPT !.crossed = Crossing(P[t], tab[t])]]
    BY DEF RemoveManager
  <1>3. /\ tab' \in [Tab -> TabState]
        /\ \A t \in Tab : Stays(t) /\ (tab[t].step = "admitted" /\ P[t] => tab'[t].crossed)
    BY <1>1, <1>2, CrossingStays
  <1>4. UNCHANGED <<mail, account>> /\ role' = role \ {a}
    BY DEF RemoveManager
  <1>5. TypeOK'
    BY <1>1, <1>3, CounterTypes DEF TypeOK, RemoveManager, Status
  <1>6. ASSUME NEW t \in Tab PROVE Fine(t)'
    <2>1. Unchecked(t)' => tab[t].step = "admitted" /\ tab[t].who # account[a].sub
      BY <1>3 DEF Unchecked, Stays
    <2>2. Unchecked(t)' => a \notin AccountOf(tab[t].who)
      BY <2>1 DEF AccountOf
    <2>3. Unchecked(t)' => tab[t].email \in Email
      BY <2>1 DEF IInv, Fine, Working
    <2>4. \A f \in Email : invitation[f] = "invited" => invitation'[f] = "invited"
      BY <1>1 DEF RemoveManager, TypeOK
    <2>5. Unchecked(t)' /\ Found(t) => Found(t)'
      BY <1>3, <1>4, <2>2, <2>3, <2>4 DEF Found, Stays, AccountOf
    <2> QED BY <1>3, <1>4, <2>5, Stayers
  <1> QED BY <1>4, <1>5, <1>6 DEF IInv, Distinct

-----------------------------------------------------------------------------
(* The account *)

\* What the backend finds for a tab that was admitted.
LEMMA AccountFound ==
  ASSUME IInv, NEW t \in Tab, tab[t].step = "admitted"
  PROVE  /\ tab[t].who \in Identity /\ tab[t].email \in Email
         /\ \A a \in Matches(t) : account[a] \in User /\ account[a] # None
         /\ \A a : Matches(t) = {a} =>
              /\ Row(t, account[a].kind) \in User
              /\ account[a].sub # tab[t].who => AccountOf(tab[t].who) = {} /\ ~Several(t, a)
  <1>1. TypeOK /\ tab[t].who \in Identity /\ tab[t].email \in Email
    BY DEF IInv, Fine, Working
  <1>2. \A a \in Matches(t) : a \in Account /\ account[a] # None
    BY <1>1, SignInAssumption DEF Matches, AccountOf, WithMail, None
  <1>3. \A a \in Matches(t) : account[a] \in User /\ account[a].kind \in {"known", "regular"}
    BY <1>1, <1>2 DEF TypeOK, User
  <1>4. \A a : Matches(t) = {a} => Row(t, account[a].kind) \in User
    BY <1>1, <1>3 DEF Row, User
  <1>5. ASSUME NEW a, Matches(t) = {a}, account[a].sub # tab[t].who
        PROVE  AccountOf(tab[t].who) = {} /\ ~Several(t, a)
    <2>1. a \notin AccountOf(tab[t].who)
      BY <1>5 DEF AccountOf
    <2>2. AccountOf(tab[t].who) = {}
      BY <2>1, <1>5 DEF Matches
    <2>3. WithMail(tab[t].email) = {a}
      BY <2>2, <1>5 DEF Matches
    <2> QED BY <2>2, <2>3 DEF Several
  <1> QED BY <1>1, <1>2, <1>3, <1>4, <1>5

\* The login takes its tab to the page, if the session is there, and moves no
\* other; the tabs of an identity whose account is taken over are crossed.
LEMMA LogInMoves ==
  ASSUME IInv, NEW t \in Tab, NEW a \in Account, LogIn(t, a)
  PROVE  /\ session' \in [Browser -> Session] /\ tab' \in [Tab -> TabState]
         /\ tab'[t] \in {IdleTab, LandingTab}
         /\ tab'[t] = LandingTab => session'[BrowserOf[t]].user = a
         /\ \A u \in Tab \ {t} :
              /\ Stays(u)
              /\ tab[u].step = "admitted" /\ tab[u].who = account[a].sub /\ tab[u].who # tab[t].who
                 => tab'[u].crossed
  <1> DEFINE c == tab[t].copy
             others == TabsOf(BrowserOf[t]) \ {t}
             P(u) == tab[u].who = account[a].sub /\ tab[u].who # tab[t].who
             taken(u) == [tab[u] EXCEPT !.crossed = Crossing(P(u), tab[u])]
             gone(u) == [taken(u) EXCEPT !.lost = @ \/ (u \in others /\ Working(u))]
             replaced == [u \in Tab |-> IF u = t THEN LandingTab ELSE gone(u)]
             kept == [u \in Tab |-> IF u = t THEN (IF tab[t].lost THEN IdleTab ELSE LandingTab)
                                    ELSE taken(u)]
  <1>1. TypeOK /\ c \in Session /\ BrowserOf[t] \in Browser /\ session \in [Browser -> Session]
    BY Sets, SignInAssumption DEF IInv, TypeOK
  <1>2. \A u \in Tab : tab[u] \in TabState /\ P(u) \in BOOLEAN /\ Crossing(P(u), tab[u]) \in BOOLEAN
    BY <1>1 DEF TypeOK, Crossing, TabState
  <1>3. ASSUME NEW u \in Tab
        PROVE  /\ taken(u) \in TabState /\ taken(u).step = tab[u].step
               /\ taken(u).level = tab[u].level /\ taken(u).who = tab[u].who
               /\ taken(u).email = tab[u].email /\ taken(u).crossed = Crossing(P(u), tab[u])
    BY <1>2 DEF TabState
  <1>4. ASSUME NEW u \in Tab
        PROVE  /\ gone(u) \in TabState /\ gone(u).step = tab[u].step
               /\ gone(u).level = tab[u].level /\ gone(u).who = tab[u].who
               /\ gone(u).email = tab[u].email /\ gone(u).crossed = Crossing(P(u), tab[u])
    <2> DEFINE v == taken(u)
    <2>1. v \in TabState
      BY <1>3
    <2>2. \A l : /\ [v EXCEPT !.lost = l].step = v.step /\ [v EXCEPT !.lost = l].level = v.level
                 /\ [v EXCEPT !.lost = l].who = v.who /\ [v EXCEPT !.lost = l].email = v.email
                 /\ [v EXCEPT !.lost = l].crossed = v.crossed
      BY <2>1 DEF TabState
    <2>3. [v EXCEPT !.lost = @ \/ (u \in others /\ Working(u))] \in TabState
      BY <2>1 DEF TabState
    <2> QED BY <1>3, <2>2, <2>3
  <1>5. replaced \in [Tab -> TabState] /\ kept \in [Tab -> TabState]
    BY <1>3, <1>4, Records
  <1>6. \/ tab' = replaced /\ SetSession(t, [c EXCEPT !.user = a, !.attempted = FALSE])
        \/ tab' = kept /\ c.user = a /\ WriteBack(t, [c EXCEPT !.attempted = FALSE])
        \/ tab' = replaced /\ SetSession(t, [EmptySession EXCEPT !.user = a])
    BY DEF LogIn
  <1>7. \A u \in Tab \ {t} : tab'[u] \in {gone(u), taken(u)}
    BY <1>6
  <1>8. ASSUME NEW u \in Tab \ {t}
        PROVE  /\ Stays(u)
               /\ tab[u].step = "admitted" /\ P(u) => tab'[u].crossed
    BY <1>3, <1>4, <1>7 DEF Stays, Crossing
  <1>9. tab' \in [Tab -> TabState] /\ tab'[t] \in {IdleTab, LandingTab}
    BY <1>5, <1>6
  <1>10. /\ [c EXCEPT !.user = a, !.attempted = FALSE] \in Session
         /\ [c EXCEPT !.user = a, !.attempted = FALSE].user = a
         /\ [c EXCEPT !.attempted = FALSE] \in Session
         /\ [c EXCEPT !.attempted = FALSE].user = c.user
         /\ [EmptySession EXCEPT !.user = a] \in Session
         /\ [EmptySession EXCEPT !.user = a].user = a
    BY <1>1, Records DEF Session
  <1>11. IdleTab # LandingTab
    <2>1. IdleTab.step # LandingTab.step
      BY DEF IdleTab, LandingTab
    <2> QED BY <2>1
  <1>12. /\ session' \in [Browser -> Session]
         /\ tab'[t] = LandingTab => session'[BrowserOf[t]].user = a
    <2>1. CASE SetSession(t, [c EXCEPT !.user = a, !.attempted = FALSE])
      BY <2>1, <1>1, <1>10, Sets
    <2>2. CASE SetSession(t, [EmptySession EXCEPT !.user = a])
      BY <2>2, <1>1, <1>10, Sets
    <2>3. CASE tab' = kept /\ c.user = a /\ WriteBack(t, [c EXCEPT !.attempted = FALSE])
      <3>1. tab'[t] = LandingTab => ~tab[t].lost
        BY <2>3, <1>11
      <3> QED BY <3>1, <2>3, <1>1, <1>10 DEF WriteBack, SetSession
    <2> QED BY <2>1, <2>2, <2>3, <1>6
  <1> QED BY <1>8, <1>9, <1>12

\* The other tabs find what they found before: an invitation that is retrieved
\* has become a role, and a tab whose account is taken over is crossed.
LEMMA EnteredKeeps == ASSUME IInv, NEW t \in Tab, Entered(t) PROVE IInv'
  <1> DEFINE e == tab[t].email
             i == IF Pending(t) THEN [invitation EXCEPT ![e] = "retrieved"] ELSE invitation
             k == IF e \in Known \/ i[e] = "retrieved" THEN "known" ELSE "regular"
  <1>1. PICK a \in Account :
          /\ IF Matches(t) = {} THEN a = NextAccount ELSE Matches(t) = {a}
          /\ account' = [account EXCEPT ![a] = Row(t, IF Matches(t) = {} THEN k ELSE account[a].kind)]
          /\ role' = IF Pending(t) THEN role \cup {a} ELSE role
          /\ invitation' = i
          /\ LogIn(t, a)
    BY DEF Entered
  <1>2. tab[t].step = "admitted" /\ UNCHANGED <<mail, inactive, visits, changes, faults>>
    BY DEF Entered
  <1>3. TypeOK /\ tab[t].who \in Identity /\ e \in Email /\ e = mail[tab[t].who]
    BY <1>2, AccountFound DEF IInv, Fine
  <1>4. Row(t, IF Matches(t) = {} THEN k ELSE account[a].kind) \in User
    <2>1. k \in {"known", "regular"}
      OBVIOUS
    <2>2. CASE Matches(t) = {}
      BY <2>1, <2>2, <1>3 DEF Row, User
    <2>3. CASE Matches(t) # {}
      BY <2>3, <1>1, <1>2, AccountFound
    <2> QED BY <2>2, <2>3
  <1>5. TypeOK'
    <2>1. account' \in [Account -> User \cup {None}] /\ role' \subseteq Account
      BY <1>1, <1>3, <1>4 DEF TypeOK
    <2>2. invitation' \in [Email -> Status]
      BY <1>1, <1>3 DEF TypeOK, Status
    <2>3. session' \in [Browser -> Session] /\ tab' \in [Tab -> TabState]
      BY <1>1, LogInMoves
    <2> QED BY <2>1, <2>2, <2>3, <1>2, <1>3 DEF TypeOK
  <1>6. ASSUME NEW u \in Tab PROVE Fine(u)'
    <2>1. CASE u = t
      BY <2>1, <1>1, LogInMoves DEF Fine, Working, Unchecked, IdleTab, LandingTab
    <2>2. CASE u # t
      <3>1. /\ Stays(u)
            /\ tab[u].step = "admitted" /\ tab[u].who = account[a].sub /\ tab[u].who # tab[t].who
               => tab'[u].crossed
        BY <2>2, <1>1, LogInMoves
      <3>2. ASSUME Unchecked(u)', Found(u) PROVE Found(u)'
        <4>1. /\ tab[u].step = "admitted" /\ tab[u].who \in Identity
              /\ tab[u].email \in Email /\ tab[u].email = mail[tab[u].who]
              /\ tab[u].who = account[a].sub => tab[u].who = tab[t].who
          BY <3>1, <3>2 DEF Unchecked, Stays, IInv, Fine, Working
        <4>2. account'[a].sub = tab[t].who /\ \A b \in Account \ {a} : account'[b] = account[b]
          BY <1>1, <1>3 DEF TypeOK, Row
        <4>3. \A b \in AccountOf(tab[u].who) : b \in Account /\ account'[b].sub = tab[u].who
          BY <4>1, <4>2 DEF AccountOf
        <4>4. CASE tab[u].email \in Known
          BY <4>4, <3>1 DEF Found, Stays
        <4>5. CASE AccountOf(tab[u].who) \cap role # {}
          BY <4>5, <4>3, <3>1, <1>1 DEF Found, Stays, AccountOf
        <4>6. CASE invitation[tab[u].email] = "invited" /\ tab[u].email # e
          BY <4>6, <4>1, <3>1, <1>1, <1>3 DEF Found, Stays, TypeOK
        <4>7. CASE invitation[tab[u].email] = "invited" /\ tab[u].email = e
          <5>1. tab[u].who = tab[t].who
            BY <4>1, <4>7, <1>3, SignInAssumption DEF IInv, Distinct
          <5>2. a \in role'
            BY <4>7, <1>1 DEF Pending
          <5>3. a \in AccountOf(tab[u].who)'
            BY <5>1, <4>2, <3>1 DEF AccountOf, Stays
          <5> QED BY <5>2, <5>3 DEF Found
        <4> QED BY <3>2, <4>4, <4>5, <4>6, <4>7 DEF Found
      <3> QED BY <3>1, <3>2, <1>2, Stayers
    <2> QED BY <2>1, <2>2
  <1> QED BY <1>2, <1>5, <1>6 DEF IInv, Distinct

LEMMA AmbiguousKeeps == ASSUME IInv, NEW t \in Tab, Ambiguous(t) PROVE IInv'
  <1>1. /\ tab[t].step = "admitted"
        /\ UNCHANGED <<mail, inactive, role, invitation, session, visits, changes, faults>>
        /\ SetTab(t, IdleTab)
    BY DEF Ambiguous, Leave
  <1>2. TypeOK /\ tab' \in [Tab -> TabState] /\ tab'[t] = IdleTab
        /\ (\A u \in Tab \ {t} : tab'[u] = tab[u]) /\ session' \in [Browser -> Session]
    BY <1>1, Sets, Records DEF IInv, TypeOK
  <1>3. /\ account' \in [Account -> User \cup {None}]
        /\ \A b \in Account : account'[b].sub = account[b].sub
    <2>1. CASE UNCHANGED account
      BY <2>1, <1>2 DEF TypeOK
    <2>2. ASSUME NEW a \in Account, Matches(t) = {a}, Several(t, a),
                 account' = [account EXCEPT ![a] = Row(t, account[a].kind)]
          PROVE  <1>3!1 /\ <1>3!2
      <3>1. Row(t, account[a].kind) \in User /\ account[a].sub = tab[t].who
        BY <2>2, <1>1, AccountFound
      <3> QED BY <3>1, <2>2, <1>2 DEF TypeOK, Row
    <2> QED BY <2>1, <2>2 DEF Ambiguous
  <1>4. TypeOK'
    BY <1>1, <1>2, <1>3 DEF TypeOK
  <1>5. ASSUME NEW u \in Tab PROVE Fine(u)'
    <2>1. CASE u = t
      BY <2>1, <1>2 DEF Fine, Working, Unchecked, IdleTab
    <2>2. CASE u # t
      <3>1. Stays(u)
        BY <2>2, <1>2, UnchangedStays
      <3>2. Unchecked(u)' /\ Found(u) => Found(u)'
        BY <3>1, <1>1, <1>3 DEF Found, Stays, AccountOf
      <3> QED BY <3>1, <3>2, <1>1, Stayers
    <2> QED BY <2>1, <2>2
  <1> QED BY <1>1, <1>4, <1>5 DEF IInv, Distinct

-----------------------------------------------------------------------------
(* The invariant, and what follows *)

LEMMA InitInv == Init => IInv
  <1> SUFFICES ASSUME Init PROVE IInv
    OBVIOUS
  <1>1. Distinct
    BY SignInAssumption DEF Init, Distinct
  <1>2. \A t \in Tab : Fine(t)
    BY DEF Init, Fine, Working, Unchecked, IdleTab
  <1> QED BY <1>1, <1>2, InitTypes DEF IInv

LEMMA SimpleKeeps == ASSUME IInv, NEW t \in Tab, Simple(t) PROVE IInv'
  <1>1. Alone(t) /\ Fine(t)' /\ TypeOK
    BY SimpleMoves DEF IInv
  <1>2. visits' \in 0..MaxVisits /\ changes' \in 0..MaxChanges /\ faults' \in 0..MaxFaults
    <2>1. UNCHANGED changes
      BY DEF Simple, Visit, Land, Unavailable, Accepted, Mismatch, Refused, LoginRequired,
             Failed, StepUp, Admitted, database
    <2>2. UNCHANGED visits \/ (visits < MaxVisits /\ visits' = visits + 1)
      BY DEF Simple, Visit, Land, Unavailable, Accepted, Mismatch, Refused, LoginRequired,
             Failed, StepUp, Admitted
    <2>3. UNCHANGED faults \/ (faults < MaxFaults /\ faults' = faults + 1)
      BY DEF Simple, Visit, Land, Unavailable, Accepted, Mismatch, Refused, LoginRequired,
             Failed, StepUp, Admitted
    <2> QED BY <1>1, <2>1, <2>2, <2>3, CounterTypes DEF TypeOK
  <1>3. TypeOK'
    BY <1>1, <1>2 DEF TypeOK, Alone
  <1>4. ASSUME NEW u \in Tab \ {t} PROVE Fine(u)'
    BY <1>1, UnchangedStays, NothingTaken DEF Alone
  <1> QED BY <1>1, <1>3, <1>4 DEF IInv, Distinct, Alone

LEMMA StutterKeeps == IInv /\ UNCHANGED vars => IInv'
  BY DEF IInv, vars, TypeOK, Distinct, Fine, Working, Unchecked, Found, AccountOf

LEMMA StepKeeps == IInv /\ [Next]_vars => IInv'
  <1> SUFFICES ASSUME IInv, [Next]_vars PROVE IInv'
    OBVIOUS
  <1>1. ASSUME NEW t \in Tab, Visit(t) \/ Logout(t) \/ TabStep(t) PROVE IInv'
    BY <1>1, SimpleKeeps, LogoutKeeps, EnteredKeeps, AmbiguousKeeps DEF TabStep, Simple
  <1>2. ASSUME NEW b \in Browser, Expire(b) PROVE IInv'
    BY <1>2, ExpireKeeps
  <1>3. ASSUME NEW i \in Identity, NEW e \in Email \cup {Nobody}, ChangeMail(i, e) PROVE IInv'
    BY <1>3, ChangeMailKeeps
  <1>4. ASSUME NEW e \in Email, Invite(e) \/ CancelInvitation(e) PROVE IInv'
    BY <1>4, InviteKeeps, CancelKeeps
  <1>5. ASSUME NEW a \in Account, AddManager(a) \/ RemoveManager(a) \/ Deactivate(a) PROVE IInv'
    BY <1>5, AddManagerKeeps, RemoveKeeps, DeactivateKeeps
  <1>6. CASE UNCHANGED vars
    BY <1>6, StutterKeeps
  <1> QED BY <1>1, <1>2, <1>3, <1>4, <1>5, <1>6 DEF Next

\* The inductive invariant: the address of an admitted tab is that of its
\* identity and of no other, and what let it through is there or was taken away.
THEOREM Invariance == Spec => []IInv
  BY InitInv, StepKeeps, PTL DEF Spec

\* Sessions, tabs, accounts, invitations and roles keep their types.
THEOREM TypeCorrect == Spec => []TypeOK
  <1>1. IInv => TypeOK
    BY DEF IInv
  <1> QED BY <1>1, Invariance, PTL

\* Only the login takes an admitted tab back to a page.
LEMMA OnlyEntered ==
  ASSUME IInv, Next, NEW t \in Tab, tab[t].step = "admitted", tab'[t].step = "landing"
  PROVE  Entered(t)
  <1>1. ~Stays(t)
    BY DEF Stays
  <1>2. \A u \in Tab : Simple(u) => u # t /\ tab'[t] = tab[t]
    BY SimpleMoves DEF Alone
  <1>3. \A u \in Tab : ~Simple(u)
    BY <1>1, <1>2, UnchangedStays
  <1>4. \A u \in Tab : ~Logout(u)
    <2> SUFFICES ASSUME NEW u \in Tab, Logout(u) PROVE FALSE
      OBVIOUS
    <2>1. TypeOK /\ TabsOf(BrowserOf[u]) \in SUBSET Tab
      BY DEF IInv, TabsOf
    <2> QED BY <2>1, <1>1, LosingStays DEF Logout
  <1>5. \A b \in Browser : ~Expire(b)
    <2> SUFFICES ASSUME NEW b \in Browser, Expire(b) PROVE FALSE
      OBVIOUS
    <2>1. TypeOK /\ TabsOf(b) \in SUBSET Tab
      BY DEF IInv, TabsOf
    <2> QED BY <2>1, <1>1, LosingStays DEF Expire
  <1>6. \A i \in Identity, e \in Email \cup {Nobody} : ~ChangeMail(i, e)
    BY DEF ChangeMail
  <1>7. \A e \in Email : ~Invite(e) /\ ~CancelInvitation(e)
    <2> SUFFICES ASSUME NEW e \in Email, CancelInvitation(e) PROVE FALSE
      BY DEF Invite
    <2> DEFINE P == [u \in Tab |-> tab[u].email = e]
    <2>1. TypeOK /\ P \in [Tab -> BOOLEAN]
      BY DEF IInv
    <2>2. tab' = [u \in Tab |-> [tab[u] EXCEPT !.crossed = Crossing(P[u], tab[u])]]
      BY DEF CancelInvitation
    <2> QED BY <2>1, <2>2, <1>1, CrossingStays
  <1>8. \A a \in Account : ~AddManager(a) /\ ~RemoveManager(a) /\ ~Deactivate(a)
    <2> SUFFICES ASSUME NEW a \in Account, RemoveManager(a) PROVE FALSE
      BY DEF AddManager, Deactivate
    <2> DEFINE P == [u \in Tab |-> tab[u].who = account[a].sub \/ tab[u].email = account[a].mail]
    <2>1. TypeOK /\ P \in [Tab -> BOOLEAN]
      BY DEF IInv
    <2>2. tab' = [u \in Tab |-> [tab[u] EXCEPT !.crossed = Crossing(P[u], tab[u])]]
      BY DEF RemoveManager
    <2> QED BY <2>1, <2>2, <1>1, CrossingStays
  <1>9. ASSUME NEW u \in Tab, Entered(u) PROVE u = t
    <2>1. PICK a \in Account : LogIn(u, a)
      BY <1>9 DEF Entered
    <2> QED BY <2>1, <1>1, LogInMoves
  <1>10. \A u \in Tab : ~Ambiguous(u)
    <2> SUFFICES ASSUME NEW u \in Tab, Ambiguous(u) PROVE FALSE
      OBVIOUS
    <2>1. /\ tab'[u] = IdleTab
          /\ \A v \in Tab \ {u} : tab'[v] = tab[v]
      BY Sets, Records DEF Ambiguous, Leave, IInv
    <2> QED BY <2>1, <1>1, UnchangedStays DEF IdleTab
  <1> QED BY <1>3, <1>4, <1>5, <1>6, <1>7, <1>8, <1>9, <1>10 DEF Next, TabStep, Simple

\* Whoever gets in at the lower level is known when they are in, by their
\* address or by a role, whatever other tabs and people did after the check.
THEOREM VerifiedOrKnownHolds == Spec => VerifiedOrKnown
  <1> DEFINE In(t) ==
        LET a == session'[BrowserOf[t]].user
        IN /\ account'[a].mail \in Known \/ a \in role'
           /\ account[a] = None => account'[a].kind = "known"
  <1>1. ASSUME IInv, Next, NEW t \in Tab, tab[t].step = "admitted", tab[t].level = 1,
               ~tab[t].crossed, tab'[t].step = "landing"
        PROVE  In(t)
    <2> DEFINE e == tab[t].email
               i == IF Pending(t) THEN [invitation EXCEPT ![e] = "retrieved"] ELSE invitation
               k == IF e \in Known \/ i[e] = "retrieved" THEN "known" ELSE "regular"
    <2>1. Entered(t)
      BY <1>1, OnlyEntered
    <2>2. PICK a \in Account :
            /\ IF Matches(t) = {} THEN a = NextAccount ELSE Matches(t) = {a}
            /\ account' = [account EXCEPT ![a] = Row(t, IF Matches(t) = {} THEN k ELSE account[a].kind)]
            /\ role' = IF Pending(t) THEN role \cup {a} ELSE role
            /\ LogIn(t, a)
      BY <2>1 DEF Entered
    <2>3. session'[BrowserOf[t]].user = a
      <3>1. tab'[t] \in {IdleTab, LandingTab} /\ (tab'[t] = LandingTab => session'[BrowserOf[t]].user = a)
        BY <1>1, <2>2, LogInMoves
      <3>2. IdleTab.step # "landing"
        BY DEF IdleTab
      <3> QED BY <3>1, <3>2, <1>1
    <2>4. account'[a] = Row(t, IF Matches(t) = {} THEN k ELSE account[a].kind)
      BY <2>2, <1>1 DEF IInv, TypeOK
    <2>5. Found(t) /\ e \in Email /\ invitation \in [Email -> Status]
      BY <1>1 DEF IInv, Fine, Unchecked, Working, TypeOK
    <2>6. CASE AccountOf(tab[t].who) \cap role # {}
      <3>1. Matches(t) = {a} /\ a \in role
        BY <2>6, <2>2 DEF Matches
      <3>2. account[a] # None
        BY <3>1, <1>1, AccountFound
      <3> QED BY <3>1, <3>2, <2>2, <2>3
    <2>7. CASE e \in Known \/ invitation[e] = "invited"
      <3>1. account'[a].mail = e
        BY <2>4 DEF Row
      <3>2. e \in Known \/ a \in role'
        BY <2>7, <2>2 DEF Pending
      <3>3. k = "known"
        BY <2>5, <2>7 DEF Pending
      <3>4. account[a] = None => Matches(t) = {}
        BY <1>1, <2>2, AccountFound
      <3>5. account[a] = None => account'[a].kind = "known"
        BY <3>3, <3>4, <2>4 DEF Row
      <3> QED BY <3>1, <3>2, <3>5, <2>3
    <2> QED BY <2>5, <2>6, <2>7 DEF Found
  <1>2. IInv /\ [Next]_vars =>
          [\A t \in Tab :
             /\ tab[t].step = "admitted" /\ tab[t].level = 1 /\ ~tab[t].crossed
             /\ tab'[t].step = "landing"
             => LET a == session'[BrowserOf[t]].user
                IN /\ account'[a].mail \in Known \/ a \in role'
                   /\ account[a] = None => account'[a].kind = "known"]_vars
    BY <1>1
  <1> QED BY <1>2, Invariance, PTL DEF Spec, VerifiedOrKnown

=============================================================================
