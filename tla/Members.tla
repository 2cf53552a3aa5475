------------------------------- MODULE Members -------------------------------
(***************************************************************************)
(* Who manages a domain and who belongs to a portfolio: the rows of        *)
(* UserDomainRole, DomainInvitation, UserPortfolioPermission and           *)
(* PortfolioInvitation, the pages of domain managers and portfolio admins  *)
(* that change them, the admin site, and what a login does to invitations. *)
(*                                                                         *)
(* A person is an e-mail address in lower case; an account is a User row.  *)
(* The flag multiple_portfolios is off.                                    *)
(*                                                                         *)
(* A page is one database transaction.  It decides by what it has read,    *)
(* `v`, and its writes take effect together at its commit, on the rows as  *)
(* they are then, `db`.  A page that overlaps another has read the rows as *)
(* they were before that one committed, `before`.                          *)
(***************************************************************************)
EXTENDS Integers, FiniteSets

CONSTANTS
  Person,     \* e-mail addresses
  Staff,      \* the persons with access to the admin site
  Domain,     \* domains
  Portfolio,  \* portfolios
  NoOrg,      \* no portfolio
  Org,        \* the portfolio of each domain, or NoOrg
  Rows,       \* bound: invitations of a person, to one domain or to portfolios
  MaxPages,   \* bound: pages committed, logins apart
  Overlap     \* may two pages overlap in time?

ASSUME MembersAssumption ==
  /\ Staff \subseteq Person
  /\ NoOrg \notin Portfolio
  /\ Org \in [Domain -> Portfolio \cup {NoOrg}]
  /\ Rows \in Nat
  /\ MaxPages \in Nat
  /\ Overlap \in BOOLEAN

VARIABLES
  db,         \* the committed rows
  before,     \* the rows as they were before the last commit
  overlapped, \* history: has a page committed that overlapped another?
  pages,      \* how many pages have been committed
  by,         \* history: who made the last commit
  transferred \* history: the persons whose account was merged into another

vars == <<db, before, overlapped, pages, by, transferred>>

-----------------------------------------------------------------------------
(* The tables *)

\* Numbers of rows grow like primary keys.
Row == 1..Rows
InvitationStatus == {"invited", "retrieved", "canceled"}
PortfolioRole == {"admin", "member"}
NoRow == [org |-> NoOrg, role |-> "none", status |-> "none"]
PortfolioInvitation ==
  [org : Portfolio, role : PortfolioRole, status : {"invited", "retrieved"}] \cup {NoRow}

Database ==
  [account : SUBSET Person,
   role    : [Person -> SUBSET Domain],
   dinv    : [Person -> [Domain -> [Row -> InvitationStatus \cup {"none"}]]],
   perm    : [Person -> [Portfolio -> PortfolioRole \cup {"none"}]],
   pinv    : [Person -> [Row -> PortfolioInvitation]]]

TypeOK ==
  /\ db \in Database
  /\ before \in Database
  /\ overlapped \in BOOLEAN
  /\ pages \in 0..MaxPages
  /\ by \in {"login", "manager", "admin", "staff"}
  /\ transferred \subseteq Person

\* Only the staff has logged in; nobody manages or belongs to anything yet.
EmptyDatabase ==
  [account |-> Staff,
   role    |-> [p \in Person |-> {}],
   dinv    |-> [p \in Person |-> [d \in Domain |-> [i \in Row |-> "none"]]],
   perm    |-> [p \in Person |-> [o \in Portfolio |-> "none"]],
   pinv    |-> [p \in Person |-> [i \in Row |-> NoRow]]]

Init ==
  /\ db = EmptyDatabase /\ before = EmptyDatabase
  /\ overlapped = FALSE /\ pages = 0 /\ by = "staff" /\ transferred = {}

DomainRows(x, p, d) == {i \in Row : x.dinv[p][d][i] # "none"}
PortfolioRows(x, p) == {i \in Row : x.pinv[p][i] # NoRow}
Pending(x, p) == {i \in Row : x.pinv[p][i].status = "invited"}
NewRows(used) == {i \in Row : \A j \in used : j < i}
NextRow(used) == CHOOSE i \in NewRows(used) : \A j \in NewRows(used) : i <= j

OrgsOf(x, p) == {o \in Portfolio : x.perm[p][o] # "none"}
DomainsOf(o) == {d \in Domain : Org[d] = o}
Managers(x, d) == {p \in Person : d \in x.role[p]}
Admins(x, o) == {p \in Person : x.perm[p][o] = "admin"}

\* A mutant: counts all members.
OnlyAdmin_AnyRole(x, o, p) == {q \in Person : x.perm[q][o] # "none"} = {p}

OnlyAdmin(x, o, p) == Admins(x, o) = {p}

InSeveral(x, p) == \E o1, o2 \in OrgsOf(x, p) : o1 # o2

\* get_first_portfolio; persons with several may have any of them first.
FirstPermission(x, p) == IF OrgsOf(x, p) = {} THEN {NoOrg} ELSE OrgsOf(x, p)
FirstInvitation(x, p) ==
  IF PortfolioRows(x, p) = {} THEN NoOrg
  ELSE LET i == CHOOSE i \in PortfolioRows(x, p) : \A j \in PortfolioRows(x, p) : i <= j
       IN x.pinv[p][i].org

\* The two answers of get_org_membership; `f` is the portfolio of the first
\* permission. An invitation counts whatever its status is.
OfOtherOrg(x, o, p, f) ==
  \E g \in {f, FirstInvitation(x, p)} : g # NoOrg /\ g # o
OfThisOrg(x, o, p, f) ==
  \E g \in {f, FirstInvitation(x, p)} : g # NoOrg /\ g = o

-----------------------------------------------------------------------------
(* Changes of the tables that several pages share                          *)

SetInvitation(x, p, d, i, s) == [x EXCEPT !.dinv[p][d][i] = s]

AddRole(x, p, d) == [x EXCEPT !.role[p] = @ \cup {d}]

\* A mutant: no receiver is connected to the signal.
DeleteRoles_NoSignal(x, p, D) == [x EXCEPT !.role[p] = @ \ D]

\* Deleting a role sends a signal whose receiver deletes the person's
\* retrieved invitations to that domain.
DeleteRoles(x, p, D) ==
  [x EXCEPT
     !.role[p] = @ \ D,
     !.dinv[p] = [d \in Domain |-> [i \in Row |->
        IF d \in D \cap x.role[p] /\ x.dinv[p][d][i] = "retrieved"
        THEN "none" ELSE x.dinv[p][d][i]]]]

\* PortfolioInvitation.retrieve, and the save that follows it.
RetrieveRow(x, p, i, row) ==
  [x EXCEPT !.perm[p][row.org] = row.role,
            !.pinv[p][i] = [row EXCEPT !.status = "retrieved"]]

\* A mutant: writes a status that is none.
Cleanup_Spelling(v, x, p, o, user) ==
  [x EXCEPT !.dinv[p] = [d \in Domain |-> [i \in Row |->
     IF d \in DomainsOf(o) /\ v.dinv[p][d][i] = "invited"
     THEN "cancelled" ELSE x.dinv[p][d][i]]]]

\* cleanup_after_portfolio_member_deletion; the roles are those of a user.
Cleanup(v, x, p, o, user) ==
  LET cancelled == [x EXCEPT !.dinv[p] = [d \in Domain |-> [i \in Row |->
                      IF d \in DomainsOf(o) /\ v.dinv[p][d][i] = "invited"
                      THEN "canceled" ELSE x.dinv[p][d][i]]]]
  IN IF user THEN DeleteRoles(cancelled, p, DomainsOf(o)) ELSE cancelled

Outcome(x, ok) == [db |-> x, ok |-> ok]

\* send_domain_invitation_email for one domain: a cancelled invitation is
\* pending again although a later check or the mail may fail.
SendDomainInvitation(v, x, p, d, other, user, mail) ==
  LET rows      == DomainRows(v, p, d)
      cancelled == {i \in rows : v.dinv[p][d][i] = "canceled"}
      again     == IF Cardinality(rows) = 1 /\ cancelled # {}
                   THEN SetInvitation(x, p, d, CHOOSE i \in rows : TRUE, "invited")
                   ELSE x
  IN IF other \/ Cardinality(rows) > 1 \/ (rows # {} /\ cancelled = {})
     THEN Outcome(x, FALSE)
     ELSE Outcome(again, ~(user /\ d \in v.role[p]) /\ mail)

\* A mutant: does not look for the invitation.
GetOrCreate_Creates(v, x, p, d) ==
  SetInvitation(x, p, d, NextRow(DomainRows(x, p, d)), "invited")

\* DomainInvitation.objects.get_or_create
GetOrCreate(v, x, p, d) ==
  IF DomainRows(v, p, d) # {} THEN x
  ELSE SetInvitation(x, p, d, NextRow(DomainRows(x, p, d)), "invited")

\* The invitation to the domain's portfolio that comes with one to a domain.
InviteToPortfolio(v, x, p, o, mail) ==
  LET found == {i \in Row : v.pinv[p][i].org = o /\ v.pinv[p][i].role = "member"}
      i     == IF found = {} THEN NextRow(PortfolioRows(x, p)) ELSE CHOOSE j \in found : TRUE
      row   == IF found = {} THEN [org |-> o, role |-> "member", status |-> "invited"]
               ELSE v.pinv[p][i]
  IN IF ~mail \/ Cardinality(found) > 1 \/ (p \in v.account /\ row.status # "invited")
     THEN Outcome(x, FALSE)
     ELSE Outcome(IF p \in v.account THEN RetrieveRow(x, p, i, row)
                  ELSE IF found = {} THEN [x EXCEPT !.pinv[p][i] = row] ELSE x, TRUE)

\* A page that has read `v` leaves the tables as `x`. Pages that change
\* nothing are left out; one that gives something to an account deleted
\* meanwhile breaks a foreign key.
Store(v, x) ==
  /\ x # db
  /\ \A p \in Person \ x.account : x.role[p] = {} /\ OrgsOf(x, p) = {}
  /\ db' = x
  /\ before' = IF Overlap THEN db ELSE before
  /\ overlapped' = (overlapped \/ v # db)

Commit(v, x) ==
  /\ Store(v, x)
  /\ pages' = pages + 1
  /\ UNCHANGED transferred

Views == IF Overlap THEN {db, before} ELSE {db}

-----------------------------------------------------------------------------
(* Login *)

\* A mutant: only a new account retrieves its invitations.
Login_FirstOnly(v, p) ==
  /\ p \notin v.account /\ p \notin db.account
  /\ Store(v, [db EXCEPT
       !.account = @ \cup {p},
       !.role[p] = @ \cup {d \in Domain : \E i \in Row : v.dinv[p][d][i] = "invited"},
       !.dinv[p] = [d \in Domain |-> [i \in Row |->
          IF v.dinv[p][d][i] = "invited" THEN "retrieved" ELSE db.dinv[p][d][i]]]])
  /\ by' = "login"
  /\ UNCHANGED <<pages, transferred>>

\* A person logs in, the first time with a new account. Every pending
\* invitation to a domain is retrieved; one to a portfolio as long as the
\* person is in no portfolio.
Login(v, p) ==
  LET known   == [db EXCEPT !.account = @ \cup {p}]
      manager == [known EXCEPT
                    !.role[p] = @ \cup {d \in Domain : \E i \in Row : v.dinv[p][d][i] = "invited"},
                    !.dinv[p] = [d \in Domain |-> [i \in Row |->
                       IF v.dinv[p][d][i] = "invited" THEN "retrieved" ELSE db.dinv[p][d][i]]]]
  IN /\ p \in db.account => p \in v.account
     /\ IF OrgsOf(v, p) # {} \/ Pending(v, p) = {}
        THEN Store(v, manager)
        ELSE \E i \in Pending(v, p) : Store(v, RetrieveRow(manager, p, i, v.pinv[p][i]))
     /\ by' = "login"
     /\ UNCHANGED <<pages, transferred>>

-----------------------------------------------------------------------------
(* The pages of a domain's managers *)

\* A manager whose portfolio, if any, has the domain; or staff.
MayManage(v, a, d) ==
  \/ a \in Staff
  \/ /\ d \in v.role[a]
     /\ OrgsOf(v, a) = {} \/ Org[d] \in OrgsOf(v, a)

\* May `a`, who invites to a domain of `o`, invite to `o` as well?
InvitesToPortfolio(v, a, o) ==
  /\ OrgsOf(v, a) # {}
  /\ o # NoOrg
  /\ o \in OrgsOf(v, a) \/ a \in Staff

\* First the portfolio, where the person is not known there, then the
\* domain. An exception ends the page and keeps what was done before it;
\* but a role that another page has created meanwhile breaks the
\* transaction.
AddManager(v, a, p, d, f, orgMail, mail) ==
  LET o      == Org[d]
      first  == IF InvitesToPortfolio(v, a, o) /\ ~OfThisOrg(v, o, p, f)
                THEN InviteToPortfolio(v, db, p, o, orgMail)
                ELSE Outcome(db, TRUE)
      second == IF first.ok
                THEN SendDomainInvitation(v, first.db, p, d, OfOtherOrg(v, o, p, f),
                                          p \in v.account, mail)
                ELSE first
  IN /\ MayManage(v, a, d)
     /\ NewRows(PortfolioRows(db, p)) # {}
     /\ DomainRows(v, p, d) = {} => NewRows(DomainRows(db, p, d)) # {}
     /\ \/ ~second.ok /\ Commit(v, second.db)
        \/ /\ second.ok /\ p \in v.account /\ d \notin db.role[p]
           /\ Commit(v, AddRole(second.db, p, d))
        \/ second.ok /\ p \notin v.account /\ Commit(v, GetOrCreate(v, second.db, p, d))

CancelInvitation(v, a, p, d, i) ==
  /\ MayManage(v, a, d)
  /\ v.dinv[p][d][i] = "invited"
  /\ Commit(v, SetInvitation(db, p, d, i, "canceled"))

\* The last manager of a domain cannot be removed.
RemoveManager(v, a, p, d) ==
  /\ MayManage(v, a, d)
  /\ d \in v.role[p]
  /\ Cardinality(Managers(v, d)) > 1
  /\ Commit(v, DeleteRoles(db, p, {d}))

-----------------------------------------------------------------------------
(* The pages of a portfolio's admins *)

MayEditMembers(v, a, o) == v.perm[a][o] = "admin"

\* A mutant: looks at invitations only.
ValidInvitation_PendingOnly(v, p, i) == Pending(v, p) \subseteq {i}

\* validate_portfolio_invitation, for invitation `i` of the person.
ValidInvitation(v, p, i) == OrgsOf(v, p) = {} /\ Pending(v, p) \subseteq {i}

\* validate_user_portfolio_permission
ValidPermission(v, o, p) ==
  /\ OrgsOf(v, p) \subseteq {o}
  /\ \A i \in Pending(v, p) : v.pinv[p][i].org = o

\* A person with an account is a member at once.
AddMember(v, a, o, p, r) ==
  LET i   == NextRow(PortfolioRows(db, p))
      row == [org |-> o, role |-> r, status |-> "invited"]
  IN /\ MayEditMembers(v, a, o) \/ a \in Staff
     /\ ValidInvitation(v, p, 0)
     /\ NewRows(PortfolioRows(db, p)) # {}
     /\ Commit(v, IF p \in v.account THEN RetrieveRow(db, p, i, row)
                  ELSE [db EXCEPT !.pinv[p][i] = row])

\* Members with active requests are refused as well; those are not seen here.
RemoveMember(v, a, o, p) ==
  /\ MayEditMembers(v, a, o)
  /\ v.perm[p][o] # "none"
  /\ ~OnlyAdmin(v, o, p)
  /\ Commit(v, Cleanup(v, [db EXCEPT !.perm[p][o] = "none"], p, o, TRUE))

\* The whole row is saved; one removed meanwhile is inserted again.
ChangeMember(v, a, o, p, r) ==
  /\ MayEditMembers(v, a, o)
  /\ v.perm[p][o] # "none"
  /\ ~OnlyAdmin(v, o, p)
  /\ ValidPermission(v, o, p)
  /\ Commit(v, [db EXCEPT !.perm[p][o] = r])

\* The page takes several domains; they are dealt with one after the other.
AddMemberDomain(v, a, o, p, d, f, mail) ==
  LET sent == SendDomainInvitation(v, db, p, d, OfOtherOrg(v, o, p, f), TRUE, mail)
  IN /\ MayEditMembers(v, a, o)
     /\ v.perm[p][o] # "none"
     /\ d \in DomainsOf(o)
     /\ Commit(v, IF sent.ok THEN AddRole(sent.db, p, d) ELSE sent.db)

RemoveMemberDomain(v, a, o, p, d) ==
  /\ MayEditMembers(v, a, o)
  /\ v.perm[p][o] # "none"
  /\ d \in DomainsOf(o)
  /\ Commit(v, DeleteRoles(db, p, {d}))

\* Only a pending invitation takes the roles along.
DeleteInvitedMember(v, a, o, p, i) ==
  LET gone == [db EXCEPT !.pinv[p][i] = NoRow]
  IN /\ MayEditMembers(v, a, o) \/ a \in Staff
     /\ v.pinv[p][i].org = o
     /\ Commit(v, IF v.pinv[p][i].status = "invited"
                  THEN Cleanup(v, gone, p, o, p \in v.account) ELSE gone)

\* The whole row is saved, its status as it was read.
EditInvitedMember(v, a, o, p, i, r) ==
  /\ MayEditMembers(v, a, o) \/ a \in Staff
  /\ v.pinv[p][i].org = o
  /\ ValidInvitation(v, p, i)
  /\ Commit(v, [db EXCEPT !.pinv[p][i] = [v.pinv[p][i] EXCEPT !.role = r]])

AddInvitedMemberDomain(v, a, o, p, i, d, mail) ==
  LET sent == SendDomainInvitation(v, db, p, d, OfOtherOrg(v, o, p, NoOrg), FALSE, mail)
      rows == DomainRows(db, p, d)
  IN /\ MayEditMembers(v, a, o)
     /\ v.pinv[p][i].org = o
     /\ d \in DomainsOf(o)
     /\ IF ~sent.ok THEN Commit(v, sent.db)
        ELSE Commit(v, [db EXCEPT !.dinv[p][d] = [j \in Row |->
               IF j \in rows \/ (rows = {} /\ j = NextRow({})) THEN "invited" ELSE "none"]])

RemoveInvitedMemberDomain(v, a, o, p, i, d) ==
  /\ MayEditMembers(v, a, o)
  /\ v.pinv[p][i].org = o
  /\ d \in DomainsOf(o)
  /\ Commit(v, [db EXCEPT !.dinv[p][d] = [j \in Row |->
       IF db.dinv[p][d][j] = "invited" THEN "canceled" ELSE db.dinv[p][d][j]]])

-----------------------------------------------------------------------------
(* The admin site *)

\* Adds an invitation to a domain, which an account retrieves at once. It is
\* a row of its own even if the check has reinstated a cancelled one.
StaffInvite(v, a, p, d, f, orgMail, mail) ==
  LET o      == Org[d]
      first  == IF InvitesToPortfolio(v, a, o) /\ ~OfThisOrg(v, o, p, f) /\ ~OfOtherOrg(v, o, p, f)
                THEN InviteToPortfolio(v, db, p, o, orgMail)
                ELSE Outcome(db, TRUE)
      second == IF first.ok
                THEN SendDomainInvitation(v, first.db, p, d, OfOtherOrg(v, o, p, f),
                                          p \in v.account, mail)
                ELSE first
      i      == NextRow(DomainRows(db, p, d))
  IN /\ NewRows(PortfolioRows(db, p)) # {}
     /\ NewRows(DomainRows(db, p, d)) # {}
     /\ \/ ~second.ok /\ Commit(v, second.db)
        \/ /\ second.ok /\ p \in v.account
           /\ Commit(v, AddRole(SetInvitation(second.db, p, d, i, "retrieved"), p, d))
        \/ /\ second.ok /\ p \notin v.account
           /\ Commit(v, SetInvitation(second.db, p, d, i, "invited"))

StaffDeleteInvitation(v, p, d, i) == Commit(v, SetInvitation(db, p, d, i, "none"))

StaffAddManager(v, p, d) == p \in v.account /\ Commit(v, AddRole(db, p, d))

StaffRemoveManager(v, p, d) == Commit(v, DeleteRoles(db, p, {d}))

StaffSetMember(v, o, p, r) ==
  /\ p \in v.account
  /\ ValidPermission(v, o, p)
  /\ v.perm[p][o] = "none" => db.perm[p][o] = "none"
  /\ Commit(v, [db EXCEPT !.perm[p][o] = r])

StaffRemoveMember(v, o, p) ==
  /\ v.perm[p][o] # "none"
  /\ Commit(v, Cleanup(v, [db EXCEPT !.perm[p][o] = "none"], p, o, TRUE))

\* What `p` has goes to `q`, unless `q` has the like; then the account of
\* `p` is deleted, and what is left with it.
TransferUser(v, p, q) ==
  LET left == DeleteRoles(db, p, db.role[p] \cap db.role[q])
  IN /\ p # q /\ p \notin Staff
     /\ {p, q} \subseteq v.account \cap db.account
     /\ Store(v, [left EXCEPT
          !.account = @ \ {p},
          !.role[q] = @ \cup db.role[p],
          !.role[p] = {},
          !.perm[q] = [o \in Portfolio |->
             IF db.perm[q][o] = "none" THEN db.perm[p][o] ELSE db.perm[q][o]],
          !.perm[p] = [o \in Portfolio |-> "none"]])
     /\ pages' = pages + 1
     /\ transferred' = transferred \cup {p}

-----------------------------------------------------------------------------

DomainPages(v) ==
  \E a \in Person, p \in Person, d \in Domain :
    \/ \E f \in FirstPermission(v, p), orgMail \in BOOLEAN, mail \in BOOLEAN :
         AddManager(v, a, p, d, f, orgMail, mail)
    \/ \E i \in Row : CancelInvitation(v, a, p, d, i)
    \/ RemoveManager(v, a, p, d)

MemberPages(v) ==
  \E a \in Person, o \in Portfolio, p \in Person :
    \/ \E r \in PortfolioRole : AddMember(v, a, o, p, r) \/ ChangeMember(v, a, o, p, r)
    \/ RemoveMember(v, a, o, p)
    \/ \E d \in Domain, f \in FirstPermission(v, p), mail \in BOOLEAN :
         AddMemberDomain(v, a, o, p, d, f, mail)
    \/ \E d \in Domain : RemoveMemberDomain(v, a, o, p, d)
    \/ \E i \in Row :
         \/ DeleteInvitedMember(v, a, o, p, i)
         \/ \E r \in PortfolioRole : EditInvitedMember(v, a, o, p, i, r)
         \/ \E d \in Domain :
              \/ \E mail \in BOOLEAN : AddInvitedMemberDomain(v, a, o, p, i, d, mail)
              \/ RemoveInvitedMemberDomain(v, a, o, p, i, d)

StaffPages(v) ==
  \/ \E a \in Staff, p \in Person, d \in Domain, f \in Portfolio \cup {NoOrg} :
       \E orgMail \in BOOLEAN, mail \in BOOLEAN :
         f \in FirstPermission(v, p) /\ StaffInvite(v, a, p, d, f, orgMail, mail)
  \/ \E p \in Person, d \in Domain, i \in Row : StaffDeleteInvitation(v, p, d, i)
  \/ \E p \in Person, d \in Domain : StaffAddManager(v, p, d) \/ StaffRemoveManager(v, p, d)
  \/ \E o \in Portfolio, p \in Person :
       \/ \E r \in PortfolioRole : StaffSetMember(v, o, p, r)
       \/ StaffRemoveMember(v, o, p)
  \/ \E p \in Person, q \in Person : TransferUser(v, p, q)

\* `by` tells apart a person who logs in, the managers of a domain, the
\* admins of a portfolio and the admin site.
Next ==
  \E v \in Views :
    \/ \E p \in Person : Login(v, p)
    \/ /\ pages < MaxPages
       /\ \/ DomainPages(v) /\ by' = "manager"
          \/ MemberPages(v) /\ by' = "admin"
          \/ StaffPages(v) /\ by' = "staff"

\* Everybody logs in again and again.
Spec == Init /\ [][Next]_vars /\ \A p \in Person : WF_vars(Login(db, p))

-----------------------------------------------------------------------------
(* Properties. Where a page decides by what another has just changed, *)
(* nothing but the constraints of the database holds: most of them are    *)
(* about histories without overlap.                                       *)

\* Whoever has retrieved an invitation to a domain has an account and manages
\* the domain, whichever pages have invited, cancelled, removed or deleted
\* since: the receiver of the deletion signal and the pages of portfolios
\* leave no retrieved invitation behind. Only the transfer of an account does.
RetrievedHasRole ==
  ~overlapped => \A p \in Person \ transferred, d \in Domain, i \in Row :
    db.dinv[p][d][i] = "retrieved" => p \in db.account /\ d \in db.role[p]

\* Only the admin site gives a person a second invitation to one domain: the
\* pages of managers and of portfolios, which look an invitation up with
\* get(), cannot make that fail for ever.
OneInvitation ==
  [][\A p \in Person, d \in Domain :
       ~overlapped' /\ Cardinality(DomainRows(db, p, d)) <= 1 /\ by' # "staff"
         => Cardinality(DomainRows(db', p, d)) <= 1]_vars

\* No page but the admin site's takes the last admin from a portfolio, as
\* long as nobody is in two of them: whoever invites such a person to a
\* domain invites to its portfolio as well, and the admin becomes a member.
OrgKeepsAdmin ==
  [][\A o \in Portfolio :
       /\ ~overlapped'
       /\ Admins(db, o) # {} /\ by' # "staff"
       /\ \A q \in Person : ~InSeveral(db, q)
       => Admins(db', o) # {}]_vars

\* Nobody comes into a second portfolio by the pages for its members, or by
\* logging in. An invitation to a domain and the admin site can do it.
OnePortfolio ==
  [][\A p \in Person :
       ~overlapped' /\ ~InSeveral(db, p) /\ by' \in {"admin", "login"}
         => ~InSeveral(db', p)]_vars

\* Every invitation to a domain is answered, withdrawn or deleted, as its
\* recipient logs in sooner or later.
InvitationsAnswered ==
  \A p \in Person, d \in Domain, i \in Row :
    db.dinv[p][d][i] = "invited" ~> db.dinv[p][d][i] # "invited"

\* A person who is removed as a manager does not get the domain back by
\* logging in: no invitation to it is pending.
RemovedManagerStaysRemoved ==
  [][\A p \in Person, d \in Domain :
       d \in db.role[p] /\ d \notin db'.role[p]
         => \A i \in Row : db'.dinv[p][d][i] # "invited"]_vars

=============================================================================
