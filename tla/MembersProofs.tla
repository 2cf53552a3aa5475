--------------------------- MODULE MembersProofs ---------------------------
(***************************************************************************)
(* What holds of the managers of domains and the members of portfolios     *)
(* for any number of persons, domains, portfolios and pages.               *)
(***************************************************************************)
EXTENDS Members, FiniteSetTheorems, TLAPS

-----------------------------------------------------------------------------
(* The inductive invariant *)

\* A retrieved invitation has its role in the tables `x`, transferred
\* accounts `T` apart.
Honest(x, T) ==
  \A p \in Person \ T, d \in Domain, i \in Row :
    x.dinv[p][d][i] = "retrieved" => p \in x.account /\ d \in x.role[p]

IInv == TypeOK /\ (~overlapped => Honest(db, transferred))

-----------------------------------------------------------------------------
(* The operators of the model keep the tables in their types *)

Statuses == InvitationStatus \cup {"none"}

LEMMA DinvType ==
  ASSUME NEW x \in Database, NEW p, NEW f, p \in Person => f \in [Domain -> [Row -> Statuses]]
  PROVE  [x EXCEPT !.dinv[p] = f] \in Database
<1>1. x.dinv \in [Person -> [Domain -> [Row -> Statuses]]]
  BY DEF Database, Statuses
<1>2. [x.dinv EXCEPT ![p] = f] \in [Person -> [Domain -> [Row -> Statuses]]]
  BY <1>1
<1> QED BY <1>2 DEF Database, Statuses

LEMMA SetInvitationType ==
  ASSUME NEW x \in Database, NEW p, NEW d, NEW i, NEW s \in Statuses
  PROVE  SetInvitation(x, p, d, i, s) \in Database
<1> DEFINE f == [x.dinv[p] EXCEPT ![d][i] = s]
<1>1. p \in Person => x.dinv[p] \in [Domain -> [Row -> Statuses]]
  BY DEF Database, Statuses
<1>2. p \in Person => f \in [Domain -> [Row -> Statuses]]
  BY <1>1
<1>3. SetInvitation(x, p, d, i, s) = [x EXCEPT !.dinv[p] = f]
  BY DEF SetInvitation
<1> HIDE DEF f
<1>4. [x EXCEPT !.dinv[p] = f] \in Database
  BY <1>2, DinvType
<1> QED BY <1>3, <1>4

LEMMA AddRoleType ==
  ASSUME NEW x \in Database, NEW p, NEW d \in Domain
  PROVE  AddRole(x, p, d) \in Database
BY DEF AddRole, Database

LEMMA DeleteRolesType ==
  ASSUME NEW x \in Database, NEW p \in Person, NEW D
  PROVE  DeleteRoles(x, p, D) \in Database
<1> DEFINE y == [x EXCEPT !.role[p] = @ \ D]
           f == [d \in Domain |-> [i \in Row |->
                  IF d \in D \cap x.role[p] /\ x.dinv[p][d][i] = "retrieved"
                  THEN "none" ELSE x.dinv[p][d][i]]]
<1>1. y \in Database
  BY DEF Database
<1>2. f \in [Domain -> [Row -> Statuses]]
  BY DEF Database, Statuses
<1>3. DeleteRoles(x, p, D) = [y EXCEPT !.dinv[p] = f]
  BY DEF DeleteRoles
<1> HIDE DEF f, y
<1>4. [y EXCEPT !.dinv[p] = f] \in Database
  BY <1>1, <1>2, DinvType
<1> QED BY <1>3, <1>4

LEMMA CleanupType ==
  ASSUME NEW v, NEW x \in Database, NEW p \in Person, NEW o, NEW user
  PROVE  Cleanup(v, x, p, o, user) \in Database
<1> DEFINE f == [d \in Domain |-> [i \in Row |->
                  IF d \in DomainsOf(o) /\ v.dinv[p][d][i] = "invited"
                  THEN "canceled" ELSE x.dinv[p][d][i]]]
           y == [x EXCEPT !.dinv[p] = f]
<1>1. f \in [Domain -> [Row -> Statuses]]
  BY DEF Database, Statuses, InvitationStatus
<1>3. y \in Database
  BY <1>1, DinvType
<1>2. Cleanup(v, x, p, o, user) \in {y, DeleteRoles(y, p, DomainsOf(o))}
  BY DEF Cleanup
<1> QED BY <1>2, <1>3, DeleteRolesType

LEMMA RetrieveRowType ==
  ASSUME NEW x \in Database, NEW p, NEW i, NEW row \in PortfolioInvitation, row # NoRow
  PROVE  RetrieveRow(x, p, i, row) \in Database
<1>1. /\ row.role \in PortfolioRole
      /\ [row EXCEPT !.status = "retrieved"] \in PortfolioInvitation
  BY DEF PortfolioInvitation
<1> QED BY <1>1 DEF RetrieveRow, Database

LEMMA SendType ==
  ASSUME NEW v, NEW x \in Database, NEW p, NEW d, NEW other, NEW user, NEW mail
  PROVE  SendDomainInvitation(v, x, p, d, other, user, mail).db \in Database
<1>1. \A i : SetInvitation(x, p, d, i, "invited") \in Database
  BY SetInvitationType DEF Statuses, InvitationStatus
<1> QED BY <1>1 DEF SendDomainInvitation, Outcome

LEMMA GetOrCreateType ==
  ASSUME NEW v, NEW x \in Database, NEW p, NEW d
  PROVE  GetOrCreate(v, x, p, d) \in Database
BY SetInvitationType DEF GetOrCreate, Statuses, InvitationStatus

LEMMA InviteType ==
  ASSUME NEW v \in Database, NEW x \in Database, NEW p \in Person,
         NEW o \in Portfolio, NEW mail
  PROVE  InviteToPortfolio(v, x, p, o, mail).db \in Database
<1> DEFINE found == {i \in Row : v.pinv[p][i].org = o /\ v.pinv[p][i].role = "member"}
           i     == IF found = {} THEN NextRow(PortfolioRows(x, p)) ELSE CHOOSE j \in found : TRUE
           row   == IF found = {} THEN [org |-> o, role |-> "member", status |-> "invited"]
                    ELSE v.pinv[p][i]
<1>1. row \in PortfolioInvitation /\ row # NoRow
  <2>1. CASE found = {}
    BY <2>1, MembersAssumption DEF PortfolioInvitation, PortfolioRole, NoRow
  <2>2. CASE found # {}
    <3>1. i \in found
      BY <2>2
    <3>2. v.pinv[p][i] \in PortfolioInvitation /\ v.pinv[p][i].role = "member"
      BY <3>1 DEF Database
    <3> QED BY <2>2, <3>2 DEF NoRow
  <2> QED BY <2>1, <2>2
<1>2. RetrieveRow(x, p, i, row) \in Database
  BY <1>1, RetrieveRowType
<1>3. [x EXCEPT !.pinv[p][i] = row] \in Database
  BY <1>1 DEF Database
<1>4. InviteToPortfolio(v, x, p, o, mail).db
        \in {x, RetrieveRow(x, p, i, row), [x EXCEPT !.pinv[p][i] = row]}
  BY DEF InviteToPortfolio, Outcome
<1> QED BY <1>2, <1>3, <1>4

-----------------------------------------------------------------------------
(* The operators of the model keep the tables honest *)

LEMMA SetInvitationHonest ==
  ASSUME NEW x \in Database, NEW T, Honest(x, T), NEW p, NEW d, NEW i,
         NEW s \in Statuses, s # "retrieved"
  PROVE  Honest(SetInvitation(x, p, d, i, s), T)
<1> DEFINE y == SetInvitation(x, p, d, i, s)
<1>1. y.account = x.account /\ y.role = x.role
  BY DEF SetInvitation
<1>2. \A q \in Person, e \in Domain, j \in Row :
        y.dinv[q][e][j] = "retrieved" => x.dinv[q][e][j] = "retrieved"
  <2> SUFFICES ASSUME NEW q \in Person, NEW e \in Domain, NEW j \in Row
               PROVE  y.dinv[q][e][j] \in {s, x.dinv[q][e][j]}
    OBVIOUS
  <2>1. x.dinv \in [Person -> [Domain -> [Row -> Statuses]]]
    BY DEF Database, Statuses
  <2>2. y.dinv = [x.dinv EXCEPT ![p][d][i] = s]
    BY DEF SetInvitation, Database
  <2> QED BY <2>1, <2>2
<1> HIDE DEF y
<1>3. Honest(y, T)
  BY <1>1, <1>2 DEF Honest
<1> QED BY <1>3 DEF y

LEMMA AddRoleHonest ==
  ASSUME NEW x \in Database, NEW T, Honest(x, T), NEW p, NEW d
  PROVE  Honest(AddRole(x, p, d), T)
BY DEF AddRole, Honest, Database

LEMMA DeleteRolesHonest ==
  ASSUME NEW x \in Database, NEW T, Honest(x, T), NEW p \in Person, NEW D
  PROVE  Honest(DeleteRoles(x, p, D), T)
<1> DEFINE y == DeleteRoles(x, p, D)
<1> SUFFICES ASSUME NEW q \in Person \ T, NEW d \in Domain, NEW i \in Row,
                    y.dinv[q][d][i] = "retrieved"
             PROVE  q \in y.account /\ d \in y.role[q]
  BY DEF Honest
<1>1. y.account = x.account /\ x.role \in [Person -> SUBSET Domain]
  BY DEF DeleteRoles, Database
<1>2. CASE q = p
  <2>1. y.role[p] = x.role[p] \ D
    BY <1>1 DEF DeleteRoles, Database
  <2>2. x.dinv[p][d][i] = "retrieved" /\ ~(d \in D \cap x.role[p])
    BY <1>2 DEF DeleteRoles, Database
  <2> QED BY <1>1, <1>2, <2>1, <2>2 DEF Honest
<1>3. CASE q # p
  <2>1. y.role[q] = x.role[q] /\ y.dinv[q] = x.dinv[q]
    BY <1>3 DEF DeleteRoles, Database
  <2> QED BY <1>1, <2>1 DEF Honest
<1> QED BY <1>2, <1>3

LEMMA SameHonest ==
  ASSUME NEW x, NEW T, Honest(x, T), NEW y,
         y.account = x.account, y.role = x.role, y.dinv = x.dinv
  PROVE  Honest(y, T)
BY DEF Honest

LEMMA CleanupHonest ==
  ASSUME NEW v, NEW x \in Database, NEW T, Honest(x, T), NEW p \in Person, NEW o, NEW user
  PROVE  Honest(Cleanup(v, x, p, o, user), T)
<1> DEFINE f == [d \in Domain |-> [i \in Row |->
                  IF d \in DomainsOf(o) /\ v.dinv[p][d][i] = "invited"
                  THEN "canceled" ELSE x.dinv[p][d][i]]]
           y == [x EXCEPT !.dinv[p] = f]
<1>1. f \in [Domain -> [Row -> Statuses]]
  BY DEF Database, Statuses, InvitationStatus
<1>2. Cleanup(v, x, p, o, user) \in {y, DeleteRoles(y, p, DomainsOf(o))}
  BY DEF Cleanup
<1>3. \A d \in Domain, i \in Row : f[d][i] = "retrieved" => x.dinv[p][d][i] = "retrieved"
  OBVIOUS
<1> HIDE DEF f
<1>4. y \in Database
  BY <1>1, DinvType
<1>5. Honest(y, T)
  BY <1>3 DEF Honest, Database
<1> QED BY <1>2, <1>4, <1>5, DeleteRolesHonest

LEMMA SendHonest ==
  ASSUME NEW v, NEW x \in Database, NEW T, Honest(x, T),
         NEW p, NEW d, NEW other, NEW user, NEW mail
  PROVE  Honest(SendDomainInvitation(v, x, p, d, other, user, mail).db, T)
<1>1. \A i : Honest(SetInvitation(x, p, d, i, "invited"), T)
  BY SetInvitationHonest DEF Statuses, InvitationStatus
<1> QED BY <1>1 DEF SendDomainInvitation, Outcome

LEMMA GetOrCreateHonest ==
  ASSUME NEW v, NEW x \in Database, NEW T, Honest(x, T), NEW p, NEW d
  PROVE  Honest(GetOrCreate(v, x, p, d), T)
BY SetInvitationHonest DEF GetOrCreate, Statuses, InvitationStatus

LEMMA InviteSame ==
  ASSUME NEW v, NEW x \in Database, NEW p, NEW o, NEW mail
  PROVE  LET y == InviteToPortfolio(v, x, p, o, mail).db
         IN y.account = x.account /\ y.role = x.role /\ y.dinv = x.dinv
BY DEF InviteToPortfolio, Outcome, RetrieveRow, Database


-----------------------------------------------------------------------------
(* Pages keep the invariant *)

\* All of IInv except who made the last commit.
Core ==
  /\ db \in Database /\ before \in Database
  /\ overlapped \in BOOLEAN
  /\ pages \in 0..MaxPages
  /\ transferred \subseteq Person
  /\ ~overlapped => Honest(db, transferred)

LEMMA StoreCore ==
  ASSUME Core, NEW v, NEW x \in Database, Store(v, x), transferred \subseteq transferred',
         v = db /\ Honest(db, transferred) => Honest(x, transferred'),
         pages' \in 0..MaxPages, transferred' \subseteq Person
  PROVE  Core'
<1>1. db' = x /\ before' \in Database
  BY DEF Core, Store
<1>2. overlapped' = (overlapped \/ v # db)
  BY DEF Store
<1>3. overlapped' \in BOOLEAN
  BY <1>2 DEF Core
<1>4. ASSUME ~overlapped' PROVE Honest(db', transferred')
  <2>1. ~overlapped /\ v = db
    BY <1>2, <1>4
  <2> QED BY <1>1, <2>1 DEF Core
<1> QED BY <1>1, <1>3, <1>4 DEF Core, Honest

LEMMA CommitCore ==
  ASSUME Core, pages < MaxPages, NEW v, NEW x \in Database, Commit(v, x),
         v = db /\ Honest(db, transferred) => Honest(x, transferred)
  PROVE  Core'
<1>1. pages' \in 0..MaxPages
  BY MembersAssumption DEF Core, Commit
<1>2. transferred' = transferred /\ Store(v, x)
  BY DEF Commit
<1>3. transferred' \subseteq Person
  BY <1>2 DEF Core
<1> QED BY <1>1, <1>2, <1>3, StoreCore

LEMMA LoginCore ==
  ASSUME Core, NEW v \in {db, before}, NEW p \in Person, Login(v, p)
  PROVE  Core'
<1> DEFINE known == [db EXCEPT !.account = @ \cup {p}]
           new   == {d \in Domain : \E i \in Row : v.dinv[p][d][i] = "invited"}
           f     == [d \in Domain |-> [i \in Row |->
                      IF v.dinv[p][d][i] = "invited" THEN "retrieved" ELSE db.dinv[p][d][i]]]
           y     == [known EXCEPT !.role[p] = @ \cup new]
           manager == [y EXCEPT !.dinv[p] = f]
<1>1. y \in Database /\ v \in Database
  BY DEF Core, Database
<1>2. f \in [Domain -> [Row -> Statuses]]
  BY DEF Core, Database, Statuses, InvitationStatus
<1>3. manager \in Database
  <2> HIDE DEF f, y
  <2> QED BY <1>1, <1>2, DinvType
<1>4. ASSUME v = db, Honest(db, transferred) PROVE Honest(manager, transferred)
  <2> SUFFICES ASSUME NEW q \in Person \ transferred, NEW d \in Domain, NEW i \in Row,
                      manager.dinv[q][d][i] = "retrieved"
               PROVE  q \in manager.account /\ d \in manager.role[q]
    BY DEF Honest
  <2>1. /\ manager.account = db.account \cup {p}
        /\ manager.role = [db.role EXCEPT ![p] = @ \cup new]
        /\ manager.dinv = [db.dinv EXCEPT ![p] = f]
    BY DEF Core, Database
  <2>2. db.role \in [Person -> SUBSET Domain] /\ DOMAIN db.dinv = Person
    BY DEF Core, Database
  <2>3. CASE q = p
    <3>1. f[d][i] = "retrieved"
      BY <2>1, <2>2, <2>3
    <3>2. v.dinv[p][d][i] = "invited" \/ db.dinv[p][d][i] = "retrieved"
      BY <3>1
    <3>3. d \in db.role[p] \cup new
      BY <1>4, <3>2, <2>3 DEF Honest
    <3> QED BY <2>1, <2>2, <2>3, <3>3
  <2>4. CASE q # p
    <3>1. manager.dinv[q] = db.dinv[q] /\ manager.role[q] = db.role[q]
      BY <2>1, <2>2, <2>4
    <3>2. db.dinv[q][d][i] = "retrieved"
      BY <3>1
    <3>3. q \in db.account /\ d \in db.role[q]
      BY <1>4, <3>2 DEF Honest
    <3> QED BY <2>1, <3>1, <3>3
  <2> QED BY <2>3, <2>4
<1>5. pages' \in 0..MaxPages /\ transferred' = transferred /\ transferred' \subseteq Person
  BY DEF Login, Core
<1> HIDE DEF known, new, f, y
<1>6. Login(v, p) <=>
        /\ p \in db.account => p \in v.account
        /\ IF OrgsOf(v, p) # {} \/ Pending(v, p) = {}
           THEN Store(v, manager)
           ELSE \E i \in Pending(v, p) : Store(v, RetrieveRow(manager, p, i, v.pinv[p][i]))
        /\ by' = "login"
        /\ UNCHANGED <<pages, transferred>>
  BY DEF Login, manager, y, known, new, f
<1> HIDE DEF manager
<1>7. CASE Store(v, manager)
  BY <1>3, <1>4, <1>5, <1>7, StoreCore
<1>8. CASE \E i \in Pending(v, p) : Store(v, RetrieveRow(manager, p, i, v.pinv[p][i]))
  <2>1. PICK i \in Pending(v, p) : Store(v, RetrieveRow(manager, p, i, v.pinv[p][i]))
    BY <1>8
  <2>2. v.pinv[p][i] \in PortfolioInvitation /\ v.pinv[p][i] # NoRow
    BY <1>1, <2>1 DEF Pending, Database, NoRow
  <2>3. RetrieveRow(manager, p, i, v.pinv[p][i]) \in Database
    BY <1>3, <2>2, RetrieveRowType
  <2>4. ASSUME v = db, Honest(db, transferred)
        PROVE  Honest(RetrieveRow(manager, p, i, v.pinv[p][i]), transferred)
    <3>1. LET z == RetrieveRow(manager, p, i, v.pinv[p][i])
          IN z.account = manager.account /\ z.role = manager.role /\ z.dinv = manager.dinv
      BY <1>3 DEF RetrieveRow, Database
    <3>2. Honest(manager, transferred)
      BY <1>4, <2>4
    <3> QED BY <3>1, <3>2, SameHonest
  <2> QED BY <2>1, <2>3, <2>4, <1>5, StoreCore
<1> QED BY <1>6, <1>7, <1>8


\* What comes before the role or the invitation, on the page of a domain's
\* managers and on the admin site.
LEMMA InvitedSound ==
  ASSUME NEW v \in Database, NEW x \in Database, NEW p \in Person, NEW d \in Domain,
         NEW f, NEW orgMail, NEW mail, NEW other, NEW invites, invites => Org[d] # NoOrg,
         NEW T
  PROVE  LET first  == IF invites THEN InviteToPortfolio(v, x, p, Org[d], orgMail)
                       ELSE Outcome(x, TRUE)
             second == IF first.ok
                       THEN SendDomainInvitation(v, first.db, p, d, other, p \in v.account, mail)
                       ELSE first
         IN second.db \in Database /\ (Honest(x, T) => Honest(second.db, T))
<1> DEFINE invited == InviteToPortfolio(v, x, p, Org[d], orgMail)
           first  == IF invites THEN invited ELSE Outcome(x, TRUE)
           sent   == SendDomainInvitation(v, first.db, p, d, other, p \in v.account, mail)
           second == IF first.ok THEN sent ELSE first
<1>1. invites => Org[d] \in Portfolio
  BY MembersAssumption
<1>2. invites => invited.db \in Database /\ (Honest(x, T) => Honest(invited.db, T))
  <2> SUFFICES ASSUME invites PROVE invited.db \in Database /\ (Honest(x, T) => Honest(invited.db, T))
    OBVIOUS
  <2>1. invited.db \in Database
    BY <1>1, InviteType
  <2>2. invited.db.account = x.account /\ invited.db.role = x.role /\ invited.db.dinv = x.dinv
    BY InviteSame
  <2> QED BY <2>1, <2>2, SameHonest
<1>3. Outcome(x, TRUE).db = x
  BY DEF Outcome
<1>4. first.db \in Database /\ (Honest(x, T) => Honest(first.db, T))
  BY <1>2, <1>3
<1> HIDE DEF first
<1>5. sent.db \in Database
  BY <1>4, SendType
<1>6. Honest(first.db, T) => Honest(sent.db, T)
  BY <1>4, SendHonest
<1>7. second.db \in Database /\ (Honest(x, T) => Honest(second.db, T))
  BY <1>4, <1>5, <1>6
<1> QED BY <1>7 DEF first

LEMMA AddManagerCore ==
  ASSUME Core, pages < MaxPages, NEW v \in {db, before}, NEW a, NEW p \in Person,
         NEW d \in Domain, NEW f, NEW orgMail, NEW mail,
         AddManager(v, a, p, d, f, orgMail, mail)
  PROVE  Core'
<1> DEFINE o      == Org[d]
           invites == InvitesToPortfolio(v, a, o) /\ ~OfThisOrg(v, o, p, f)
           first  == IF invites THEN InviteToPortfolio(v, db, p, o, orgMail)
                     ELSE Outcome(db, TRUE)
           second == IF first.ok
                     THEN SendDomainInvitation(v, first.db, p, d, OfOtherOrg(v, o, p, f),
                                               p \in v.account, mail)
                     ELSE first
<1>1. v \in Database /\ db \in Database /\ (invites => Org[d] # NoOrg)
  BY DEF Core, InvitesToPortfolio
<1>2. second.db \in Database /\ (Honest(db, transferred) => Honest(second.db, transferred))
  BY <1>1, InvitedSound
<1>3. \/ Commit(v, second.db)
      \/ Commit(v, AddRole(second.db, p, d))
      \/ Commit(v, GetOrCreate(v, second.db, p, d))
  BY DEF AddManager
<1> HIDE DEF second
<1>4. CASE Commit(v, second.db)
  BY <1>2, <1>4, CommitCore
<1>5. CASE Commit(v, AddRole(second.db, p, d))
  <2>1. AddRole(second.db, p, d) \in Database
    BY <1>2, AddRoleType
  <2>2. Honest(db, transferred) => Honest(AddRole(second.db, p, d), transferred)
    BY <1>2, AddRoleHonest
  <2> QED BY <1>5, <2>1, <2>2, CommitCore
<1>6. CASE Commit(v, GetOrCreate(v, second.db, p, d))
  <2>1. GetOrCreate(v, second.db, p, d) \in Database
    BY <1>2, GetOrCreateType
  <2>2. Honest(db, transferred) => Honest(GetOrCreate(v, second.db, p, d), transferred)
    BY <1>2, GetOrCreateHonest
  <2> QED BY <1>6, <2>1, <2>2, CommitCore
<1> QED BY <1>3, <1>4, <1>5, <1>6

LEMMA StaffInviteCore ==
  ASSUME Core, pages < MaxPages, NEW v \in {db, before}, NEW a, NEW p \in Person,
         NEW d \in Domain, NEW f, NEW orgMail, NEW mail,
         StaffInvite(v, a, p, d, f, orgMail, mail)
  PROVE  Core'
<1> DEFINE o      == Org[d]
           invites == InvitesToPortfolio(v, a, o) /\ ~OfThisOrg(v, o, p, f) /\ ~OfOtherOrg(v, o, p, f)
           first  == IF invites THEN InviteToPortfolio(v, db, p, o, orgMail)
                     ELSE Outcome(db, TRUE)
           second == IF first.ok
                     THEN SendDomainInvitation(v, first.db, p, d, OfOtherOrg(v, o, p, f),
                                               p \in v.account, mail)
                     ELSE first
           i == NextRow(DomainRows(db, p, d))
           kept == AddRole(SetInvitation(second.db, p, d, i, "retrieved"), p, d)
<1>1. v \in Database /\ db \in Database /\ (invites => Org[d] # NoOrg)
  BY DEF Core, InvitesToPortfolio
<1>2. second.db \in Database /\ (Honest(db, transferred) => Honest(second.db, transferred))
  BY <1>1, InvitedSound
<1>3. \/ Commit(v, second.db)
      \/ p \in v.account /\ Commit(v, kept)
      \/ Commit(v, SetInvitation(second.db, p, d, i, "invited"))
  BY DEF StaffInvite
<1>9. second.db.account = db.account
  <2>1. first.db.account = db.account
    BY <1>1, InviteSame DEF Outcome
  <2> HIDE DEF first
  <2> QED BY <2>1 DEF SendDomainInvitation, Outcome, SetInvitation
<1> HIDE DEF second, i
<1>4. CASE Commit(v, second.db)
  BY <1>2, <1>4, CommitCore
<1>5. CASE p \in v.account /\ Commit(v, kept)
  <2> DEFINE w == SetInvitation(second.db, p, d, i, "retrieved")
  <2>1. w \in Database
    BY <1>2, SetInvitationType DEF Statuses, InvitationStatus
  <2>2. kept \in Database
    <3> HIDE DEF w
    <3>1. AddRole(w, p, d) \in Database
      BY <2>1, AddRoleType
    <3> QED BY <3>1 DEF w
  <2>3. ASSUME v = db, Honest(db, transferred) PROVE Honest(kept, transferred)
    <3> SUFFICES ASSUME NEW q \in Person \ transferred, NEW e \in Domain, NEW j \in Row,
                        kept.dinv[q][e][j] = "retrieved"
                 PROVE  q \in kept.account /\ e \in kept.role[q]
      BY DEF Honest
    <3>1. /\ kept.account = second.db.account
          /\ kept.role = [second.db.role EXCEPT ![p] = @ \cup {d}]
          /\ kept.dinv = [second.db.dinv EXCEPT ![p][d][i] = "retrieved"]
      BY <1>2 DEF AddRole, SetInvitation, Database
    <3>2. second.db.role \in [Person -> SUBSET Domain]
          /\ second.db.dinv \in [Person -> [Domain -> [Row -> Statuses]]]
      BY <1>2 DEF Database, Statuses
    <3>3. Honest(second.db, transferred)
      BY <1>2, <2>3
    <3>4. CASE q = p /\ e = d
      <4>1. p \in second.db.account
        BY <1>5, <1>9, <2>3
      <4> QED BY <3>1, <3>2, <3>4, <4>1
    <3>5. CASE ~(q = p /\ e = d)
      <4>1. kept.dinv[q][e][j] = second.db.dinv[q][e][j]
        BY <3>1, <3>2, <3>5
      <4>2. q \in second.db.account /\ e \in second.db.role[q]
        BY <3>3, <4>1 DEF Honest
      <4> QED BY <3>1, <3>2, <4>2
    <3> QED BY <3>4, <3>5
  <2> HIDE DEF kept
  <2> QED BY <1>5, <2>2, <2>3, CommitCore
<1>6. CASE Commit(v, SetInvitation(second.db, p, d, i, "invited"))
  <2>1. SetInvitation(second.db, p, d, i, "invited") \in Database
    BY <1>2, SetInvitationType DEF Statuses, InvitationStatus
  <2>2. Honest(db, transferred) => Honest(SetInvitation(second.db, p, d, i, "invited"), transferred)
    BY <1>2, SetInvitationHonest DEF Statuses, InvitationStatus
  <2> QED BY <1>6, <2>1, <2>2, CommitCore
<1> QED BY <1>3, <1>4, <1>5, <1>6


LEMMA DomainPagesCore ==
  ASSUME Core, pages < MaxPages, NEW v \in {db, before}, DomainPages(v)
  PROVE  Core'
<1>1. PICK a \in Person, p \in Person, d \in Domain :
        \/ \E f \in FirstPermission(v, p), orgMail \in BOOLEAN, mail \in BOOLEAN :
             AddManager(v, a, p, d, f, orgMail, mail)
        \/ \E i \in Row : CancelInvitation(v, a, p, d, i)
        \/ RemoveManager(v, a, p, d)
  BY DEF DomainPages
<1>2. db \in Database
  BY DEF Core
<1>3. CASE \E f \in FirstPermission(v, p), orgMail \in BOOLEAN, mail \in BOOLEAN :
             AddManager(v, a, p, d, f, orgMail, mail)
  BY <1>3, AddManagerCore
<1>4. CASE \E i \in Row : CancelInvitation(v, a, p, d, i)
  <2>1. PICK i \in Row : Commit(v, SetInvitation(db, p, d, i, "canceled"))
    BY <1>4 DEF CancelInvitation
  <2>2. SetInvitation(db, p, d, i, "canceled") \in Database
    BY <1>2, SetInvitationType DEF Statuses, InvitationStatus
  <2>3. Honest(db, transferred) => Honest(SetInvitation(db, p, d, i, "canceled"), transferred)
    BY <1>2, SetInvitationHonest DEF Statuses, InvitationStatus
  <2> QED BY <2>1, <2>2, <2>3, CommitCore
<1>5. CASE RemoveManager(v, a, p, d)
  <2>1. DeleteRoles(db, p, {d}) \in Database
    BY <1>2, DeleteRolesType
  <2>2. Honest(db, transferred) => Honest(DeleteRoles(db, p, {d}), transferred)
    BY <1>2, DeleteRolesHonest
  <2>3. Commit(v, DeleteRoles(db, p, {d}))
    BY <1>5 DEF RemoveManager
  <2> QED BY <2>1, <2>2, <2>3, CommitCore
<1> QED BY <1>1, <1>3, <1>4, <1>5

\* A change of memberships and invitations to portfolios alone.
LEMMA OtherTablesCore ==
  ASSUME Core, pages < MaxPages, NEW v, NEW x \in Database, Commit(v, x),
         x.account = db.account, x.role = db.role, x.dinv = db.dinv
  PROVE  Core'
<1>1. Honest(db, transferred) => Honest(x, transferred)
  BY SameHonest
<1> QED BY <1>1, CommitCore

LEMMA SetMemberCore ==
  ASSUME Core, pages < MaxPages, NEW v, NEW p, NEW o, NEW r \in PortfolioRole,
         Commit(v, [db EXCEPT !.perm[p][o] = r])
  PROVE  Core'
<1>1. /\ [db EXCEPT !.perm[p][o] = r] \in Database
      /\ [db EXCEPT !.perm[p][o] = r].account = db.account
      /\ [db EXCEPT !.perm[p][o] = r].role = db.role
      /\ [db EXCEPT !.perm[p][o] = r].dinv = db.dinv
  BY DEF Core, Database
<1> QED BY <1>1, OtherTablesCore

LEMMA SetPortfolioInvitationCore ==
  ASSUME Core, pages < MaxPages, NEW v, NEW p, NEW i, NEW row \in PortfolioInvitation,
         Commit(v, [db EXCEPT !.pinv[p][i] = row])
  PROVE  Core'
<1>1. /\ [db EXCEPT !.pinv[p][i] = row] \in Database
      /\ [db EXCEPT !.pinv[p][i] = row].account = db.account
      /\ [db EXCEPT !.pinv[p][i] = row].role = db.role
      /\ [db EXCEPT !.pinv[p][i] = row].dinv = db.dinv
  BY DEF Core, Database
<1> QED BY <1>1, OtherTablesCore

LEMMA CleanupCore ==
  ASSUME Core, pages < MaxPages, NEW v, NEW p \in Person, NEW o, NEW user, NEW x \in Database,
         x.account = db.account, x.role = db.role, x.dinv = db.dinv,
         Commit(v, Cleanup(v, x, p, o, user))
  PROVE  Core'
<1>1. Cleanup(v, x, p, o, user) \in Database
  BY CleanupType
<1>2. Honest(db, transferred) => Honest(Cleanup(v, x, p, o, user), transferred)
  BY SameHonest, CleanupHonest
<1> QED BY <1>1, <1>2, CommitCore

LEMMA RemovedType ==
  ASSUME Core, NEW p, NEW o
  PROVE  LET x == [db EXCEPT !.perm[p][o] = "none"]
         IN x \in Database /\ x.account = db.account /\ x.role = db.role /\ x.dinv = db.dinv
BY DEF Core, Database


LEMMA AddMemberCore ==
  ASSUME Core, pages < MaxPages, NEW v \in {db, before}, NEW a, NEW o \in Portfolio,
         NEW p \in Person, NEW r \in PortfolioRole, AddMember(v, a, o, p, r)
  PROVE  Core'
<1> DEFINE i   == NextRow(PortfolioRows(db, p))
           row == [org |-> o, role |-> r, status |-> "invited"]
<1>1. row \in PortfolioInvitation /\ row # NoRow
  BY DEF PortfolioInvitation, PortfolioRole, NoRow
<1>2. Commit(v, RetrieveRow(db, p, i, row)) \/ Commit(v, [db EXCEPT !.pinv[p][i] = row])
  BY DEF AddMember
<1> HIDE DEF i, row
<1>3. CASE Commit(v, RetrieveRow(db, p, i, row))
  <2>1. RetrieveRow(db, p, i, row) \in Database
    BY <1>1, RetrieveRowType DEF Core
  <2>2. LET z == RetrieveRow(db, p, i, row)
        IN z.account = db.account /\ z.role = db.role /\ z.dinv = db.dinv
    BY DEF RetrieveRow, Core, Database
  <2> QED BY <1>3, <2>1, <2>2, OtherTablesCore
<1>4. CASE Commit(v, [db EXCEPT !.pinv[p][i] = row])
  BY <1>1, <1>4, SetPortfolioInvitationCore
<1> QED BY <1>2, <1>3, <1>4

LEMMA AddMemberDomainCore ==
  ASSUME Core, pages < MaxPages, NEW v, NEW a, NEW o, NEW p \in Person, NEW d \in Domain,
         NEW f, NEW mail, AddMemberDomain(v, a, o, p, d, f, mail)
  PROVE  Core'
<1> DEFINE sent == SendDomainInvitation(v, db, p, d, OfOtherOrg(v, o, p, f), TRUE, mail)
<1>1. sent.db \in Database /\ (Honest(db, transferred) => Honest(sent.db, transferred))
  BY SendType, SendHonest DEF Core
<1>2. Commit(v, sent.db) \/ Commit(v, AddRole(sent.db, p, d))
  BY DEF AddMemberDomain
<1> HIDE DEF sent
<1>3. /\ AddRole(sent.db, p, d) \in Database
      /\ Honest(db, transferred) => Honest(AddRole(sent.db, p, d), transferred)
  BY <1>1, AddRoleType, AddRoleHonest
<1>4. CASE Commit(v, sent.db)
  BY <1>1, <1>4, CommitCore
<1>5. CASE Commit(v, AddRole(sent.db, p, d))
  BY <1>3, <1>5, CommitCore
<1> QED BY <1>2, <1>4, <1>5

\* The invitations to one domain get statuses that were theirs before or are
\* not "retrieved".
LEMMA SetInvitationsCore ==
  ASSUME Core, pages < MaxPages, NEW v, NEW p \in Person, NEW d \in Domain,
         NEW f \in [Row -> Statuses],
         \A j \in Row : f[j] = "retrieved" => db.dinv[p][d][j] = "retrieved",
         Commit(v, [db EXCEPT !.dinv[p][d] = f])
  PROVE  Core'
<1> DEFINE y == [db EXCEPT !.dinv[p][d] = f]
           g == [db.dinv[p] EXCEPT ![d] = f]
<1>1. db.dinv \in [Person -> [Domain -> [Row -> Statuses]]]
  BY DEF Core, Database, Statuses
<1>2. y = [db EXCEPT !.dinv[p] = g]
  BY DEF Core, Database
<1>3. g \in [Domain -> [Row -> Statuses]]
  BY <1>1
<1>4. y \in Database
  <2> HIDE DEF g, y
  <2> QED BY <1>2, <1>3, DinvType DEF Core
<1>5. /\ y.account = db.account /\ y.role = db.role
      /\ y.dinv = [db.dinv EXCEPT ![p][d] = f]
  BY DEF Core, Database
<1>6. Honest(db, transferred) => Honest(y, transferred)
  BY <1>1, <1>5 DEF Honest
<1> HIDE DEF y
<1>7. Commit(v, y)
  BY DEF y
<1> QED BY <1>4, <1>6, <1>7, CommitCore

LEMMA InvitedMemberDomainsCore ==
  ASSUME Core, pages < MaxPages, NEW v, NEW a, NEW o, NEW p \in Person, NEW i,
         NEW d \in Domain,
         \/ \E mail \in BOOLEAN : AddInvitedMemberDomain(v, a, o, p, i, d, mail)
         \/ RemoveInvitedMemberDomain(v, a, o, p, i, d)
  PROVE  Core'
<1> DEFINE rows    == DomainRows(db, p, d)
           invited == [j \in Row |-> IF j \in rows \/ (rows = {} /\ j = NextRow({}))
                                     THEN "invited" ELSE "none"]
           cancelled == [j \in Row |-> IF db.dinv[p][d][j] = "invited"
                                       THEN "canceled" ELSE db.dinv[p][d][j]]
<1>1. invited \in [Row -> Statuses] /\ \A j \in Row : invited[j] # "retrieved"
  BY DEF Statuses, InvitationStatus
<1>2. /\ cancelled \in [Row -> Statuses]
      /\ \A j \in Row : cancelled[j] = "retrieved" => db.dinv[p][d][j] = "retrieved"
  BY DEF Core, Database, Statuses, InvitationStatus
<1>3. CASE \E mail \in BOOLEAN : AddInvitedMemberDomain(v, a, o, p, i, d, mail)
  <2>1. PICK mail \in BOOLEAN : AddInvitedMemberDomain(v, a, o, p, i, d, mail)
    BY <1>3
  <2> DEFINE sent == SendDomainInvitation(v, db, p, d, OfOtherOrg(v, o, p, NoOrg), FALSE, mail)
  <2>2. sent.db \in Database /\ (Honest(db, transferred) => Honest(sent.db, transferred))
    BY SendType, SendHonest DEF Core
  <2>3. Commit(v, sent.db) \/ Commit(v, [db EXCEPT !.dinv[p][d] = invited])
    BY <2>1 DEF AddInvitedMemberDomain
  <2> HIDE DEF sent, invited
  <2>4. CASE Commit(v, sent.db)
    BY <2>2, <2>4, CommitCore
  <2>5. CASE Commit(v, [db EXCEPT !.dinv[p][d] = invited])
    BY <1>1, <2>5, SetInvitationsCore
  <2> QED BY <2>3, <2>4, <2>5
<1>4. CASE RemoveInvitedMemberDomain(v, a, o, p, i, d)
  <2>1. Commit(v, [db EXCEPT !.dinv[p][d] = cancelled])
    BY <1>4 DEF RemoveInvitedMemberDomain
  <2> HIDE DEF cancelled
  <2> QED BY <1>2, <2>1, SetInvitationsCore
<1> QED BY <1>3, <1>4

LEMMA DeleteInvitedMemberCore ==
  ASSUME Core, pages < MaxPages, NEW v, NEW a, NEW o, NEW p \in Person, NEW i,
         DeleteInvitedMember(v, a, o, p, i)
  PROVE  Core'
<1> DEFINE gone == [db EXCEPT !.pinv[p][i] = NoRow]
<1>1. /\ gone \in Database
      /\ gone.account = db.account /\ gone.role = db.role /\ gone.dinv = db.dinv
  BY DEF Core, Database, PortfolioInvitation
<1>2. Commit(v, Cleanup(v, gone, p, o, p \in v.account)) \/ Commit(v, gone)
  BY DEF DeleteInvitedMember
<1> HIDE DEF gone
<1> QED BY <1>1, <1>2, CleanupCore, OtherTablesCore

LEMMA EditInvitedMemberCore ==
  ASSUME Core, pages < MaxPages, NEW v \in {db, before}, NEW a, NEW o \in Portfolio,
         NEW p \in Person, NEW i \in Row, NEW r \in PortfolioRole,
         EditInvitedMember(v, a, o, p, i, r)
  PROVE  Core'
<1>1. v.pinv[p][i] \in PortfolioInvitation /\ v.pinv[p][i] # NoRow
  BY MembersAssumption DEF EditInvitedMember, Core, Database, NoRow
<1>2. [v.pinv[p][i] EXCEPT !.role = r] \in PortfolioInvitation
  BY <1>1 DEF PortfolioInvitation
<1>3. Commit(v, [db EXCEPT !.pinv[p][i] = [v.pinv[p][i] EXCEPT !.role = r]])
  BY DEF EditInvitedMember
<1> QED BY <1>2, <1>3, SetPortfolioInvitationCore

LEMMA RemoveMemberDomainCore ==
  ASSUME Core, pages < MaxPages, NEW v, NEW p \in Person, NEW D,
         Commit(v, DeleteRoles(db, p, D))
  PROVE  Core'
<1>1. /\ DeleteRoles(db, p, D) \in Database
      /\ Honest(db, transferred) => Honest(DeleteRoles(db, p, D), transferred)
  BY DeleteRolesType, DeleteRolesHonest DEF Core
<1> QED BY <1>1, CommitCore

LEMMA MemberPagesCore ==
  ASSUME Core, pages < MaxPages, NEW v \in {db, before}, MemberPages(v)
  PROVE  Core'
<1>1. PICK a \in Person, o \in Portfolio, p \in Person :
        \/ \E r \in PortfolioRole : AddMember(v, a, o, p, r) \/ ChangeMember(v, a, o, p, r)
        \/ RemoveMember(v, a, o, p)
        \/ \E d \in Domain, f \in FirstPermission(v, p), mail \in BOOLEAN :
             AddMemberDomain(v, a, o, p, d, f, mail)
        \/ \E d \in Domain : RemoveMemberDomain(v, a, o, p, d)
        \/ \E i \in Row :
             \/ DeleteInvitedMember(v, a, o, p, i)
             \/ \E r \in PortfolioRole : EditInvitedMember(v, a, o, p, i, r)
             \/ \E d \in Domain :
                  \/ \E mail \in BOOLEAN : AddInvitedMemberDomain(v, a, o, p, i, d, mail)
                  \/ RemoveInvitedMemberDomain(v, a, o, p, i, d)
  BY DEF MemberPages
<1>2. CASE \E r \in PortfolioRole : AddMember(v, a, o, p, r)
  BY <1>2, AddMemberCore
<1>3. CASE \E r \in PortfolioRole : ChangeMember(v, a, o, p, r)
  BY <1>3, SetMemberCore DEF ChangeMember
<1>4. CASE RemoveMember(v, a, o, p)
  BY <1>4, RemovedType, CleanupCore DEF RemoveMember
<1>5. CASE \E d \in Domain, f \in FirstPermission(v, p), mail \in BOOLEAN :
             AddMemberDomain(v, a, o, p, d, f, mail)
  BY <1>5, AddMemberDomainCore
<1>6. CASE \E d \in Domain : RemoveMemberDomain(v, a, o, p, d)
  BY <1>6, RemoveMemberDomainCore DEF RemoveMemberDomain
<1>7. CASE \E i \in Row : DeleteInvitedMember(v, a, o, p, i)
  BY <1>7, DeleteInvitedMemberCore
<1>8. CASE \E i \in Row, r \in PortfolioRole : EditInvitedMember(v, a, o, p, i, r)
  BY <1>8, EditInvitedMemberCore
<1>9. CASE \E i \in Row, d \in Domain :
             \/ \E mail \in BOOLEAN : AddInvitedMemberDomain(v, a, o, p, i, d, mail)
             \/ RemoveInvitedMemberDomain(v, a, o, p, i, d)
  BY <1>9, InvitedMemberDomainsCore
<1> QED BY <1>1, <1>2, <1>3, <1>4, <1>5, <1>6, <1>7, <1>8, <1>9

LEMMA TransferUserCore ==
  ASSUME Core, pages < MaxPages, NEW v, NEW p \in Person, NEW q \in Person,
         TransferUser(v, p, q)
  PROVE  Core'
<1> DEFINE D    == db.role[p] \cap db.role[q]
           left == DeleteRoles(db, p, D)
           x    == [left EXCEPT
                      !.account = @ \ {p},
                      !.role[q] = @ \cup db.role[p],
                      !.role[p] = {},
                      !.perm[q] = [o \in Portfolio |->
                         IF db.perm[q][o] = "none" THEN db.perm[p][o] ELSE db.perm[q][o]],
                      !.perm[p] = [o \in Portfolio |-> "none"]]
<1>1. /\ p # q /\ Store(v, x)
      /\ pages' = pages + 1 /\ transferred' = transferred \cup {p}
  BY DEF TransferUser
<1>2. left \in Database
  BY DeleteRolesType DEF Core
<1>3. db \in Database
  BY DEF Core
<1> HIDE DEF left
<1>4. x \in Database
  <2> DEFINE g == [o \in Portfolio |->
                     IF db.perm[q][o] = "none" THEN db.perm[p][o] ELSE db.perm[q][o]]
             h == [o \in Portfolio |-> "none"]
             A == [left EXCEPT !.account = @ \ {p}]
             B == [A EXCEPT !.role[q] = @ \cup db.role[p]]
             C == [B EXCEPT !.role[p] = {}]
             E == [C EXCEPT !.perm[q] = g]
             F == [E EXCEPT !.perm[p] = h]
  <2>1. A \in Database
    BY <1>2 DEF Database
  <2>2. B \in Database
    BY <2>1, <1>3 DEF Database
  <2>3. C \in Database
    BY <2>2 DEF Database
  <2>4. /\ g \in [Portfolio -> PortfolioRole \cup {"none"}]
        /\ h \in [Portfolio -> PortfolioRole \cup {"none"}]
    BY <1>3 DEF Database
  <2>5. x = F
    OBVIOUS
  <2> HIDE DEF g, h, C, x
  <2>6. E \in Database
    BY <2>3, <2>4 DEF Database
  <2> HIDE DEF E
  <2>7. F \in Database
    BY <2>4, <2>6 DEF Database
  <2> QED BY <2>5, <2>7
<1>5. ASSUME v = db, Honest(db, transferred) PROVE Honest(x, transferred')
  <2>1. Honest(left, transferred)
    BY <1>3, <1>5, DeleteRolesHonest DEF left
  <2> SUFFICES ASSUME NEW r \in Person \ transferred', NEW d \in Domain, NEW i \in Row,
                      x.dinv[r][d][i] = "retrieved"
               PROVE  r \in x.account /\ d \in x.role[r]
    BY DEF Honest
  <2>2. r \in Person \ transferred /\ r # p
    BY <1>1
  <2>3. /\ x.account = left.account \ {p} /\ x.dinv = left.dinv
        /\ left.role[r] \subseteq x.role[r]
    BY <1>1, <1>2, <2>2 DEF Database
  <2>4. r \in left.account /\ d \in left.role[r]
    BY <2>1, <2>2, <2>3 DEF Honest
  <2> QED BY <2>2, <2>3, <2>4
<1>6. pages' \in 0..MaxPages /\ transferred' \subseteq Person /\ transferred \subseteq transferred'
  BY <1>1, MembersAssumption DEF Core
<1> HIDE DEF x
<1> QED BY <1>1, <1>4, <1>5, <1>6, StoreCore

LEMMA StaffPagesCore ==
  ASSUME Core, pages < MaxPages, NEW v \in {db, before}, StaffPages(v)
  PROVE  Core'
<1>1. CASE \E a \in Staff, p \in Person, d \in Domain, f \in Portfolio \cup {NoOrg} :
             \E orgMail \in BOOLEAN, mail \in BOOLEAN :
               f \in FirstPermission(v, p) /\ StaffInvite(v, a, p, d, f, orgMail, mail)
  BY <1>1, StaffInviteCore
<1>2. CASE \E p \in Person, d \in Domain, i \in Row : StaffDeleteInvitation(v, p, d, i)
  <2>1. PICK p \in Person, d \in Domain, i \in Row : Commit(v, SetInvitation(db, p, d, i, "none"))
    BY <1>2 DEF StaffDeleteInvitation
  <2>2. /\ SetInvitation(db, p, d, i, "none") \in Database
        /\ Honest(db, transferred) => Honest(SetInvitation(db, p, d, i, "none"), transferred)
    BY SetInvitationType, SetInvitationHonest DEF Core, Statuses
  <2> QED BY <2>1, <2>2, CommitCore
<1>3. CASE \E p \in Person, d \in Domain : StaffAddManager(v, p, d)
  <2>1. PICK p \in Person, d \in Domain : Commit(v, AddRole(db, p, d))
    BY <1>3 DEF StaffAddManager
  <2>2. /\ AddRole(db, p, d) \in Database
        /\ Honest(db, transferred) => Honest(AddRole(db, p, d), transferred)
    BY AddRoleType, AddRoleHonest DEF Core
  <2> QED BY <2>1, <2>2, CommitCore
<1>4. CASE \E p \in Person, d \in Domain : StaffRemoveManager(v, p, d)
  BY <1>4, RemoveMemberDomainCore DEF StaffRemoveManager
<1>5. CASE \E o \in Portfolio, p \in Person, r \in PortfolioRole : StaffSetMember(v, o, p, r)
  BY <1>5, SetMemberCore DEF StaffSetMember
<1>6. CASE \E o \in Portfolio, p \in Person : StaffRemoveMember(v, o, p)
  BY <1>6, RemovedType, CleanupCore DEF StaffRemoveMember
<1>7. CASE \E p \in Person, q \in Person : TransferUser(v, p, q)
  BY <1>7, TransferUserCore
<1> QED BY <1>1, <1>2, <1>3, <1>4, <1>5, <1>6, <1>7 DEF StaffPages

-----------------------------------------------------------------------------
(* Theorems *)

LEMMA Initially == Init => IInv
<1> SUFFICES ASSUME Init PROVE IInv
  OBVIOUS
<1>1. EmptyDatabase \in Database
  BY MembersAssumption DEF EmptyDatabase, Database, PortfolioInvitation
<1>2. Honest(EmptyDatabase, {})
  BY DEF EmptyDatabase, Honest
<1>3. TypeOK
  <2>1. 0 \in 0..MaxPages
    BY MembersAssumption
  <2>2. db \in Database /\ before \in Database
    BY <1>1 DEF Init
  <2> QED BY <2>1, <2>2 DEF Init, TypeOK
<1>4. Honest(db, transferred)
  BY <1>2 DEF Init
<1> QED BY <1>3, <1>4 DEF IInv

LEMMA Inductive == IInv /\ [Next]_vars => IInv'
<1> SUFFICES ASSUME IInv, [Next]_vars PROVE IInv'
  OBVIOUS
<1>1. Core
  BY DEF IInv, TypeOK, Core
<1>2. CASE UNCHANGED vars
  BY <1>2 DEF IInv, TypeOK, Honest, vars
<1>3. CASE Next
  <2>1. PICK v \in Views :
          \/ \E p \in Person : Login(v, p)
          \/ /\ pages < MaxPages
             /\ \/ DomainPages(v) /\ by' = "manager"
                \/ MemberPages(v) /\ by' = "admin"
                \/ StaffPages(v) /\ by' = "staff"
    BY <1>3 DEF Next
  <2>2. v \in {db, before}
    BY DEF Views
  <2>3. CASE \E p \in Person : Login(v, p)
    <3>1. Core' /\ by' = "login"
      BY <1>1, <2>2, <2>3, LoginCore DEF Login
    <3> QED BY <3>1 DEF Core, IInv, TypeOK
  <2>4. CASE /\ pages < MaxPages
             /\ \/ DomainPages(v) /\ by' = "manager"
                \/ MemberPages(v) /\ by' = "admin"
                \/ StaffPages(v) /\ by' = "staff"
    <3>1. Core' /\ by' \in {"manager", "admin", "staff"}
      BY <1>1, <2>2, <2>4, DomainPagesCore, MemberPagesCore, StaffPagesCore
    <3> QED BY <3>1 DEF Core, IInv, TypeOK
  <2> QED BY <2>1, <2>3, <2>4
<1> QED BY <1>2, <1>3

LEMMA Invariance == Spec => []IInv
BY Initially, Inductive, PTL DEF Spec

\* Every table keeps to its type, whatever pages overlap.
THEOREM TypeCorrect == Spec => []TypeOK
<1>1. IInv => TypeOK
  BY DEF IInv
<1> QED BY <1>1, Invariance, PTL

\* Whoever has retrieved an invitation has an account and manages the domain,
\* for any number of people, domains, portfolios and invitations: so nobody
\* is refused a new invitation as a manager who is none.
THEOREM RetrievedManages == Spec => []RetrievedHasRole
<1>1. IInv => RetrievedHasRole
  BY DEF IInv, Honest, RetrievedHasRole
<1> QED BY <1>1, Invariance, PTL

-----------------------------------------------------------------------------
(* Pages that have read the current tables *)

LEMMA Stored ==
  ASSUME NEW v, NEW x, Store(v, x), ~overlapped'
  PROVE  db' = x /\ v = db
BY DEF Store

\* What a login does to memberships.
LEMMA LoginFacts ==
  ASSUME db \in Database, NEW v, NEW p \in Person, Login(v, p), ~overlapped'
  PROVE  \/ db'.perm = db.perm
         \/ \E o, r : /\ OrgsOf(db, p) = {}
                      /\ db'.perm = [db.perm EXCEPT ![p][o] = r]
<1> DEFINE known == [db EXCEPT !.account = @ \cup {p}]
           new   == {d \in Domain : \E i \in Row : v.dinv[p][d][i] = "invited"}
           f     == [d \in Domain |-> [i \in Row |->
                      IF v.dinv[p][d][i] = "invited" THEN "retrieved" ELSE db.dinv[p][d][i]]]
           manager == [known EXCEPT !.role[p] = @ \cup new, !.dinv[p] = f]
<1>1. /\ manager.perm = db.perm
      /\ \A i, row : RetrieveRow(manager, p, i, row).perm
                       = [manager.perm EXCEPT ![p][row.org] = row.role]
  BY DEF Database, RetrieveRow
<1>2. IF OrgsOf(v, p) # {} \/ Pending(v, p) = {}
      THEN Store(v, manager)
      ELSE \E i \in Pending(v, p) : Store(v, RetrieveRow(manager, p, i, v.pinv[p][i]))
  BY DEF Login
<1> HIDE DEF manager
<1>3. CASE Store(v, manager)
  BY <1>1, <1>3, Stored
<1>4. CASE OrgsOf(v, p) = {} /\ \E i \in Pending(v, p) : Store(v, RetrieveRow(manager, p, i, v.pinv[p][i]))
  <2>1. PICK i \in Pending(v, p) : Store(v, RetrieveRow(manager, p, i, v.pinv[p][i]))
    BY <1>4
  <2>2. db' = RetrieveRow(manager, p, i, v.pinv[p][i]) /\ v = db
    BY <2>1, Stored
  <2>3. db'.perm = [db.perm EXCEPT ![p][v.pinv[p][i].org] = v.pinv[p][i].role]
    BY <1>1, <2>2
  <2> QED BY <1>4, <2>2, <2>3
<1> QED BY <1>2, <1>3, <1>4

SameRoles(x, y) == y.role = x.role /\ y.perm = x.perm

LEMMA SendFrame ==
  ASSUME NEW v, NEW x \in Database, NEW p, NEW d, NEW other, NEW user, NEW mail
  PROVE  SameRoles(x, SendDomainInvitation(v, x, p, d, other, user, mail).db)
BY DEF SendDomainInvitation, Outcome, SetInvitation, Database, SameRoles

JoinsOther(p, o, f) == \E r : o # f /\ db'.perm = [db.perm EXCEPT ![p][o] = r]

\* What the page of a domain's managers does to memberships: the person
\* added becomes a member of the domain's portfolio only if another
\* portfolio, or none, is found to be the person's.
LEMMA AddManagerFacts ==
  ASSUME db \in Database, NEW v, NEW a, NEW p \in Person, NEW d \in Domain, NEW f,
         NEW orgMail, NEW mail, AddManager(v, a, p, d, f, orgMail, mail), ~overlapped'
  PROVE  db'.perm = db.perm \/ JoinsOther(p, Org[d], f)
<1> DEFINE o      == Org[d]
           invited == InviteToPortfolio(v, db, p, o, orgMail)
           invites == InvitesToPortfolio(v, a, o) /\ ~OfThisOrg(v, o, p, f)
           first  == IF invites THEN invited ELSE Outcome(db, TRUE)
           second == IF first.ok
                     THEN SendDomainInvitation(v, first.db, p, d, OfOtherOrg(v, o, p, f),
                                               p \in v.account, mail)
                     ELSE first
<1>1. v = db
  BY DEF AddManager, Commit, Store
<1>2. invites => o # f /\ o \in Portfolio
  BY MembersAssumption DEF InvitesToPortfolio, OfThisOrg
<1>3. invites => /\ invited.db \in Database /\ invited.db.role = db.role
                 /\ \/ invited.db.perm = db.perm
                    \/ \E r : invited.db.perm = [db.perm EXCEPT ![p][o] = r]
  <2> SUFFICES ASSUME invites
               PROVE  /\ invited.db \in Database /\ invited.db.role = db.role
                      /\ \/ invited.db.perm = db.perm
                         \/ \E r : invited.db.perm = [db.perm EXCEPT ![p][o] = r]
    OBVIOUS
  <2>1. invited.db \in Database /\ invited.db.role = db.role
    BY <1>1, <1>2, InviteType, InviteSame
  <2> DEFINE found == {i \in Row : v.pinv[p][i].org = o /\ v.pinv[p][i].role = "member"}
             i     == IF found = {} THEN NextRow(PortfolioRows(db, p)) ELSE CHOOSE j \in found : TRUE
             row   == IF found = {} THEN [org |-> o, role |-> "member", status |-> "invited"]
                      ELSE v.pinv[p][i]
  <2>2. row.org = o
    <3>1. CASE found = {}
      BY <3>1
    <3>2. CASE found # {}
      <4>1. i \in found /\ row = v.pinv[p][i]
        BY <3>2
      <4> QED BY <4>1
    <3> QED BY <3>1, <3>2
  <2>3. invited.db \in {db, RetrieveRow(db, p, i, row), [db EXCEPT !.pinv[p][i] = row]}
    BY DEF InviteToPortfolio, Outcome
  <2> HIDE DEF invited, i, row
  <2>4. RetrieveRow(db, p, i, row).perm = [db.perm EXCEPT ![p][o] = row.role]
    BY <2>2 DEF RetrieveRow, Database
  <2>5. [db EXCEPT !.pinv[p][i] = row].perm = db.perm
    BY DEF Database
  <2> QED BY <2>1, <2>3, <2>4, <2>5
<1>4. /\ first.db \in Database /\ first.db.role = db.role
      /\ \/ first.db.perm = db.perm
         \/ \E r : o # f /\ first.db.perm = [db.perm EXCEPT ![p][o] = r]
  <2> HIDE DEF invites, invited
  <2> QED BY <1>2, <1>3 DEF Outcome
<1>5. \/ Commit(v, second.db)
      \/ Commit(v, AddRole(second.db, p, d))
      \/ Commit(v, GetOrCreate(v, second.db, p, d))
  BY DEF AddManager
<1> HIDE DEF first
<1>6. second.db \in Database /\ second.db.role = first.db.role /\ second.db.perm = first.db.perm
  BY <1>4, SendType, SendFrame DEF SameRoles
<1> HIDE DEF second
<1>7. AddRole(second.db, p, d).perm = second.db.perm
  BY <1>6 DEF AddRole, Database
<1>8. GetOrCreate(v, second.db, p, d).perm = second.db.perm
  BY <1>6 DEF GetOrCreate, SetInvitation, Database
<1>9. \/ db' = second.db
      \/ db' = AddRole(second.db, p, d)
      \/ db' = GetOrCreate(v, second.db, p, d)
  BY <1>5, Stored DEF Commit
<1>10. db'.perm = second.db.perm
  BY <1>7, <1>8, <1>9
<1> QED BY <1>4, <1>6, <1>10 DEF JoinsOther

LEMMA CleanupFrame ==
  ASSUME NEW v, NEW x \in Database, NEW p, NEW o, NEW user
  PROVE  Cleanup(v, x, p, o, user).perm = x.perm
BY DEF Cleanup, DeleteRoles, Database

\* What the pages of a portfolio's admins do to memberships: a person without
\* any gets one, or one that is not the only admin's changes.
Joins(p) == \E o, r : OrgsOf(db, p) = {} /\ db'.perm = [db.perm EXCEPT ![p][o] = r]
Changes(p) ==
  \E o \in Portfolio : \E r : /\ db.perm[p][o] # "none" /\ ~OnlyAdmin(db, o, p)
                               /\ db'.perm = [db.perm EXCEPT ![p][o] = r]

LEMMA MemberPagesFacts ==
  ASSUME db \in Database, NEW v, MemberPages(v), ~overlapped'
  PROVE  db'.perm = db.perm \/ \E p \in Person : Joins(p) \/ Changes(p)
<1>1. PICK a \in Person, o \in Portfolio, p \in Person :
        \/ \E r \in PortfolioRole : AddMember(v, a, o, p, r) \/ ChangeMember(v, a, o, p, r)
        \/ RemoveMember(v, a, o, p)
        \/ \E d \in Domain, f \in FirstPermission(v, p), mail \in BOOLEAN :
             AddMemberDomain(v, a, o, p, d, f, mail)
        \/ \E d \in Domain : RemoveMemberDomain(v, a, o, p, d)
        \/ \E i \in Row :
             \/ DeleteInvitedMember(v, a, o, p, i)
             \/ \E r \in PortfolioRole : EditInvitedMember(v, a, o, p, i, r)
             \/ \E d \in Domain :
                  \/ \E mail \in BOOLEAN : AddInvitedMemberDomain(v, a, o, p, i, d, mail)
                  \/ RemoveInvitedMemberDomain(v, a, o, p, i, d)
  BY DEF MemberPages
<1>2. ASSUME NEW r \in PortfolioRole, AddMember(v, a, o, p, r) PROVE db'.perm = db.perm \/ Joins(p)
  <2> DEFINE i   == NextRow(PortfolioRows(db, p))
             row == [org |-> o, role |-> r, status |-> "invited"]
  <2>1. /\ OrgsOf(v, p) = {}
        /\ Commit(v, RetrieveRow(db, p, i, row)) \/ Commit(v, [db EXCEPT !.pinv[p][i] = row])
    BY <1>2 DEF AddMember, ValidInvitation
  <2>2. /\ RetrieveRow(db, p, i, row).perm = [db.perm EXCEPT ![p][o] = r]
        /\ [db EXCEPT !.pinv[p][i] = row].perm = db.perm
    BY DEF RetrieveRow, Database
  <2> HIDE DEF i, row
  <2>3. v = db /\ db' \in {RetrieveRow(db, p, i, row), [db EXCEPT !.pinv[p][i] = row]}
    BY <2>1, Stored DEF Commit
  <2> QED BY <2>1, <2>2, <2>3 DEF Joins
<1>3. ASSUME NEW r \in PortfolioRole, ChangeMember(v, a, o, p, r) PROVE Changes(p)
  <2>1. v = db /\ db' = [db EXCEPT !.perm[p][o] = r]
    BY <1>3, Stored DEF ChangeMember, Commit
  <2>2. db'.perm = [db.perm EXCEPT ![p][o] = r]
    BY <2>1 DEF Database
  <2> QED BY <1>3, <2>1, <2>2 DEF ChangeMember, Changes
<1>4. ASSUME RemoveMember(v, a, o, p) PROVE Changes(p)
  <2> DEFINE x == [db EXCEPT !.perm[p][o] = "none"]
  <2>1. x \in Database /\ x.perm = [db.perm EXCEPT ![p][o] = "none"]
    BY DEF Database
  <2>2. v = db /\ db' = Cleanup(v, x, p, o, TRUE)
    BY <1>4, Stored DEF RemoveMember, Commit
  <2> HIDE DEF x
  <2>4. Cleanup(v, x, p, o, TRUE).perm = x.perm
    BY <2>1 DEF Cleanup, DeleteRoles, Database
  <2>3. db'.perm = [db.perm EXCEPT ![p][o] = "none"]
    BY <2>1, <2>2, <2>4
  <2> QED BY <1>4, <2>2, <2>3 DEF RemoveMember, Changes
<1>5. ASSUME NEW d \in Domain, NEW f, NEW mail, AddMemberDomain(v, a, o, p, d, f, mail)
      PROVE  db'.perm = db.perm
  <2> DEFINE sent == SendDomainInvitation(v, db, p, d, OfOtherOrg(v, o, p, f), TRUE, mail)
  <2>0. sent.db \in Database
    BY SendType
  <2>4. SameRoles(db, sent.db)
    BY SendFrame
  <2>2. Commit(v, sent.db) \/ Commit(v, AddRole(sent.db, p, d))
    BY <1>5 DEF AddMemberDomain
  <2> HIDE DEF sent
  <2>1. sent.db \in Database /\ sent.db.perm = db.perm
    BY <2>0, <2>4 DEF SameRoles
  <2>3. AddRole(sent.db, p, d).perm = db.perm
    BY <2>1 DEF AddRole, Database
  <2> QED BY <2>1, <2>2, <2>3, Stored DEF Commit
<1>6. ASSUME NEW d \in Domain, RemoveMemberDomain(v, a, o, p, d) PROVE db'.perm = db.perm
  <2>1. db' = DeleteRoles(db, p, {d})
    BY <1>6, Stored DEF RemoveMemberDomain, Commit
  <2> QED BY <2>1 DEF DeleteRoles, Database
<1>7. ASSUME NEW i \in Row, DeleteInvitedMember(v, a, o, p, i) PROVE db'.perm = db.perm
  <2> DEFINE gone == [db EXCEPT !.pinv[p][i] = NoRow]
  <2>1. gone \in Database /\ gone.perm = db.perm
    BY DEF Database, PortfolioInvitation
  <2>2. Commit(v, Cleanup(v, gone, p, o, p \in v.account)) \/ Commit(v, gone)
    BY <1>7 DEF DeleteInvitedMember
  <2> HIDE DEF gone
  <2> QED BY <2>1, <2>2, CleanupFrame, Stored DEF Commit
<1>8. ASSUME NEW i \in Row, NEW r \in PortfolioRole, EditInvitedMember(v, a, o, p, i, r)
      PROVE  db'.perm = db.perm
  <2>1. db' = [db EXCEPT !.pinv[p][i] = [v.pinv[p][i] EXCEPT !.role = r]]
    BY <1>8, Stored DEF EditInvitedMember, Commit
  <2> QED BY <2>1 DEF Database
<1>9. ASSUME NEW i \in Row, NEW d \in Domain,
             \/ \E mail \in BOOLEAN : AddInvitedMemberDomain(v, a, o, p, i, d, mail)
             \/ RemoveInvitedMemberDomain(v, a, o, p, i, d)
      PROVE  db'.perm = db.perm
  <2>1. \A f : [db EXCEPT !.dinv[p][d] = f].perm = db.perm
    BY DEF Database
  <2>2. CASE \E mail \in BOOLEAN : AddInvitedMemberDomain(v, a, o, p, i, d, mail)
    <3>1. PICK mail \in BOOLEAN : AddInvitedMemberDomain(v, a, o, p, i, d, mail)
      BY <2>2
    <3> DEFINE sent == SendDomainInvitation(v, db, p, d, OfOtherOrg(v, o, p, NoOrg), FALSE, mail)
    <3>4. SameRoles(db, sent.db)
      BY SendFrame
    <3>3. Commit(v, sent.db) \/ \E f : Commit(v, [db EXCEPT !.dinv[p][d] = f])
      BY <3>1 DEF AddInvitedMemberDomain
    <3> HIDE DEF sent
    <3>2. sent.db.perm = db.perm
      BY <3>4 DEF SameRoles
    <3> QED BY <2>1, <3>2, <3>3, Stored DEF Commit
  <2>3. CASE RemoveInvitedMemberDomain(v, a, o, p, i, d)
    <3>1. \E f : Commit(v, [db EXCEPT !.dinv[p][d] = f])
      BY <2>3 DEF RemoveInvitedMemberDomain
    <3> QED BY <2>1, <3>1, Stored DEF Commit
  <2> QED BY <1>9, <2>2, <2>3
<1> QED BY <1>1, <1>2, <1>3, <1>4, <1>5, <1>6, <1>7, <1>8, <1>9

\* A person gets a portfolio other than the one they have, if any.
JoinsAnother(p) ==
  \E o, r : ~(\A f \in FirstPermission(db, p) : o = f) /\ db'.perm = [db.perm EXCEPT ![p][o] = r]

\* What the pages of a domain's managers do to memberships.
LEMMA DomainPagesFacts ==
  ASSUME db \in Database, NEW v, DomainPages(v), ~overlapped'
  PROVE  db'.perm = db.perm \/ \E p \in Person : JoinsAnother(p)
<1>1. PICK a \in Person, p \in Person, d \in Domain :
        \/ \E f \in FirstPermission(v, p), orgMail \in BOOLEAN, mail \in BOOLEAN :
             AddManager(v, a, p, d, f, orgMail, mail)
        \/ \E i \in Row : CancelInvitation(v, a, p, d, i)
        \/ RemoveManager(v, a, p, d)
  BY DEF DomainPages
<1>2. CASE \E f \in FirstPermission(v, p), orgMail \in BOOLEAN, mail \in BOOLEAN :
             AddManager(v, a, p, d, f, orgMail, mail)
  <2>1. PICK f \in FirstPermission(v, p), orgMail \in BOOLEAN, mail \in BOOLEAN :
          AddManager(v, a, p, d, f, orgMail, mail)
    BY <1>2
  <2>2. v = db
    BY <2>1 DEF AddManager, Commit, Store
  <2>3. db'.perm = db.perm \/ JoinsOther(p, Org[d], f)
    BY <2>1, AddManagerFacts
  <2>4. JoinsOther(p, Org[d], f) => JoinsAnother(p)
    BY <2>1, <2>2 DEF JoinsOther, JoinsAnother
  <2> QED BY <2>3, <2>4
<1>3. CASE \E i \in Row : CancelInvitation(v, a, p, d, i)
  <2>1. PICK i \in Row : db' = SetInvitation(db, p, d, i, "canceled")
    BY <1>3, Stored DEF CancelInvitation, Commit
  <2>2. db'.perm = db.perm
    BY <2>1 DEF SetInvitation, Database
  <2> QED BY <2>2
<1>4. CASE RemoveManager(v, a, p, d)
  <2>1. v = db /\ db' = DeleteRoles(db, p, {d})
    BY <1>4, Stored DEF RemoveManager, Commit
  <2>2. db'.perm = db.perm
    BY <2>1 DEF DeleteRoles, Database
  <2> QED BY <2>2
<1> QED BY <1>1, <1>2, <1>3, <1>4

LEMMA NextFacts ==
  ASSUME Next, ~overlapped'
  PROVE  \/ by' = "login" /\ \E p \in Person : Login(db, p)
         \/ by' = "manager" /\ DomainPages(db)
         \/ by' = "admin" /\ MemberPages(db)
         \/ by' = "staff"
<1>1. PICK v \in Views :
        \/ \E p \in Person : Login(v, p)
        \/ /\ pages < MaxPages
           /\ \/ DomainPages(v) /\ by' = "manager"
              \/ MemberPages(v) /\ by' = "admin"
              \/ StaffPages(v) /\ by' = "staff"
  BY DEF Next
<1>2. CASE v = db
  BY <1>1, <1>2 DEF Login
<1>3. CASE v # db
  <2>1. ASSUME NEW x, Commit(v, x) PROVE FALSE
    BY <2>1, <1>3 DEF Commit, Store
  <2>2. ASSUME NEW x, Store(v, x) PROVE FALSE
    BY <2>2, <1>3 DEF Store
  <2>3. ~\E p \in Person : Login(v, p)
    BY <2>2 DEF Login
  <2>4. ~DomainPages(v)
    <3>1. ASSUME NEW a, NEW p, NEW d, NEW f, NEW orgMail, NEW mail,
                 AddManager(v, a, p, d, f, orgMail, mail)
          PROVE FALSE
      BY <3>1, <1>3 DEF AddManager, Commit, Store
    <3>2. \A a, p, d, i : ~CancelInvitation(v, a, p, d, i)
      BY <2>1 DEF CancelInvitation
    <3>3. \A a, p, d : ~RemoveManager(v, a, p, d)
      BY <2>1 DEF RemoveManager
    <3> QED BY <3>1, <3>2, <3>3 DEF DomainPages
  <2>5. ~MemberPages(v)
    <3>1. \A a, o, p, r : ~AddMember(v, a, o, p, r)
      BY <2>1 DEF AddMember
    <3>2. \A a, o, p, r : ~ChangeMember(v, a, o, p, r)
      BY <2>1 DEF ChangeMember
    <3>3. \A a, o, p : ~RemoveMember(v, a, o, p)
      BY <2>1 DEF RemoveMember
    <3>4. ASSUME NEW a, NEW o, NEW p, NEW d, NEW f, NEW mail,
                 AddMemberDomain(v, a, o, p, d, f, mail)
          PROVE FALSE
      BY <3>4, <1>3 DEF AddMemberDomain, Commit, Store
    <3>5. \A a, o, p, d : ~RemoveMemberDomain(v, a, o, p, d)
      BY <2>1 DEF RemoveMemberDomain
    <3>6. \A a, o, p, i : ~DeleteInvitedMember(v, a, o, p, i)
      BY <2>1 DEF DeleteInvitedMember
    <3>7. \A a, o, p, i, r : ~EditInvitedMember(v, a, o, p, i, r)
      BY <2>1 DEF EditInvitedMember
    <3>8. \A a, o, p, i, d, mail : ~AddInvitedMemberDomain(v, a, o, p, i, d, mail)
      BY <2>1 DEF AddInvitedMemberDomain
    <3>9. \A a, o, p, i, d : ~RemoveInvitedMemberDomain(v, a, o, p, i, d)
      BY <2>1 DEF RemoveInvitedMemberDomain
    <3> QED BY <3>1, <3>2, <3>3, <3>4, <3>5, <3>6, <3>7, <3>8, <3>9 DEF MemberPages
  <2> QED BY <1>1, <2>3, <2>4, <2>5
<1> QED BY <1>2, <1>3

LEMMA JoinsFacts ==
  ASSUME db \in Database, NEW p \in Person, Joins(p)
  PROVE  /\ \A q \in Person : InSeveral(db', q) => InSeveral(db, q)
         /\ \A o \in Portfolio : Admins(db, o) # {} => Admins(db', o) # {}
<1>1. PICK o, r : OrgsOf(db, p) = {} /\ db'.perm = [db.perm EXCEPT ![p][o] = r]
  BY DEF Joins
<1>2. db.perm \in [Person -> [Portfolio -> PortfolioRole \cup {"none"}]]
  BY DEF Database
<1>3. \A q \in Person \ {p} : db'.perm[q] = db.perm[q]
  BY <1>1, <1>2
<1>4. \A g \in Portfolio : g # o => db'.perm[p][g] = "none"
  BY <1>1, <1>2 DEF OrgsOf
<1>5. \A g \in Portfolio : p \notin Admins(db, g)
  BY <1>1 DEF OrgsOf, Admins
<1> QED BY <1>3, <1>4, <1>5 DEF InSeveral, OrgsOf, Admins

LEMMA ChangesFacts ==
  ASSUME db \in Database, NEW p \in Person, Changes(p)
  PROVE  /\ \A q \in Person : InSeveral(db', q) => InSeveral(db, q)
         /\ \A o \in Portfolio : Admins(db, o) # {} => Admins(db', o) # {}
<1>0. PICK o \in Portfolio : \E r : /\ db.perm[p][o] # "none" /\ ~OnlyAdmin(db, o, p)
                                     /\ db'.perm = [db.perm EXCEPT ![p][o] = r]
  BY DEF Changes
<1>1. PICK r : /\ db.perm[p][o] # "none" /\ ~OnlyAdmin(db, o, p)
               /\ db'.perm = [db.perm EXCEPT ![p][o] = r]
  BY <1>0
<1>2. db.perm \in [Person -> [Portfolio -> PortfolioRole \cup {"none"}]]
  BY DEF Database
<1>3. \A q \in Person, g \in Portfolio : (q # p \/ g # o) => db'.perm[q][g] = db.perm[q][g]
  BY <1>1, <1>2
<1>4. \A q \in Person : OrgsOf(db', q) \subseteq OrgsOf(db, q)
  BY <1>1, <1>3 DEF OrgsOf
<1>5. ASSUME NEW g \in Portfolio, Admins(db, g) # {} PROVE Admins(db', g) # {}
  <2>1. CASE g = o
    <3>1. PICK q \in Admins(db, g) : q # p
      BY <1>1, <1>5, <2>1 DEF OnlyAdmin, Admins
    <3> QED BY <1>3, <3>1 DEF Admins
  <2>2. CASE g # o
    BY <1>3, <1>5, <2>2 DEF Admins
  <2> QED BY <2>1, <2>2
<1> QED BY <1>4, <1>5 DEF InSeveral

LEMMA LoginOrMember ==
  ASSUME TypeOK, Next, ~overlapped', by' \in {"admin", "login"}
  PROVE  /\ \A q \in Person : InSeveral(db', q) => InSeveral(db, q)
         /\ \A o \in Portfolio : Admins(db, o) # {} => Admins(db', o) # {}
<1>1. (\E p \in Person : Login(db, p)) \/ MemberPages(db)
  BY NextFacts
<1>2. db \in Database
  BY DEF TypeOK
<1>3. CASE db'.perm = db.perm
  BY <1>3 DEF InSeveral, OrgsOf, Admins
<1>4. CASE \E p \in Person : Joins(p)
  BY <1>2, <1>4, JoinsFacts
<1>5. CASE \E p \in Person : Changes(p)
  BY <1>2, <1>5, ChangesFacts
<1>6. CASE \E p \in Person : Login(db, p)
  <2>1. db'.perm = db.perm \/ \E p \in Person : Joins(p)
    BY <1>2, <1>6, LoginFacts DEF Joins
  <2> QED BY <1>3, <1>4, <2>1
<1>7. CASE MemberPages(db)
  BY <1>2, <1>3, <1>4, <1>5, <1>7, MemberPagesFacts
<1> QED BY <1>1, <1>6, <1>7

LEMMA AdminsRemain ==
  ASSUME TypeOK, Next, ~overlapped', by' # "staff", NEW o \in Portfolio,
         Admins(db, o) # {}, \A q \in Person : ~InSeveral(db, q)
  PROVE  Admins(db', o) # {}
<1>1. CASE by' \in {"admin", "login"}
  BY <1>1, LoginOrMember
<1>2. CASE DomainPages(db)
  <2>1. db \in Database
    BY DEF TypeOK
  <2>2. CASE db'.perm = db.perm
    BY <2>2 DEF Admins
  <2>3. CASE \E p \in Person : JoinsAnother(p)
    <3>0. PICK p \in Person : JoinsAnother(p)
      BY <2>3
    <3>1. PICK g, r : ~(\A f \in FirstPermission(db, p) : g = f) /\ db'.perm = [db.perm EXCEPT ![p][g] = r]
      BY <3>0 DEF JoinsAnother
    <3>2. g \notin OrgsOf(db, p)
      <4> SUFFICES ASSUME g \in OrgsOf(db, p) PROVE FALSE
        OBVIOUS
      <4>1. PICK f \in FirstPermission(db, p) : f # g
        BY <3>1
      <4>2. f \in OrgsOf(db, p)
        BY <4>1 DEF FirstPermission
      <4>3. ~InSeveral(db, p)
        OBVIOUS
      <4> QED BY <4>1, <4>2, <4>3 DEF InSeveral
    <3>3. db.perm \in [Person -> [Portfolio -> PortfolioRole \cup {"none"}]]
      BY <2>1 DEF Database
    <3>4. \A q \in Admins(db, o) : db'.perm[q][o] = db.perm[q][o]
      BY <3>1, <3>2, <3>3 DEF Admins, OrgsOf
    <3> QED BY <3>4 DEF Admins
  <2> QED BY <1>2, <2>1, <2>2, <2>3, DomainPagesFacts
<1> QED BY <1>1, <1>2, NextFacts

\* No sequence of pages of members, managers and logins takes the last admin
\* from a portfolio while nobody is in two of them.
THEOREM AdminsKeepOne == Spec => OrgKeepsAdmin
<1>1. TypeOK /\ [Next]_vars =>
        [\A o \in Portfolio :
           /\ ~overlapped'
           /\ Admins(db, o) # {} /\ by' # "staff"
           /\ \A q \in Person : ~InSeveral(db, q)
           => Admins(db', o) # {}]_vars
  BY AdminsRemain
<1> QED BY <1>1, TypeCorrect, PTL DEF Spec, OrgKeepsAdmin

\* The pages for members and the login keep everybody in one portfolio.
THEOREM OnePortfolioKept == Spec => OnePortfolio
<1>1. TypeOK /\ [Next]_vars =>
        [\A p \in Person :
           ~overlapped' /\ ~InSeveral(db, p) /\ by' \in {"admin", "login"}
             => ~InSeveral(db', p)]_vars
  BY LoginOrMember
<1> QED BY <1>1, TypeCorrect, PTL DEF Spec, OnePortfolio

-----------------------------------------------------------------------------
(* Invitations to one domain *)

\* No person has an invitation in `y` that was not there in `x`.
NoneNew(x, y) ==
  \A p \in Person, d \in Domain : DomainRows(y, p, d) \subseteq DomainRows(x, p, d)

\* Nobody who had an invitation to a domain gets another.
NoSecond(x, y) ==
  \A p \in Person, d \in Domain :
    \/ DomainRows(y, p, d) \subseteq DomainRows(x, p, d)
    \/ DomainRows(x, p, d) = {} /\ \E i : DomainRows(y, p, d) \subseteq {i}

LEMMA SameNoneNew ==
  ASSUME NEW x, NEW y, y.dinv = x.dinv
  PROVE  NoneNew(x, y)
BY DEF NoneNew, DomainRows

LEMMA NoneNewTwice ==
  ASSUME NEW x, NEW y, NEW z, NoneNew(x, y), NoneNew(y, z)
  PROVE  NoneNew(x, z)
BY DEF NoneNew

LEMMA NoneNewNoSecond ==
  ASSUME NEW x, NEW y, NoneNew(x, y)
  PROVE  NoSecond(x, y)
BY DEF NoneNew, NoSecond

LEMMA SetNoneNew ==
  ASSUME NEW x \in Database, NEW p \in Person, NEW d \in Domain, NEW i \in DomainRows(x, p, d), NEW s
  PROVE  NoneNew(x, SetInvitation(x, p, d, i, s))
<1> DEFINE y == SetInvitation(x, p, d, i, s)
<1>1. y.dinv = [x.dinv EXCEPT ![p][d][i] = s]
  BY DEF SetInvitation, Database
<1>2. x.dinv \in [Person -> [Domain -> [Row -> Statuses]]] /\ i \in Row /\ x.dinv[p][d][i] # "none"
  BY DEF Database, Statuses, DomainRows
<1>3. \A q \in Person \ {p} : y.dinv[q] = x.dinv[q]
  BY <1>1, <1>2
<1>4. \A e \in Domain, j \in Row : y.dinv[p][e][j] # "none" => x.dinv[p][e][j] # "none"
  BY <1>1, <1>2
<1> HIDE DEF y
<1>5. NoneNew(x, y)
  BY <1>3, <1>4 DEF NoneNew, DomainRows
<1> QED BY <1>5 DEF y

LEMMA DeleteRolesNoneNew ==
  ASSUME NEW x \in Database, NEW p \in Person, NEW D
  PROVE  NoneNew(x, DeleteRoles(x, p, D))
<1> DEFINE y == DeleteRoles(x, p, D)
           f == [d \in Domain |-> [i \in Row |->
                  IF d \in D \cap x.role[p] /\ x.dinv[p][d][i] = "retrieved"
                  THEN "none" ELSE x.dinv[p][d][i]]]
<1>1. y.dinv = [x.dinv EXCEPT ![p] = f]
  BY DEF DeleteRoles, Database
<1>2. \A d \in Domain, i \in Row : f[d][i] # "none" => x.dinv[p][d][i] # "none"
  OBVIOUS
<1>3. DOMAIN x.dinv = Person
  BY DEF Database
<1> HIDE DEF f, y
<1>4. y.dinv[p] = f /\ \A q \in Person \ {p} : y.dinv[q] = x.dinv[q]
  BY <1>1, <1>3
<1>5. NoneNew(x, y)
  BY <1>2, <1>4 DEF NoneNew, DomainRows
<1> QED BY <1>5 DEF y

LEMMA CleanupNoneNew ==
  ASSUME NEW v, NEW x \in Database, NEW p \in Person, NEW o, NEW user, v.dinv = x.dinv
  PROVE  NoneNew(x, Cleanup(v, x, p, o, user))
<1> DEFINE f == [d \in Domain |-> [i \in Row |->
                  IF d \in DomainsOf(o) /\ v.dinv[p][d][i] = "invited"
                  THEN "canceled" ELSE x.dinv[p][d][i]]]
           y == [x EXCEPT !.dinv[p] = f]
<1>1. y.dinv = [x.dinv EXCEPT ![p] = f] /\ DOMAIN x.dinv = Person
  BY DEF Database
<1>2. \A d \in Domain, i \in Row : f[d][i] # "none" => x.dinv[p][d][i] # "none"
  OBVIOUS
<1>3. f \in [Domain -> [Row -> Statuses]]
  BY DEF Database, Statuses, InvitationStatus
<1>4. Cleanup(v, x, p, o, user) \in {y, DeleteRoles(y, p, DomainsOf(o))}
  BY DEF Cleanup
<1>5. y \in Database
  BY <1>3, DinvType
<1> HIDE DEF f, y
<1>6. y.dinv[p] = f /\ \A q \in Person \ {p} : y.dinv[q] = x.dinv[q]
  BY <1>1
<1>7. NoneNew(x, y)
  BY <1>2, <1>6 DEF NoneNew, DomainRows
<1>8. NoneNew(y, DeleteRoles(y, p, DomainsOf(o)))
  BY <1>5, DeleteRolesNoneNew
<1> QED BY <1>4, <1>7, <1>8, NoneNewTwice

\* The check of an invitation reinstates a row it has found.
LEMMA SendNoneNew ==
  ASSUME NEW v, NEW x \in Database, NEW p \in Person, NEW d \in Domain, NEW other, NEW user,
         NEW mail, v.dinv = x.dinv
  PROVE  NoneNew(x, SendDomainInvitation(v, x, p, d, other, user, mail).db)
<1> DEFINE rows == DomainRows(v, p, d)
           sent == SendDomainInvitation(v, x, p, d, other, user, mail).db
           i    == CHOOSE j \in rows : TRUE
           again == SetInvitation(x, p, d, i, "invited")
<1>1. rows = DomainRows(x, p, d)
  BY DEF DomainRows
<1>2. sent = x \/ (rows # {} /\ sent = again)
  BY DEF SendDomainInvitation, Outcome
<1>3. CASE sent = x
  BY <1>3, SameNoneNew
<1>4. CASE rows # {} /\ sent = again
  <2>1. i \in DomainRows(x, p, d)
    BY <1>1, <1>4
  <2> HIDE DEF i
  <2> QED BY <1>4, <2>1, SetNoneNew
<1> QED BY <1>2, <1>3, <1>4

\* get_or_create creates a row where there was none.
LEMMA GetOrCreateNoSecond ==
  ASSUME NEW v, NEW x \in Database, NEW p, NEW d, NoneNew(v, x)
  PROVE  NoSecond(v, GetOrCreate(v, x, p, d))
<1> DEFINE i == NextRow(DomainRows(x, p, d))
           y == SetInvitation(x, p, d, i, "invited")
<1>1. CASE DomainRows(v, p, d) # {}
  BY <1>1, NoneNewNoSecond DEF GetOrCreate
<1>2. CASE DomainRows(v, p, d) = {}
  <2>1. GetOrCreate(v, x, p, d) = y
    BY <1>2 DEF GetOrCreate
  <2>2. y.dinv = [x.dinv EXCEPT ![p][d][i] = "invited"]
    BY DEF SetInvitation, Database
  <2>3. x.dinv \in [Person -> [Domain -> [Row -> Statuses]]]
    BY DEF Database, Statuses
  <2> SUFFICES ASSUME NEW q \in Person, NEW e \in Domain
               PROVE  \/ DomainRows(y, q, e) \subseteq DomainRows(v, q, e)
                      \/ DomainRows(v, q, e) = {} /\ DomainRows(y, q, e) \subseteq {i}
    BY <2>1 DEF NoSecond
  <2> HIDE DEF y, i
  <2>4. DomainRows(x, q, e) \subseteq DomainRows(v, q, e)
    BY DEF NoneNew
  <2>5. CASE q = p /\ e = d
    <3>1. \A j \in Row : j # i => y.dinv[q][e][j] = x.dinv[q][e][j]
      BY <2>2, <2>3, <2>5
    <3>2. DomainRows(x, q, e) = {}
      BY <1>2, <2>4, <2>5
    <3> QED BY <1>2, <2>5, <3>1, <3>2 DEF DomainRows
  <2>6. CASE ~(q = p /\ e = d)
    <3>1. y.dinv[q][e] = x.dinv[q][e]
      BY <2>2, <2>3, <2>6
    <3> QED BY <2>4, <3>1 DEF DomainRows
  <2> QED BY <2>5, <2>6
<1> QED BY <1>1, <1>2

LEMMA LoginNoSecond ==
  ASSUME db \in Database, NEW v, NEW p \in Person, Login(v, p), ~overlapped'
  PROVE  NoneNew(db, db')
<1> DEFINE known == [db EXCEPT !.account = @ \cup {p}]
           new   == {d \in Domain : \E i \in Row : v.dinv[p][d][i] = "invited"}
           f     == [d \in Domain |-> [i \in Row |->
                      IF v.dinv[p][d][i] = "invited" THEN "retrieved" ELSE db.dinv[p][d][i]]]
           manager == [known EXCEPT !.role[p] = @ \cup new, !.dinv[p] = f]
<1>1. /\ manager.dinv = [db.dinv EXCEPT ![p] = f] /\ DOMAIN db.dinv = Person
      /\ \A i, row : RetrieveRow(manager, p, i, row).dinv = manager.dinv
  BY DEF Database, RetrieveRow
<1>2. IF OrgsOf(v, p) # {} \/ Pending(v, p) = {}
      THEN Store(v, manager)
      ELSE \E i \in Pending(v, p) : Store(v, RetrieveRow(manager, p, i, v.pinv[p][i]))
  BY DEF Login
<1> HIDE DEF manager
<1>3. v = db /\ db'.dinv = manager.dinv
  BY <1>1, <1>2, Stored
<1>4. \A d \in Domain, i \in Row : f[d][i] # "none" => db.dinv[p][d][i] # "none"
  BY <1>3
<1> HIDE DEF f
<1>5. db'.dinv[p] = f /\ \A q \in Person \ {p} : db'.dinv[q] = db.dinv[q]
  BY <1>1, <1>3
<1> QED BY <1>4, <1>5 DEF NoneNew, DomainRows

LEMMA AddManagerNoSecond ==
  ASSUME db \in Database, NEW v, NEW a, NEW p \in Person, NEW d \in Domain, NEW f,
         NEW orgMail, NEW mail, AddManager(v, a, p, d, f, orgMail, mail), ~overlapped'
  PROVE  NoSecond(db, db')
<1> DEFINE o      == Org[d]
           invited == InviteToPortfolio(v, db, p, o, orgMail)
           invites == InvitesToPortfolio(v, a, o) /\ ~OfThisOrg(v, o, p, f)
           first  == IF invites THEN invited ELSE Outcome(db, TRUE)
           sent   == SendDomainInvitation(v, first.db, p, d, OfOtherOrg(v, o, p, f),
                                          p \in v.account, mail)
           second == IF first.ok THEN sent ELSE first
<1>1. v = db
  BY DEF AddManager, Commit, Store
<1>2. first.db \in Database /\ first.db.dinv = db.dinv
  <2>1. invites => o \in Portfolio
    BY MembersAssumption DEF InvitesToPortfolio
  <2>2. invites => invited.db \in Database /\ invited.db.dinv = db.dinv
    BY <1>1, <2>1, InviteType, InviteSame
  <2>3. Outcome(db, TRUE).db = db
    BY DEF Outcome
  <2> HIDE DEF invites, invited
  <2> QED BY <2>2, <2>3
<1>3. \/ Commit(v, second.db)
      \/ Commit(v, AddRole(second.db, p, d))
      \/ Commit(v, GetOrCreate(v, second.db, p, d))
  BY DEF AddManager
<1> HIDE DEF first
<1>4. sent.db \in Database
  BY <1>2, SendType
<1>5. NoneNew(first.db, sent.db) /\ NoneNew(db, first.db)
  BY <1>1, <1>2, SendNoneNew, SameNoneNew
<1> HIDE DEF sent
<1>6. NoneNew(db, second.db) /\ second.db \in Database
  BY <1>2, <1>4, <1>5, NoneNewTwice
<1> HIDE DEF second
<1>7. CASE db' = second.db
  BY <1>6, <1>7, NoneNewNoSecond
<1>8. CASE db' = AddRole(second.db, p, d)
  <2>1. AddRole(second.db, p, d).dinv = second.db.dinv
    BY <1>6 DEF AddRole, Database
  <2>2. NoneNew(db, db')
    BY <1>6, <1>8, <2>1 DEF NoneNew, DomainRows
  <2> QED BY <2>2, NoneNewNoSecond
<1>9. CASE db' = GetOrCreate(v, second.db, p, d)
  BY <1>1, <1>6, <1>9, GetOrCreateNoSecond
<1> QED BY <1>3, <1>7, <1>8, <1>9, Stored DEF Commit

LEMMA DomainPagesNoSecond ==
  ASSUME db \in Database, NEW v, DomainPages(v), ~overlapped'
  PROVE  NoSecond(db, db')
<1>1. PICK a \in Person, p \in Person, d \in Domain :
        \/ \E f \in FirstPermission(v, p), orgMail \in BOOLEAN, mail \in BOOLEAN :
             AddManager(v, a, p, d, f, orgMail, mail)
        \/ \E i \in Row : CancelInvitation(v, a, p, d, i)
        \/ RemoveManager(v, a, p, d)
  BY DEF DomainPages
<1>2. CASE \E f \in FirstPermission(v, p), orgMail \in BOOLEAN, mail \in BOOLEAN :
             AddManager(v, a, p, d, f, orgMail, mail)
  BY <1>2, AddManagerNoSecond
<1>3. CASE \E i \in Row : CancelInvitation(v, a, p, d, i)
  <2>1. PICK i \in Row : /\ v.dinv[p][d][i] = "invited"
                         /\ Commit(v, SetInvitation(db, p, d, i, "canceled"))
    BY <1>3 DEF CancelInvitation
  <2>2. db' = SetInvitation(db, p, d, i, "canceled") /\ i \in DomainRows(db, p, d)
    BY <2>1, Stored DEF Commit, DomainRows
  <2> QED BY <2>2, SetNoneNew, NoneNewNoSecond
<1>4. CASE RemoveManager(v, a, p, d)
  <2>1. db' = DeleteRoles(db, p, {d})
    BY <1>4, Stored DEF RemoveManager, Commit
  <2> QED BY <2>1, DeleteRolesNoneNew, NoneNewNoSecond
<1> QED BY <1>1, <1>2, <1>3, <1>4

\* The page for invited members gives the invitations to a domain statuses,
\* or creates one where there was none.
LEMMA InvitedMemberNoSecond ==
  ASSUME db \in Database, NEW v, NEW a, NEW o, NEW p \in Person, NEW i, NEW d \in Domain,
         \/ \E mail \in BOOLEAN : AddInvitedMemberDomain(v, a, o, p, i, d, mail)
         \/ RemoveInvitedMemberDomain(v, a, o, p, i, d),
         ~overlapped'
  PROVE  NoSecond(db, db')
<1> DEFINE rows    == DomainRows(db, p, d)
           invited == [j \in Row |-> IF j \in rows \/ (rows = {} /\ j = NextRow({}))
                                     THEN "invited" ELSE "none"]
           cancelled == [j \in Row |-> IF db.dinv[p][d][j] = "invited"
                                       THEN "canceled" ELSE db.dinv[p][d][j]]
<1>1. ASSUME NEW g, db' = [db EXCEPT !.dinv[p][d] = g],
             \/ \A j \in Row : g[j] # "none" => j \in rows
             \/ rows = {} /\ \E k : \A j \in Row : g[j] # "none" => j = k
      PROVE  NoSecond(db, db')
  <2>1. db'.dinv = [db.dinv EXCEPT ![p][d] = g]
    BY <1>1 DEF Database
  <2>2. db.dinv \in [Person -> [Domain -> [Row -> Statuses]]]
    BY DEF Database, Statuses
  <2>3. \A q \in Person, e \in Domain :
          db'.dinv[q][e] = IF q = p /\ e = d THEN g ELSE db.dinv[q][e]
    BY <2>1, <2>2
  <2>4. \A q \in Person, e \in Domain : ~(q = p /\ e = d) =>
          DomainRows(db', q, e) = DomainRows(db, q, e)
    BY <2>3 DEF DomainRows
  <2>5. DomainRows(db', p, d) = {j \in Row : g[j] # "none"}
    BY <2>3 DEF DomainRows
  <2>6. \/ DomainRows(db', p, d) \subseteq DomainRows(db, p, d)
        \/ DomainRows(db, p, d) = {} /\ \E k : DomainRows(db', p, d) \subseteq {k}
    BY <1>1, <2>5
  <2> QED BY <2>4, <2>6 DEF NoSecond
<1>2. CASE \E mail \in BOOLEAN : AddInvitedMemberDomain(v, a, o, p, i, d, mail)
  <2>1. PICK mail \in BOOLEAN : AddInvitedMemberDomain(v, a, o, p, i, d, mail)
    BY <1>2
  <2> DEFINE sent == SendDomainInvitation(v, db, p, d, OfOtherOrg(v, o, p, NoOrg), FALSE, mail)
  <2>2. Commit(v, sent.db) \/ Commit(v, [db EXCEPT !.dinv[p][d] = invited])
    BY <2>1 DEF AddInvitedMemberDomain
  <2>3. v = db /\ (db' = sent.db \/ db' = [db EXCEPT !.dinv[p][d] = invited])
    BY <2>2, Stored DEF Commit
  <2>4. NoneNew(db, sent.db)
    BY <2>3, SendNoneNew
  <2>5. \/ \A j \in Row : invited[j] # "none" => j \in rows
        \/ rows = {} /\ \A j \in Row : invited[j] # "none" => j = NextRow({})
    BY DEF DomainRows
  <2> HIDE DEF sent, invited
  <2> QED BY <1>1, <2>3, <2>4, <2>5, NoneNewNoSecond
<1>3. CASE RemoveInvitedMemberDomain(v, a, o, p, i, d)
  <2>1. db' = [db EXCEPT !.dinv[p][d] = cancelled]
    BY <1>3, Stored DEF RemoveInvitedMemberDomain, Commit
  <2>2. \A j \in Row : cancelled[j] # "none" => j \in rows
    BY DEF DomainRows
  <2> HIDE DEF cancelled
  <2> QED BY <1>1, <2>1, <2>2
<1> QED BY <1>2, <1>3

LEMMA MemberPagesNoSecond ==
  ASSUME db \in Database, NEW v, MemberPages(v), ~overlapped'
  PROVE  NoSecond(db, db')
<1>1. PICK a \in Person, o \in Portfolio, p \in Person :
        \/ \E r \in PortfolioRole : AddMember(v, a, o, p, r) \/ ChangeMember(v, a, o, p, r)
        \/ RemoveMember(v, a, o, p)
        \/ \E d \in Domain, f \in FirstPermission(v, p), mail \in BOOLEAN :
             AddMemberDomain(v, a, o, p, d, f, mail)
        \/ \E d \in Domain : RemoveMemberDomain(v, a, o, p, d)
        \/ \E i \in Row :
             \/ DeleteInvitedMember(v, a, o, p, i)
             \/ \E r \in PortfolioRole : EditInvitedMember(v, a, o, p, i, r)
             \/ \E d \in Domain :
                  \/ \E mail \in BOOLEAN : AddInvitedMemberDomain(v, a, o, p, i, d, mail)
                  \/ RemoveInvitedMemberDomain(v, a, o, p, i, d)
  BY DEF MemberPages
<1>2. ASSUME NEW x, Commit(v, x), v = db => NoneNew(db, x)
      PROVE  NoSecond(db, db')
  BY <1>2, Stored, NoneNewNoSecond DEF Commit
<1>3. ASSUME NEW r \in PortfolioRole, AddMember(v, a, o, p, r)
      PROVE  NoSecond(db, db')
  <2> DEFINE i   == NextRow(PortfolioRows(db, p))
             row == [org |-> o, role |-> r, status |-> "invited"]
  <2>1. Commit(v, RetrieveRow(db, p, i, row)) \/ Commit(v, [db EXCEPT !.pinv[p][i] = row])
    BY <1>3 DEF AddMember
  <2>2. /\ RetrieveRow(db, p, i, row).dinv = db.dinv
        /\ [db EXCEPT !.pinv[p][i] = row].dinv = db.dinv
    BY DEF RetrieveRow, Database
  <2> HIDE DEF i, row
  <2> QED BY <1>2, <2>1, <2>2, SameNoneNew
<1>4. ASSUME NEW r \in PortfolioRole, ChangeMember(v, a, o, p, r)
      PROVE  NoSecond(db, db')
  <2>1. Commit(v, [db EXCEPT !.perm[p][o] = r])
    BY <1>4 DEF ChangeMember
  <2>2. [db EXCEPT !.perm[p][o] = r].dinv = db.dinv
    BY DEF Database
  <2> QED BY <1>2, <2>1, <2>2, SameNoneNew
<1>5. CASE RemoveMember(v, a, o, p)
  <2> DEFINE x == [db EXCEPT !.perm[p][o] = "none"]
  <2>1. x \in Database /\ x.dinv = db.dinv
    BY DEF Database
  <2>2. Commit(v, Cleanup(v, x, p, o, TRUE))
    BY <1>5 DEF RemoveMember
  <2> HIDE DEF x
  <2>3. ASSUME v = db PROVE NoneNew(db, Cleanup(v, x, p, o, TRUE))
    BY <2>1, <2>3, CleanupNoneNew, SameNoneNew, NoneNewTwice
  <2> QED BY <1>2, <2>2, <2>3
<1>6. ASSUME NEW d \in Domain, NEW f, NEW mail, AddMemberDomain(v, a, o, p, d, f, mail)
      PROVE  NoSecond(db, db')
  <2> DEFINE sent == SendDomainInvitation(v, db, p, d, OfOtherOrg(v, o, p, f), TRUE, mail)
  <2>1. sent.db \in Database /\ (v = db => NoneNew(db, sent.db))
    BY SendType, SendNoneNew
  <2>2. Commit(v, sent.db) \/ Commit(v, AddRole(sent.db, p, d))
    BY <1>6 DEF AddMemberDomain
  <2> HIDE DEF sent
  <2>3. AddRole(sent.db, p, d).dinv = sent.db.dinv
    BY <2>1 DEF AddRole, Database
  <2>4. v = db => NoneNew(db, AddRole(sent.db, p, d))
    BY <2>1, <2>3, SameNoneNew, NoneNewTwice
  <2> QED BY <1>2, <2>1, <2>2, <2>4
<1>7. ASSUME NEW d \in Domain, RemoveMemberDomain(v, a, o, p, d)
      PROVE  NoSecond(db, db')
  <2>1. Commit(v, DeleteRoles(db, p, {d}))
    BY <1>7 DEF RemoveMemberDomain
  <2> QED BY <1>2, <2>1, DeleteRolesNoneNew
<1>8. ASSUME NEW i \in Row, DeleteInvitedMember(v, a, o, p, i)
      PROVE  NoSecond(db, db')
  <2> DEFINE gone == [db EXCEPT !.pinv[p][i] = NoRow]
  <2>1. gone \in Database /\ gone.dinv = db.dinv
    BY DEF Database, PortfolioInvitation
  <2>2. Commit(v, Cleanup(v, gone, p, o, p \in v.account)) \/ Commit(v, gone)
    BY <1>8 DEF DeleteInvitedMember
  <2> HIDE DEF gone
  <2>3. NoneNew(db, gone)
    BY <2>1, SameNoneNew
  <2>4. ASSUME v = db PROVE NoneNew(db, Cleanup(v, gone, p, o, p \in v.account))
    <3>1. NoneNew(gone, Cleanup(v, gone, p, o, p \in v.account))
      BY <2>1, <2>4, CleanupNoneNew
    <3> QED BY <2>3, <3>1, NoneNewTwice
  <2> QED BY <1>2, <2>2, <2>3, <2>4
<1>9. ASSUME NEW i \in Row, NEW r \in PortfolioRole, EditInvitedMember(v, a, o, p, i, r)
      PROVE  NoSecond(db, db')
  <2>1. \A row : [db EXCEPT !.pinv[p][i] = row].dinv = db.dinv
    BY DEF Database
  <2>2. \E row : Commit(v, [db EXCEPT !.pinv[p][i] = row])
    BY <1>9 DEF EditInvitedMember
  <2> QED BY <1>2, <2>1, <2>2, SameNoneNew
<1> QED BY <1>1, <1>3, <1>4, <1>5, <1>6, <1>7, <1>8, <1>9, InvitedMemberNoSecond

LEMMA RowsFinite ==
  ASSUME NEW x, NEW p, NEW d
  PROVE  IsFiniteSet(DomainRows(x, p, d))
<1>1. IsFiniteSet(Row)
  BY MembersAssumption, FS_Interval DEF Row
<1>2. DomainRows(x, p, d) \subseteq Row
  BY DEF DomainRows
<1> QED BY <1>1, <1>2, FS_Subset

LEMMA NoSecondCounts ==
  ASSUME NEW x, NEW y, NoSecond(x, y), NEW p \in Person, NEW d \in Domain,
         Cardinality(DomainRows(x, p, d)) <= 1
  PROVE  Cardinality(DomainRows(y, p, d)) <= 1
<1>1. CASE DomainRows(y, p, d) \subseteq DomainRows(x, p, d)
  <2>1. /\ Cardinality(DomainRows(y, p, d)) <= Cardinality(DomainRows(x, p, d))
        /\ Cardinality(DomainRows(y, p, d)) \in Nat /\ Cardinality(DomainRows(x, p, d)) \in Nat
    BY <1>1, RowsFinite, FS_Subset, FS_CardinalityType
  <2> QED BY <2>1
<1>2. ASSUME NEW i, DomainRows(y, p, d) \subseteq {i}
      PROVE  Cardinality(DomainRows(y, p, d)) <= 1
  <2>1. DomainRows(y, p, d) = {} \/ DomainRows(y, p, d) = {i}
    BY <1>2
  <2>2. Cardinality({i}) = 1
    BY FS_Singleton
  <2>3. Cardinality({}) = 0
    BY FS_EmptySet
  <2> QED BY <2>1, <2>2, <2>3
<1> QED BY <1>1, <1>2 DEF NoSecond

\* The pages of managers and of portfolios and the logins, one after the
\* other, give nobody a second invitation to a domain, for any numbers.
THEOREM OneInvitationKept == Spec => OneInvitation
<1>1. ASSUME TypeOK, Next, ~overlapped', by' # "staff"
      PROVE  NoSecond(db, db')
  <2>1. db \in Database
    BY <1>1 DEF TypeOK
  <2> QED BY <1>1, <2>1, NextFacts, LoginNoSecond, NoneNewNoSecond, DomainPagesNoSecond,
             MemberPagesNoSecond
<1>2. TypeOK /\ [Next]_vars =>
        [\A p \in Person, d \in Domain :
           ~overlapped' /\ Cardinality(DomainRows(db, p, d)) <= 1 /\ by' # "staff"
             => Cardinality(DomainRows(db', p, d)) <= 1]_vars
  BY <1>1, NoSecondCounts
<1> QED BY <1>2, TypeCorrect, PTL DEF Spec, OneInvitation

=============================================================================
