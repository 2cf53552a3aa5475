# A formal model of the .gov registrar

This directory holds TLA+ modules that model the core of the registrar application in
`src/src/registrar`, `src/src/epplibwrapper` and `src/src/djangooidc`, the TLC configurations that
check them on small instances, and proofs of their central properties for every instance.  Paths
below are relative to `src/src/`.

## 1. The system

The registrar is a Django application.  Domain managers and requesters use its pages, analysts and
admins use the Django admin; all of them work on one PostgreSQL database.  The truth about a domain
that exists is kept by the EPP registry, with which each worker process talks over one connection.

Facts about the deployment that the models rest on:

* `ATOMIC_REQUESTS` (`registrar/config/settings.py:286-290`): every HTTP request is one database
  transaction at the default isolation level, READ COMMITTED.  What a request reads may be
  overwritten before it writes; what it writes is seen by others after its response is made.  EPP
  commands are not rolled back.
* `run.sh:9`: three gunicorn workers with gevent.  Requests overlap within a process and between
  processes; a worker may be killed at any point.
* Sessions are kept in the database and pickle their values. A request loads its session when it
  begins and saves it whole after the view's transaction; nothing locks it in between.
* Rows are saved whole (`save()` without `update_fields`), and no query locks a row
  (`select_for_update` is not used): the first UPDATE of a transaction takes the lock. The exception
  that matters here is in the bodies of `place_client_hold` and `revert_client_hold`
  (`registrar/models/domain.py:1732` and `1744`), which save the column `state` alone, with the value
  it has before the transition; their callers then save the whole row in the same transaction.
* `save()` of an object whose row is gone inserts the row again, with its old key.

### Components

| Component | State | Operations | Interacts with | What is hard |
|---|---|---|---|---|
| Domain (`models/domain.py`) | row: `state`, `first_ready`, `deleted`, dates; a cache per object; hosts, contacts | fetch with lazy creation, name servers, DNSSEC data, contacts, hold, renewal, deletion | registry connection, session, row lock | registry and row are two systems without a common transaction; stale objects; multi-command operations that fail half way |
| Domain pages (`views/domain.py`) | pickled `Domain` per session | overview, name servers, DNSSEC, DS data, security contact, hold, renewal, managers | domain, invitations | the copy in the session outlives other people's changes |
| Registry connection (`epplibwrapper/`) | client, lock | send, retry, connect, login, disconnect | registry; shared by the greenlets of a worker | one connection, broken connections, lost answers, retries |
| Domain requests (`models/domain_request.py`, `domain_information.py`, `views/domain_request.py`) | request row, `DomainInformation`, requester's restriction | wizard pages, submit, transitions of the admin, approval, withdrawal, deletion | domain (creates and deletes it), portfolios | check-then-act without locks, versions, swallowed exceptions, repeated approval |
| Admin (`admin.py`) | - | buttons on a domain, `save_model` of requests, invitations | all models | the same row is read several times within one request |
| Domain managers and invitations (`models/domain_invitation.py`, `user_domain_role.py`, `signals.py`) | roles, invitations | invite, cancel, retrieve at login, add, remove | login, portfolios, domain pages | "at least one manager"; cancel against retrieve |
| Portfolios (`models/portfolio_invitation.py`, `user_portfolio_permission.py`, `views/portfolios.py`) | memberships, invitations | invite, retrieve, edit, remove, transfer of a user | managers, requests | last administrator, several portfolios |
| Hosts and contacts (`models/host.py`, `host_ip.py`, `public_contact.py`) | mirror rows | synchronized at each fetch | domain, registry | several commands per change, rows without a unique constraint, lists kept in sessions |
| Login (`djangooidc/`, `models/user.py:272-411`) | session of a browser, `User` rows | begin, callback, step-up, matching of accounts, logout | identity provider, invitations, roles | tabs share a session; check and login are apart; addresses move between identities |
| DNS hosting (`services/`) | account, zone, record rows and vendor objects | create step by step | vendor API | partial failure |
| API, reports, permissions, forms, mail, batch commands, reference data, browser code | - | - | - | see section 8 |

### What makes each part correct

* Domain: the row never says more than the registry backs; a deletion is final and is recorded only
  when it happened; the row follows the FSM; `first_ready` and `deleted` agree with the state in every
  version of the object that may be saved; a domain on hold does not resolve; requests that wait for
  each other end.
* Registry connection: used by one greenlet at a time, one connection, commands executed at most
  twice and never interleaved with another's, failures only with a cause, every call returns.
* Domain requests: the status follows its state machine, an approved request has its domain and
  information, a name that the registry has is in the table, an active domain keeps its approval.
  That a name has one live Domain row is a constraint of the database (`models/domain.py:81-87`).
* Managers and members: a portfolio keeps its admin; an invitation that is retrieved has its role; a
  person has one invitation to a domain and one portfolio; every invitation is answered.
* Name servers: a ready domain has two name servers at the registry; the lists kept in sessions are
  the registry's; a page changes the address of no host that is not the domain's own.
* Login: who gets in without proving their identity is known; every attempt to sign in ends.

## 2. Modules

| Module | What it is |
|---|---|
| `DomainLifecycle` | One domain: row, registry object, session copies, row lock, requests step by step |
| `DomainStateMachine` | Abstract: the states and transitions of `Domain.state` and the stamp `first_ready` |
| `MCDomainLifecycle` | Sets of requests and symmetry for TLC |
| `DomainLifecycleProofs` | Inductive invariant and theorems, whatever overlaps |
| `DomainLifecycleSerialProofs` | Invariants, theorems and the refinement of `DomainStateMachine` for requests one after the other |
| `EppClient` | `EPPLibWrapper`: lock, send, retry, connect, login, disconnect, broken connections, restart |
| `RegistryCalls` | Abstract: what `send` promises its callers |
| `EppClientProofs` | Inductive invariant, theorems, and the refinement |
| `DomainRequest` | Requests for one name, their `DomainInformation`, the Domain rows they create |
| `DomainRequestStatuses` | Abstract: the states and transitions of `DomainRequest.status` |
| `MCDomainRequest` | Symmetry for TLC |
| `DomainRequestProofs` | Inductive invariant and theorems, whatever overlaps |
| `DomainRequestSerialProofs` | Invariants, theorems and the refinement of `DomainRequestStatuses` for transactions one after the other |
| `Members` | Roles, invitations and permissions of domains and portfolios; the pages that change them, and logins |
| `MCMembers` | The portfolio of a domain |
| `MembersProofs` | Inductive invariant, theorems on retrieved invitations, last admins, the one portfolio and the one invitation |
| `NameServers` | Hosts and delegations at the registry, their rows and cached lists; the page that changes them command by command |
| `MCNameServers` | Hosts, domains and symmetry for TLC |
| `NameServersProofs` | Inductive invariants of the lists, of addresses and of the number of rows, and theorems |
| `SignIn` | Tabs, the session they share, the identity provider, accounts, and who has to prove their identity |
| `MCSignIn` | The situations a sign-in may begin in |
| `SignInProofs` | Inductive invariant and theorems |

How they fit together: `DomainLifecycle` uses of the connection what `EppClient` shows of it. A
command is executed and answered, refused, or executed while `send` reports an error
(`RegistryCalls!Fail` after an execution); that is its `EppDone` and `EppError`.  `DomainRequest`
uses of the domain its creation at the registry (`LoadUnknown` to `CreationRolledBack`), the moves of
its state (`MoveDomain`, `LaterStates`), which are those of `DomainStateMachine`, and the deletion
that `delete_and_clean_up_domain` calls.  `NameServers` refines what
`DomainLifecycle` calls `SetNameservers` into its commands, for domains that stay editable.  What
`Members` has as one step, a login that finds the account and retrieves the invitations, is a
callback in `SignIn` with its check, its session and its account, where the invitations and roles of
one domain stand for all.

### DomainLifecycle

| Variable | Code |
|---|---|
| `row` | committed row of `Domain` (`models/domain.py:1288-1338`), its fields `state`, `first_ready`, `deleted` |
| `reg` | the registry's domain: exists, `clientHold`, two or more name servers delegated, DNSSEC data |
| `session` | the pickled object of `_get_domain` (`views/domain.py:106-130`), one per browser session |
| `mem`, `pc`, `op` | the `Domain` object of a request, where the request is, and which it is |
| `pend`, `lock` | the row as written and not yet committed, and who holds the row lock |
| `clock` | the date: counts requests, so that two stamps differ |
| `stale` | history, per session: its request took a copy of the session that was not the row |
| `doubt` | history: the registry executed a deletion that was not recorded |
| `lifted` | history: the hold of a row on hold was lifted by the button for it, or the row was put on hold from an old copy |

A request begins (`Begin`) with the check of `has_permission` and the object it loads, runs EPP steps
and saves, and ends with `Commit` (the session is stored after that), `Abort` (an exception nobody
catches) or `Crash`.  `InfoFound`, `FixFailed`, `InfoMissing`, `InfoFailed`, `CreateDone` and
`CreateFailed` are `_fetch_cache` with the lazy creation of the domain; `SetNameservers`, `SetDsData`,
`PlaceClientHold` and `RevertClientHold` the setters and holds; `DeleteHosts` to `DeleteDomain` the
commands of `_delete_domain` in the order of the code.  `Save` is every `save()`: it writes the whole
object, and waits for the row lock.  What is abstracted: host names and addresses (only "at least two
or fewer"), DS records (present or not), contacts (their creation succeeds or fails), the number of
polls in `_domain_can_be_deleted`.  A session has one request at a time here: what two tabs of a
session do to each other's copy is what two sessions do, but for the copy that is saved last, and is
modelled in `NameServers`.  A session does not end: logging out and in again drops the copy, as if
another session went on.  The rendering of a template after the view returned runs outside
the transaction and belongs to no step.  `FixFailed` lets the fetch of a domain in state `unknown`
end as an exception, which is how the unbounded nesting of `_fix_unknown_state` (`domain.py:2112`)
ends.

### EppClient

`client` is `_client` (absent, created but not connected, connected, logged in, broken), `opened`
counts the connections the registry sees, `holder` is `connection_lock`, `pc` the line of `send`,
`_retry` or `_initialize_client` a caller has reached.  `executed` counts how often the registry
executed the caller's command and `result` is what `send` returned; `faulted` is a history variable:
something went wrong while this caller held the lock.  `Break` ends the connection at any moment,
`Restart` replaces the worker.  Which errors are retried follows `errors.py:76-99`.  `Disconnect`
takes the connection for closed also when `close()` raises, which `_close_client` logs
(`client.py:117-122`): the client object with its socket is dropped then, and what the registry makes of
that is outside the model.

### DomainRequest

| Variable | Code |
|---|---|
| `dr` | committed rows: `status` and `approved_domain`; all requests are for one name |
| `dom` | state of each Domain row of that name, `none` before creation, `removed` after deletion of the row |
| `contacts` | Domain rows that `PublicContact` rows refer to (`on_delete=PROTECT`) |
| `info` | the domain of a request's `DomainInformation` (one-to-one, `PROTECT` on the request) |
| `restricted` | `User.status` of the requester |
| `page` | per tab: the request whose newest version it shows |
| `tx` | per tab: its transaction: step, operation, loaded object, what it will do to the Domain row |
| `held` | the registry has a domain of the name |
| `creating` | per Domain row: how far a request is that creates it at the registry |
| `abandoned` | history: such a request was rolled back after it had sent `CreateDomain` |

A transaction begins (`Edit`, `ChangeStatus`, `Done`, `Withdrawn`, `Delete`) with its admission:
restriction, version of the form, and the object it loads.  The admin's `save_model` reads the row
again before it decides (`admin.py:3172`), which is the second step (`SaveUnchanged`, `Transition`,
`Approve`, `ApproveRefused`, `Refuse`).  The last step writes the row and commits, or fails on a
constraint (`CommitFails`): `Integrity` has the unique names of live domains
(`unique_name_except_deleted`), the one-to-one `DomainInformation`, and the references.  The
creation of the domain at the registry is a request of its own in three steps: it loads the row in
state `unknown`, sends `CreateDomain` and the contacts, and commits row and contacts
(`CreationSaved`, `CreationUnsaved`) or is rolled back (`CreationRolledBack`), while clean-ups and
approvals go on.  A row that a clean-up has removed in between is inserted again, without its
`DomainInformation` and roles, as long as no other live row has the name.  `CleanUp` is
`delete_and_clean_up_domain` with the exceptions it swallows: the registrant's `PublicContact`
protects the row of a domain that has been at the registry, so that such a row is marked deleted and
stays; a row still in state `unknown` without contacts is removed and takes its `DomainInformation`
along.

The version check is merged with the load of the object: a commit between the two is a conflict for
the code and an older page for the model.  Reasons, investigator, suborganization, emails and
portfolio appear as the possibility to refuse (`Refuse`).  The manager role that `approve()` creates
belongs to the module on managers.

### Members

| Variable | Code |
|---|---|
| `db.account`, `db.role` | `User` rows; `UserDomainRole` |
| `db.dinv` | `DomainInvitation`: the rows of a person and a domain in the order of their keys, each with its status |
| `db.perm` | `UserPortfolioPermission` with its role |
| `db.pinv` | `PortfolioInvitation`: the rows of a person, each with portfolio, role and status |
| `before` | the tables before the last commit: what a page has read that overlapped it |
| `overlapped`, `by`, `transferred` | history: has a page overlapped another; who made the last commit; whose account was merged into another |

Every page is an action with a view `v` of the tables, which is `db` or, with `Overlap`, `before`: its
guard and what it decides come from `v`, its writes are made on `db`, as READ COMMITTED has it for
queries that ran before the other commit and statements that ran after it.

| Actions | Code |
|---|---|
| `AddManager`, `CancelInvitation`, `RemoveManager` | `DomainAddUserView`, `DomainInvitationCancelView`, `DomainDeleteUserView` (`views/domain.py:1286-1478`) |
| `AddMember`, `ChangeMember`, `RemoveMember`, `AddMemberDomain`, `RemoveMemberDomain` | `views/portfolios.py`: members with an account |
| `EditInvitedMember`, `DeleteInvitedMember`, `AddInvitedMemberDomain`, `RemoveInvitedMemberDomain` | the same for those invited |
| `StaffInvite`, `StaffDeleteInvitation`, `StaffAddManager`, `StaffRemoveManager`, `StaffSetMember`, `StaffRemoveMember`, `TransferUser` | the model admins and `views/transfer_user.py` |
| `Login` | `User.on_each_login`: both kinds of invitations, for the account of the address |

`SendDomainInvitation` is `send_domain_invitation_email` with what it does to the tables before it
fails or mails: it reinstates a cancelled invitation. `DeleteRoles` includes the receiver of the
deletion signal, `Cleanup` is `cleanup_after_portfolio_member_deletion`. That an operation raises in
the middle, because the mail or a query fails, is part of its action: the writes before stay when
the view catches the exception. The flag `multiple_portfolios` is off.

### NameServers

| Variable | Code |
|---|---|
| `glue` | the registry's host objects: absent, without an address, or with one |
| `delegated` | the name servers of each domain at the registry |
| `ready` | domains in state "ready"; the others are in "dns needed" |
| `mirror` | rows of `Host` and `HostIP` per domain; a host may have several |
| `cache` | the list in the `_cache` of the pickled `Domain` of a session |
| `request` | the request of a tab: the session as it loaded it, what is asked, what was fetched, and how far the setter is |
| `behind` | history: the lists of sessions that a change has crossed or a lost answer has kept |

`SessionOf` gives each tab its session. A request loads the lists of all domains with the session
and writes all of them back at its end (`Closed`), as `_update_session_with_domain` and the
middleware do without a lock: of two tabs of a session the last one wins. The commit of the rows and
the save of the session are one step. A request begins with the list: from the session's cache
(`Cached`), fetched and mirrored (`Fetched`), fetched while a host has several rows
(`FetchedDuplicates`), or taken from the rows when the registry is not reached (`NotFetched`). The
overview always takes the domain from the database (`Overview`); another form of the domain
invalidates the list (`OtherForm`). Then the setter of `domain.py:786-837` runs command by command:
`UpdateHost`, `CreateHost`, `UpdateDomain`, `DeleteHost`; each may be refused, fail, or be executed
without an answer. `Saved` is its end, with the count and the state; `Shown` the end of a request
that failed or only showed the list, whose object goes into the session as it is. Forms let through
what `Valid` has: two to thirteen hosts, with an address for the domain's own hosts and no others. A
host has one address at a time.

Which hosts are a domain's own is the constant `Own`, any relation that has the hosts below each
domain: `isSubdomain` (`domain.py:503-509`) matches the beginning of the name only and takes any
sign for a dot, so that `ns1.city-gov.gov` passes for a host of `city.gov`. What the registry knows of
the same question is `Parent`, the domain the name ends with.

`behind` has the lists of which nothing can be said: somebody else's, when a change was made while
another session or another tab held the list, and the request's own, when the answer to `UpdateDomain`
was lost. In the second case the setter raises and the cache is kept, against the comment "always
invalidate cache after sending updates to the registry" (`domain.py:239`). A list leaves `behind` when
the session has none any more.

### SignIn

| Variable | Code |
|---|---|
| `session` | of each browser: `state`, the user, `redirect_attempted`, `next` |
| `tab` | where a tab is: about to load a page, at the provider, in the callback, past the check; with the answer and its copy of the session |
| `account`, `inactive` | `User` rows with username, address and verification type; `is_active` |
| `role`, `invitation` | managers and invitations of one domain |
| `mail` | the provider: addresses of identities, which no two share |

`Land` is a page: the middleware redirects whoever is not signed in to `openid()`. The callback is
two steps apart from its end: `Accepted`, which loads the session and asks the provider, and `StepUp`
or `Admitted`, the check of `_requires_step_up_auth`; `Entered` is `authenticate` and `login` with the
retrieval of invitations. Meanwhile other tabs, managers and the provider go on. `Mismatch` is the
handler of `StateMismatch`, `Refused`, `LoginRequired`, `Failed`, `Unavailable` and `Ambiguous` the
other ways out.  The session middleware loads a session at the start and saves it whole at the end,
unless the response is an internal error (`WriteBack`); a login or logout replaces its row, and
callbacks that still work on it lose what they write (`lost`).  Tokens, nonces and signatures are the
library's. `crossed` is history: a manager's act, or another identity's login to the account, took
away what the check had found.

## 3. Runs

| Run | Instance | Properties | Distinct states |
|---|---|---|---|
| `lifecycle_serial` | 2 sessions, 5 requests one after the other, lost answers, crashes | `TypeOK`, `DeletedIsGone`, `RegistryBacksRow`, `OnHoldDoesNotResolve`, `DeletedIsFinal`, `StateMachineSpec` | 1.5 million |
| `lifecycle_overlap` | 2 sessions, 3 requests interleaved at every step, lost answers, crashes | `ReadyHasFirstReady`, `DeletedDateMatches`, `RequestsEnd` | 450 000 |
| `epp` | 3 greenlets | `TypeOK`, `ConnectionExclusive`, `OneConnection`, `FailureHasCause`, `CallsSpec`, `CallsReturn` | 27 000 |
| `request_serial` | 2 requests for one name, 2 tabs, 8 transactions one after the other, 2 Domain rows, registry errors | `TypeOK`, `ApprovedHasDomain`, `ActiveStaysApproved`, `RestrictedIsFrozen`, `StatusMachineSpec` | 1.6 million |
| `request_overlap` | 2 requests, 2 tabs, 5 transactions and the creation at the registry, overlapping, registry errors | `InfoHasRequest`, `RegisteredHasRow` | 2.9 million |
| `members` | 2 persons, one of them staff, 1 domain in one of 2 portfolios, 4 pages between logins, overlapping or not | `TypeOK`, `RetrievedHasRole`, `OneInvitation`, `OrgKeepsAdmin`, `OnePortfolio`, `InvitationsAnswered` | 220 000 |
| `name_servers` | 3 tabs in 2 sessions, 2 domains, 3 hosts, 2 addresses, 1 form posted, 2 pages opened, 1 fault | `TypeOK`, `ListsAreCurrent`, `OthersKeepAddress` | 370 000 |
| `sign_in` | 2 tabs of a browser, 3 identities, 2 addresses, 3 accounts, 3 visits, 1 change, 1 fault | `TypeOK`, `VerifiedOrKnown`, `SignInEnds` | 200 000 |
| `first_ready_changes`, `approved_without_information`, `removed_manager_returns`, `ready_without_name_servers` | see section 4 | one each, violated | - |

What the bounds leave room for:

* Five requests in `lifecycle_serial` are creation, name servers, a hold, a deletion given up half
  way and another request after it, so a failed and repeated deletion with its consequences is
  inside. Two sessions are enough for one to hold a stale copy while the other moves the domain on.
* Three interleaved requests of two sessions: each pair of operations overlaps at every step, and one
  request has gone before, which puts a copy into a session or the domain at the registry.
* Requests of `lifecycle_serial` do not overlap, and everything else is in play: old copies of
  sessions, lost answers, crashes after every step. `StateMachineSpec` lets a request that took an old
  copy write what it likes over a row that is not deleted (`Overwritten`), and nobody else.
* Eight transactions in `request_serial` take two requests from draft to approval and one of them back
  and to a second approval. Two Domain rows let a name get a second one.
* In `request_overlap` five transactions are an approval and, after it, one that takes it back or
  approves the other request, while the domain is created at the registry.
* Four pages in `members` invite, add, cancel or remove and do so again; with two persons every page
  has one who acts and one it is about, and the actor may also be the person. The second portfolio is
  the other one that a rule of one portfolio needs. Two rows of invitations per person and domain let
  the second one appear that a lookup with `get()` cannot stand.
* In `name_servers` one domain has no name servers at first, the other has two. The names of the
  domains are alike, so that one host passes for both domains' own (`OwnMC`). Two tabs share a session
  and a third has another; one form, two pages and one fault are a change that a tab of the same
  session, another session, a failed command or a lost answer can cross. Two forms are posted in
  `ready_without_name_servers`; the theorems are for any bounds.
* Two tabs in `sign_in` overwrite each other's `state`, and three visits let one of them come back.
  The beginnings (`MCSignIn!Cases`) are a newcomer who is or was invited, a manager, and an address
  that has moved from one identity to another, before and after its first login, with a third
  identity to come. One change and one fault may come at every step.
* All greenlets of a worker are alike in `EppClient`; three of them show a waiter behind a waiter.
* TLC uses symmetry of sessions, tabs, requests and addresses in the runs without liveness.
  `RequestsEnd`, `CallsReturn`, `InvitationsAnswered` and `SignInEnds` are checked without it.

Deadlock checking is off in all runs but `epp`: when the bound on requests, pages, changes or visits
is used up and all have ended, the model stops.

### Fairness

* `EppClient`: weak fairness of a caller's own steps: each exchange ends in an answer or an error. The
  code sets no timeout on the socket (`client.py:74-81`), so this assumes that the registry answers or
  that the connection breaks; a registry that keeps a connection open and is silent makes the
  greenlets of that worker wait. Strong fairness of `Acquire`, as the semaphore of gevent wakes its
  waiters in order. Nothing is assumed of `Break` and `Restart`, so the connection may break at every
  attempt.
* `DomainLifecycle`: weak fairness of EPP steps (`CallsReturn` is the reason), commit and abort;
  strong fairness of `Save`, as PostgreSQL queues the waiters of a row lock. None for `Begin`
  and `Crash`.
* `Members`: weak fairness of each person's `Login`: everybody who was invited logs in sooner or later.
  None for pages. `InvitationsAnswered` then says that the pages and the retrieval leave nothing
  behind that a login cannot answer.
* `SignIn`: weak fairness of what a tab does next (`TabStep`): browsers follow redirects, callbacks end,
  and the provider, or a person who gives up, answers. Nothing forces a particular answer. None for
  visits, changes and faults.

## 4. Where code and words disagree

Four of these are runs that TLC ends with a counterexample.

* `first_ready_changes`: the help text of `first_ready` says the date "will never change"
  (`models/domain.py:1330`). A session keeps a `Domain` from before the domain became ready; the next
  page of this session takes it, finds it without a stamp, calls `ready()` and saves a new date.
* `ready_without_name_servers`: "This domain has name servers and is ready for use"
  (`models/domain.py:178`). Two managers who know the same name servers each remove some of them and
  keep two; the setter counts from the list it knew (`domain.py:822`), and the domain is ready with
  one name server or none. A change after a lost answer, or from a list that another tab of the
  session has put back, does the same.
* `approved_without_information`: a domain that was at the registry keeps its row and its
  `DomainInformation` when its request leaves approved; a second approval finds that record
  (`domain_information.py:365`) and the new domain gets none.
* `removed_manager_returns`: adding a person as manager reinstates an older cancelled invitation
  (`utility/email_invitations.py:69-71`) and creates the role directly. The page that removes the
  person says "Removed ... as a manager" and deletes only retrieved invitations; the next login
  retrieves the pending one.

The others were met while modelling; to see them, check the property named without the condition that
excludes the cause.

* An overview page that overlaps a deletion saves the row it loaded before (`domain.py:2298`) over the
  deleted one: the row says "dns needed" and the registry has no domain (`RegistryBacksRow` with
  `Overlap`).
* The comment at `domain.py:1271` takes a domain that is already gone for a deletion that has
  happened; the code raises the registry's error and the row stays as it is.
* `approve()` checks for a live domain of the name and creates one (`domain_request.py:1242`). Of two
  approvals that overlap one meets the constraint `unique_name_except_deleted`: the analyst gets an
  internal error in place of the message "Cannot approve. Requested domain is already in use."
* Two analysts who approve one request at the same time: the second reads the row again
  (`admin.py:3172`), finds it approved and saves its older object, without the `approved_domain`
  (`ApprovedHasDomain` with `Overlap`). A form that was checked for its version is saved over whatever
  was committed since.
* A creation at the registry that is rolled back after `CreateDomain` leaves the row in state `unknown`
  and without contacts, as before: a clean-up then removes it without telling the registry, and the
  name stays taken there (`abandoned` in `RegisteredHasRow`).
* A page with an old copy of a domain that meanwhile went on hold puts back "ready" or "on hold"
  (`Overwritten`); `OnHoldDoesNotResolve` excludes the second with `lifted`.
* "The name servers for this domain have been updated", also when a host asked for existed with
  another address: `_create_host` takes that for success and the address stays (`domain.py:479`).
* Two requests that fetch at the same time insert a `Host` row twice; `get_or_create` raises on every
  later fetch, the exception is swallowed and the page shows the rows. Nothing removes the second row.
* The page that removes managers refuses the last one (`views/domain.py:1460`). Two removals that
  overlap, and the pages of a portfolio, which do not count, take the last one all the same.
* `OrgKeepsAdmin` fails once a person is in two portfolios, as `PortfolioInvitation.retrieve`
  overwrites the roles of a membership that exists.
* Two tabs that both need a step-up can send each other round for ever: the step-up saves the session
  as it was, so that the flag set by the other tab is lost (`FlagLost` in `SignInEnds`). The test's "We
  only attempt to relogin once" (`djangooidc/tests/test_views.py:158`) holds as long as the session and
  its flag stay.
* A deactivated account is sent from login to page and back for ever: the backend does not look at
  `is_active`, the middleware does, and `BannedUser` is never raised.
* Two accounts come to share an address when an identity moves to one that another account still has;
  a login that has to find one of them, or has an invitation to retrieve, then fails every time
  (`Ambiguous`).
* The rule that who joined before the invitation was verified normally (`user.py:317-320`) never takes
  effect: its condition is false, or raises.
* A `login_required` answer is taken for the user's data, so that the next attempt asks for the higher
  level.

The passing runs check the properties where the cause is excluded: `RegistryBacksRow`,
`DeletedIsGone`, `DeletedIsFinal`, `OnHoldDoesNotResolve` and `StateMachineSpec` with requests one
after the other, and in the same way `ApprovedHasDomain`, `ActiveStaysApproved`,
`RestrictedIsFrozen` and the statuses of requests; those of `Members` on histories without overlap.
Old copies of sessions, old forms, lost answers, crashes and failed deletions are in play there.
Under overlap the check before a save is not repeated at the save, and nothing in the code prevents
that they fail. What does hold under overlap is checked with overlap: `ReadyHasFirstReady`,
`DeletedDateMatches`, `RequestsEnd`, `InfoHasRequest`, `RegisteredHasRow`, everything of
`EppClient`, `NameServers` and `SignIn`.

## 5. Abstract specifications

* `DomainStateMachine` is the FSM of `Domain.state` with `first_ready`, without sessions, locks
  or registry. `StateMachineSpec` (`state <- row.state, firstReady <- row.fr`, and `outdated` for a
  commit of a request that took an old copy) is checked in `lifecycle_serial`: a transition of the row
  is one of the machine's or several in one transaction, as its actions are stated on committed rows,
  or such a copy is written over a row that is not deleted. Proved in `DomainLifecycleSerialProofs`.
* `RegistryCalls` has only the waiting callers, the executions and the answers. `CallsSpec`
  (`busy <- {c : pc[c] # "idle"}`) is checked in `epp` and proved in `EppClientProofs`.
* `DomainRequestStatuses` is the FSM of `DomainRequest.status` with the wizard's end and deletion.
  `StatusMachineSpec` is checked in `request_serial` and proved in `DomainRequestSerialProofs` for
  transactions one after the other.

## 6. Proofs

All proofs are for any number of sessions, greenlets, requests, tabs, domains and transactions. They
rest on the assumptions on constants named in the modules (`LifecycleAssumption`, `EppAssumption`,
`RequestAssumption`): the name for "nobody" is no member of the set, bounds are natural numbers,
switches are Booleans, and the tables that give each domain its portfolio, each host its domain and
each tab its browser have values of the right kind (`MembersAssumption`, `NameServersAssumption`,
`SignInAssumption`). `NameServers` also assumes that there are finitely many tabs and at least one,
as the rows of a host are counted by them, and that a host below a domain is one of its own. Every
safety invariant, action property and refinement that a passing run checks is stated by a theorem;
what a theorem assumes beyond the module's assumptions (`~Overlap` and the like) is what the run of
that property has in its configuration, and section 4 tells what happens without it.

**DomainLifecycleProofs.** `TypeCorrect`, `WritersExclude` (`OneWriter`), `StampNeverMissing`
(`ReadyHasFirstReady`), `DateMatchesState` (`DeletedDateMatches`). None of the invariants is inductive
alone. `IInv` adds that every version of the object - row, memory, session, written row - is good
(`GoodCopies`: ready or on hold has a stamp, deleted has its date), and `StepsChecked`: a request that
has reached the command of a transition holds an object from which the transition is allowed. Without
the second a hold could turn an object without stamp into one on hold; without the first part for
sessions a stale copy could bring back a bad one. `OneWriter` needs that only the holder of the
lock has written.

**DomainLifecycleSerialProofs.** For requests that do not overlap (`~Overlap`). All theorems rest on
`Serial`: at most one request is under way, and whoever is not has written nothing.

* `SerialDeletedIsGone`, `SerialDeletedIsFinal`. `DeletionInv` says of
  each request under way (`Deletion`) that its object is "deleted" only while the registry has no
  domain, that this can differ from the row only between the answer to the last command and the
  commit, and that the steps of a deletion work on an object that agrees with the row. Copies kept in
  sessions are "deleted" only when the row is. No transition leads out of "deleted", and every page
  and button that begins with an older copy goes through a check of the row or a fetch.
* `SerialRegistryBacksRow`. `BackedInv`: the registry has the domain, or a deletion is recorded, under
  way or in doubt (`Known`) - or no version of the row, in the table, in a session or in memory, says
  anything but "unknown".
* `SerialStateMachine` (`StateMachineSpec`), with any number of sessions, lost answers and crashes.
  `Lawful` relates an object to the row it will replace: the transitions, composed in one
  transaction, and the stamp that stays. `MachineInv`: a request that took the row as it is holds a
  lawful object (`Fresh`) at every step, and still the row itself before its fetch or its command; one
  that took an old copy is a page, and was let in by a row that can be edited (`OldCopy`), so that
  what it overwrites is never a deleted row.
* `SerialOnHoldDoesNotResolve` (`OnHoldDoesNotResolve`), with the same. `HoldInv`: while the row says
  "on hold" the object at the registry is quiet (`Quieted`: it has no name servers, it is on hold, or
  `lifted`). `HoldKept` carries this through a request: a deletion that has removed the hosts works,
  with the hold lifted, on an object without name servers, and name servers are set only for domains
  that are not on hold.

**EppClientProofs.** `LockExcludes` (`ConnectionExclusive`), `AtMostOneConnection` (`OneConnection`),
`FailuresHaveCauses` (`FailureHasCause`), `ImplementsCalls` (`CallsSpec`), `TypeCorrect`. `IInv` adds
to the lock that the number of connections is that of the client's state (`ConnectionCounted`), that
one who connects has no connection (`ConnectsFresh`), how often a command may have been executed at
each step of `send` (`ExecutionsCounted`), and which steps imply a fault already seen (`FaultsKnown`):
a first error may be an old one, the second cannot. The refinement maps each step to a step of
`RegistryCalls` or a stutter; that nobody else has executions while one is at the registry comes from
the lock and `ExecutionsCounted`.

**DomainRequestProofs.** With overlapping transactions and creations at the registry: `TypeCorrect`,
`InformationKeepsRequest` (`InfoHasRequest`), `RegisteredNameHasRow` (`RegisteredHasRow`). `IInv` adds
`DecisionsHold`: what a transaction has decided stays something its commit can do - a removed domain
exists, a domain marked deleted has contacts, a created one belongs to a row that will be approved.
`HeldIsKept` is the reason of the last theorem: of a name that the registry has, either a creation has
yet to commit, or a live row has contacts, which no commit can remove, and nobody is about to mark it
deleted. A clean-up that removes the row of a creation under way is made up for by the `save()` that
inserts the row again; no other row can take the name then, as an approval would find that row, or
fail on the unique name.

**DomainRequestSerialProofs.** For transactions one after the other (`~Overlap`), with stale forms,
failures of the registry and any number of requests still in play: `SerialApprovedHasDomain`,
`SerialFrozen` (`RestrictedIsFrozen`), `SerialActiveStays` (`ActiveStaysApproved`) and the refinement
`SerialStatusMachine` (`StatusMachineSpec`). Invariants are added to `IInv`, each inductive with those
before it. `SerialInv`: at most one transaction is under way. `Links`: an approved request refers to a
Domain row that exists, and no two requests refer to the same one - without the second part a cleanup
could empty `approved_domain` of another approved request. `Fresh`: what a transaction found when it
was admitted (the version of the form, the requester's restriction, that the domain is not in use) is
still so when it commits. For the refinement, `MovesLawfully` says that the status in the object of a
transaction is reached from the committed one by a transition that the machine has, from the moment
it is decided to the commit. Section 4 tells why the assumption is needed.

**MembersProofs.** `TypeCorrect`, `RetrievedManages` (`RetrievedHasRole`), `AdminsKeepOne`
(`OrgKeepsAdmin`), `OnePortfolioKept` (`OnePortfolio`), `OneInvitationKept` (`OneInvitation`). The
inductive invariant is the type and, while nothing has overlapped, that each retrieved invitation
has its role; it rests on lemmas about what each page does to the tables. The others are action
properties: a page either leaves memberships alone, or gives one to a person without any, or changes
one that is not the only admin's (`Joins`, `Changes`, `JoinsAnother`). For invitations, an operation
only changes rows that are there (`NoneNew`), or creates one where it found none (`NoSecond`): the
reinstatement of a cancelled invitation in `SendDomainInvitation` and the `get_or_create` after it
look at the same rows.

**NameServersProofs.** `AddressesOfOthers` (`OthersKeepAddress`), `TypeCorrect` (`TypeOK`, with its
bound on rows), `ListsStayCurrent` (`ListsAreCurrent`), for any tabs, sessions, bounds and any relation
`Own`. The invariant `Inv` follows the addresses in lists from the registry through sessions, rows and
requests: hosts that are not the domain's own never have one in a list of that domain (`Foreign`), so
that a page has nothing to update.

`RowsCounted`: a host's rows and the requests that will still insert one (`Inserters`: they saw none)
are together at most as many as the tabs, which gives `TypeOK` its bound. It is shown over three kinds
of steps: a request begins, works, ends.

`CopiesFresh` is about every copy of a list that may still get into a session: the session's own, the
one that a tab at work on another domain has loaded and will save back, and the one in the cache of a
tab at work on this domain. All name what the registry has (`Fresh`), except between `UpdateDomain` and
the end of that request in its own session, and except for lists in `behind`. That a list leaves
`behind` only when the last copy is gone is what makes the exception sound, although tabs save
sessions that they loaded long before.

**SignInProofs.** `TypeCorrect`, `VerifiedOrKnownHolds` (`VerifiedOrKnown`). `IInv` says of each tab past
the check that its address is still that of its identity and of no other (`Distinct`), and that what
let it through is there, in the form of a role when another tab has retrieved the invitation
meanwhile (`Found`), or was taken away (`crossed`). That no two identities share an address is an
assumption on the provider.

What stays with TLC: the properties under fairness (`RequestsEnd`, `CallsReturn`, `InvitationsAnswered`,
`SignInEnds`), as liveness and ENABLED are outside what the proof system handles, and the four
properties that the code violates.

## 7. Running

`tlc -config <run>.cfg <module>`, with the module and configuration named in `PROJECT.json`; the
longest run takes about two minutes on two workers. `tlapm <module>Proofs.tla` checks the proofs.

## 8. Not modelled

* Availability and RDAP lookups, mail, S3: stateless use of other services.
* Templates, browser code, and the forms whose input no action takes: one page's input and its display.
* Permissions and middleware that guard pages which only show something. The others are in the guards
  of the operations.
* Reports and listings: queries. Reference data: rows without transitions.
* Management commands, fixtures, migrations, the move from the former registrar: run by hand, once.
  With `admin.py`'s list pages, the reports and the templates they are most of the repository's lines,
  and have no behaviour over time for a model to check.
* Public contacts and renewal, as far as they do not move the state of a domain.
* The mails and the single additional permissions of a member (`Members`); several addresses of a
  host (`NameServers`); the flag `multiple_portfolios`.
* DNS hosting: a prototype, see the plan.

## 9. Plan

1. More proofs: which facts about requests one after the other survive one overlapping page, as a
   weaker hypothesis than `~Overlap`; the lock of `EppClient` as a lemma about waiting callers that the
   liveness of `CallsReturn` rests on.
2. `DomainRequest` over `DomainLifecycle`: replace `MoveDomain` by the module itself on a small
   instance, to check that its moves are the ones that happen.
3. Contacts and renewal: the lazy creation of the contacts with its nested fetches, and the retry of
   `RenewDomain` with `RegistryCalls`.
4. DNS hosting: accounts, zones and records, with the vendor's partial failures
   (`services/dns_host_service.py`), once it is more than a prototype.
