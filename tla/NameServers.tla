----------------------------- MODULE NameServers -----------------------------
(***************************************************************************)
(* The name servers of the domains: the host objects and delegations at    *)
(* the registry, the rows of Host and HostIP that mirror them, the lists   *)
(* cached in the Domain objects of the sessions, and the page that changes *)
(* them one EPP command after the other.                                   *)
(*                                                                         *)
(* Each request comes from a browser tab.  It loads its whole session when *)
(* it begins and saves it whole when it ends, without any lock: of the     *)
(* tabs of a session, the last one wins, for the lists of all domains.     *)
(*                                                                         *)
(* The domains are editable (states "dns needed" and "ready"); all other   *)
(* states, and deletion, are in DomainLifecycle.  A request is one         *)
(* database transaction: what it writes is seen by others at its end.      *)
(***************************************************************************)
EXTENDS Integers, FiniteSets

CONSTANTS
  Session,     \* sessions of the managers and of the staff
  Tab,         \* browser tabs
  SessionOf,   \* the session of each tab
  Domain,
  Host,        \* names of name servers
  Address,     \* addresses of a name server; one is given at a time
  Parent,      \* the domain whose name a host's name ends with, or NoDomain
  Own,         \* the hosts that isSubdomain takes for hosts of a domain: it
               \* matches the beginning of the name, and any sign for a dot,
               \* so that ns1.city-gov.gov is one of city.gov as well
  NoDomain,
  Initially,   \* the name servers each domain has at first
  MaxSaves,    \* bound: forms that are posted
  MaxViews,    \* bound: pages that are opened
  MaxFaults    \* bound: commands that fail, or whose answer is lost

ASSUME NameServersAssumption ==
  /\ IsFiniteSet(Tab) /\ Tab # {}
  /\ SessionOf \in [Tab -> Session]
  /\ NoDomain \notin Domain
  /\ Parent \in [Host -> Domain \cup {NoDomain}]
  /\ Own \in [Domain -> SUBSET Host]
  /\ \A h \in Host : Parent[h] # NoDomain => h \in Own[Parent[h]]
  /\ Initially \in [Domain -> SUBSET Host]
  /\ \A d \in Domain : Initially[d] = {} \/ Cardinality(Initially[d]) \in 2..13
  /\ "out" \notin Address /\ "plain" \notin Address
  /\ MaxSaves \in Nat /\ MaxViews \in Nat /\ MaxFaults \in Nat

VARIABLES
  glue,      \* registry: the address of each host object, "plain" without, "out" if none
  delegated, \* registry: the hosts of each domain
  ready,     \* the domains whose row says "ready"; those of the others "dns needed"
  mirror,    \* the rows of Host: how many of a name, and the address in HostIP
  cache,     \* the session rows: the list in the session's copy of each domain
  request,   \* the request of each tab
  saves,     \* how many forms were posted
  views,     \* how many pages were opened
  faults,    \* how many commands failed for no reason of the registry's data
  behind     \* history: the lists a change has crossed or a failure has kept

vars == <<glue, delegated, ready, mirror, cache, request, saves, views, faults, behind>>

-----------------------------------------------------------------------------
(* Lists of name servers *)

List == [Host -> Address \cup {"plain", "out"}]
Names(l) == {h \in Host : l[h] # "out"}
NoList == [h \in Host |-> "none"]

\* What the form lets through: at least two, at most 13, none twice; an
\* address for the domain's own hosts and for no others.
Valid(d) ==
  {l \in List : /\ Cardinality(Names(l)) \in 2..13
                /\ \A h \in Names(l) : l[h] = "plain" <=> h \notin Own[d]}

\* InfoDomain and InfoHost, without the addresses of other domains' hosts.
ListOf(d) ==
  [h \in Host |-> IF h \notin delegated[d] THEN "out"
                  ELSE IF h \in Own[d] THEN glue[h] ELSE "plain"]

-----------------------------------------------------------------------------
(* The mirror *)

Rows == [Host -> [n : 0..Cardinality(Tab), ip : Address \cup {"plain", "out"}]]

NoRows == [h \in Host |-> [n |-> 0, ip |-> "out"]]
RowList(m) == [h \in Host |-> m[h].ip]

\* A mutant: inserts a row without looking for one.
Synchronized_Creates(m, seen, l, H) ==
  [h \in Host |->
     IF h \notin H THEN m[h]
     ELSE IF l[h] = "out" THEN [n |-> 0, ip |-> "out"]
     ELSE [n |-> m[h].n + 1, ip |-> l[h]]]

\* The rows `m` after the hosts `H` were brought in line with the list `l`
\* by a transaction that saw the rows `seen`: it deletes rows it saw and
\* inserts a row where it saw none.
Synchronized(m, seen, l, H) ==
  [h \in Host |->
     IF h \notin H THEN m[h]
     ELSE IF l[h] = "out"
       THEN IF m[h].n > seen[h].n THEN [m[h] EXCEPT !.n = @ - seen[h].n]
            ELSE [n |-> 0, ip |-> "out"]
     ELSE [n |-> IF seen[h].n = 0 THEN m[h].n + 1 ELSE m[h].n, ip |-> l[h]]]

-----------------------------------------------------------------------------
(* Requests *)

\* `loaded` is the session, `read` the list that was fetched, `seen` the rows
\* at that time, and `wrote` the hosts brought in line; `cached` is what the
\* object's cache has, `old` what the changes are relative to.
Request ==
  [domain : Domain, asked : List \cup {NoList}, loaded : [Domain -> List \cup {NoList}],
   read : List \cup {NoList}, seen : Rows, wrote : SUBSET Host,
   cached : List \cup {NoList}, old : List \cup {NoList},
   stage : {"shown", "hosts", "clean up", "failed"}, left : SUBSET Host]

Idle == [stage |-> "idle"]

TypeOK ==
  /\ glue \in List
  /\ delegated \in [Domain -> SUBSET Host]
  /\ ready \subseteq Domain
  /\ mirror \in [Domain -> Rows]
  /\ cache \in [Session -> [Domain -> List \cup {NoList}]]
  /\ request \in [Tab -> Request \cup {Idle}]
  /\ saves \in 0..MaxSaves
  /\ views \in 0..MaxViews
  /\ faults \in 0..MaxFaults
  /\ behind \subseteq Session \X Domain

\* The domains are as changes that are over have left them.  The rows of
\* each were fetched since, or never.
Init ==
  /\ glue \in {l \in List : /\ Names(l) = UNION {Initially[d] : d \in Domain}
                            /\ \A h \in Names(l) :
                                 /\ l[h] = "plain" => Parent[h] = NoDomain
                                 /\ l[h] # "plain" => \E d \in Domain : h \in Own[d]}
  /\ delegated = Initially
  /\ ready = {d \in Domain : Initially[d] # {}}
  /\ \E D \in SUBSET Domain :
       mirror = [d \in Domain |->
                   IF d \in D THEN Synchronized(NoRows, NoRows, ListOf(d), Host) ELSE NoRows]
  /\ cache = [s \in Session |-> [d \in Domain |-> NoList]]
  /\ request = [a \in Tab |-> Idle]
  /\ saves = 0 /\ views = 0 /\ faults = 0
  /\ behind = {}

Busy(a) == request[a] # Idle
WorksOn(a, d) == Busy(a) /\ request[a].domain = d

\* A command may fail, or its answer be lost.
Fault == faults < MaxFaults /\ faults' = faults + 1

\* Has a tab of the session, other than `a`, got something that it may save
\* as the domain's list?
OtherTabHolds(a, s, d) ==
  \E b \in Tab \ {a} : /\ SessionOf[b] = s
                       /\ Busy(b)
                       /\ (request[b].domain = d \/ request[b].loaded[d] # NoList)

\* getNameserverChanges
Changed(r) == {h \in Names(r.old) \cap Names(r.asked) : r.old[h] # r.asked[h]}
Added(r) == Names(r.asked) \ Names(r.old)
Removed(r) == Names(r.old) \ Names(r.asked)
Changes(r) == Added(r) \cup Removed(r) # {}

\* The list is known: the page is shown, or the setter begins.
Known(r, l) ==
  LET s == [r EXCEPT !.old = l]
  IN IF r.asked = NoList THEN [s EXCEPT !.stage = "shown"]
     ELSE [s EXCEPT !.stage = "hosts", !.left = Changed(s) \cup Added(s)]

-----------------------------------------------------------------------------
(* Reading the list *)

NewRequest(a, d, asked) ==
  [domain |-> d, asked |-> asked, loaded |-> cache[SessionOf[a]],
   read |-> NoList, seen |-> NoRows, wrote |-> {},
   cached |-> NoList, old |-> NoList, stage |-> "shown", left |-> {}]

\* A request begins with loading the session, and the list is known as the
\* first thing it does.
Begin(a, r, l) ==
  /\ ~Busy(a)
  /\ request' = [request EXCEPT ![a] = Known(r, l)]
  /\ UNCHANGED <<glue, delegated, ready, mirror, cache, behind>>

\* The session's copy has a list.
Cached(a, d, asked) ==
  LET l == cache[SessionOf[a]][d]
  IN /\ l # NoList
     /\ Begin(a, [NewRequest(a, d, asked) EXCEPT !.cached = l], l)
     /\ UNCHANGED faults

\* It is fetched from the registry and mirrored.
Fetched(a, d, asked) ==
  LET l == ListOf(d)
      m == mirror[d]
      r == [NewRequest(a, d, asked) EXCEPT !.read = l, !.seen = m, !.wrote = Host, !.cached = l]
  IN /\ \A h \in Names(l) : m[h].n < 2
     /\ Begin(a, r, l)
     /\ UNCHANGED faults

\* A host has two rows: get_or_create raises when it comes to one of these,
\* after deletions and some of the others; the list is read from the rows.
FetchedDuplicates(a, d, asked) ==
  LET l == ListOf(d)
      m == mirror[d]
      twice == {h \in Names(l) : m[h].n > 1}
  IN /\ twice # {}
     /\ \E H \in SUBSET (Names(l) \ twice) :
          LET wrote == H \cup (Host \ Names(l))
              r == [NewRequest(a, d, asked) EXCEPT !.read = l, !.seen = m, !.wrote = wrote]
          IN Begin(a, r, RowList(Synchronized(m, m, l, wrote)))
     /\ UNCHANGED faults

\* The registry was not reached, or refused: the rows are taken.
NotFetched(a, d, asked) ==
  /\ Fault
  /\ Begin(a, NewRequest(a, d, asked), RowList(mirror[d]))

FromRegistry(a, d, asked) ==
  \/ Fetched(a, d, asked)
  \/ FetchedDuplicates(a, d, asked)
  \/ NotFetched(a, d, asked)

WithList(a, d, asked) ==
  \/ Cached(a, d, asked)
  \/ cache[SessionOf[a]][d] = NoList /\ FromRegistry(a, d, asked)

\* A page is opened, with the list of the session if there is one.
View(a, d) ==
  /\ WithList(a, d, NoList)
  /\ views < MaxViews
  /\ views' = views + 1
  /\ UNCHANGED saves

\* The overview takes the domain from the database, without a list.
Overview(a, d) ==
  /\ FromRegistry(a, d, NoList)
  /\ views < MaxViews
  /\ views' = views + 1
  /\ UNCHANGED saves

\* The form is posted.
Save(a, d, asked) ==
  /\ WithList(a, d, asked)
  /\ saves < MaxSaves
  /\ saves' = saves + 1
  /\ UNCHANGED views

\* Another form of the domain is posted: every setter of the object ends
\* with _invalidate_cache.
OtherForm(a, d) ==
  /\ Begin(a, NewRequest(a, d, NoList), NoList)
  /\ views < MaxViews
  /\ views' = views + 1
  /\ UNCHANGED <<saves, faults>>

-----------------------------------------------------------------------------
(* Changing the list *)

Fail(a) == request' = [request EXCEPT ![a].stage = "failed", ![a].left = {}]

\* The host is dealt with; `left` are those that still are to be.
Done(a, h) == request' = [request EXCEPT ![a].left = @ \ {h}]

\* A command that makes `glue` into `g`: answered, its answer lost, or not
\* executed.
HostCommand(a, g, h) ==
  /\ \/ glue' = g /\ Done(a, h) /\ UNCHANGED faults
     \/ glue' = g /\ Fault /\ Fail(a)
     \/ UNCHANGED glue /\ Fault /\ Fail(a)
  /\ UNCHANGED <<delegated, ready, mirror, cache, saves, views, behind>>

Refused(a) ==
  /\ Fail(a)
  /\ UNCHANGED <<glue, delegated, ready, mirror, cache, saves, views, faults, behind>>

\* UpdateHost removes the address of the list and adds the one asked for;
\* refused when the host has another.
UpdateHost(a, h) ==
  LET r == request[a]
  IN /\ r.stage = "hosts" /\ h \in r.left \cap Names(r.old)
     /\ \/ glue[h] = r.old[h] /\ HostCommand(a, [glue EXCEPT ![h] = r.asked[h]], h)
        \/ glue[h] # r.old[h] /\ Refused(a)

\* A mutant: updates a host that exists.
CreateHost_Updates(a, h) ==
  LET r == request[a]
  IN /\ r.stage = "hosts" /\ h \in r.left /\ r.left \cap Names(r.old) = {}
     /\ HostCommand(a, [glue EXCEPT ![h] = r.asked[h]], h)

\* CreateHost, when all updates are done. That the host exists is no error,
\* and then its address stays. The registry wants an address for a host
\* below one of its own domains, and may refuse one for others.
CreateHost(a, h) ==
  LET r == request[a]
  IN /\ r.stage = "hosts" /\ h \in r.left /\ r.left \cap Names(r.old) = {}
     /\ \/ glue[h] # "out" /\ HostCommand(a, glue, h)
        \/ /\ glue[h] = "out" /\ (r.asked[h] = "plain" => Parent[h] = NoDomain)
           /\ HostCommand(a, [glue EXCEPT ![h] = r.asked[h]], h)
        \/ glue[h] = "out" /\ (r.asked[h] = "plain" <=> Parent[h] # NoDomain) /\ Refused(a)

CleanUp(r) == [r EXCEPT !.stage = "clean up", !.left = Removed(r)]

\* The sessions that may keep or save an old list of the domain once tab `a`
\* has changed it; its own as well when the object is not told (`kept`).
Crossed(a, d, kept) ==
  {s \in Session : \/ OtherTabHolds(a, s, d)
                   \/ cache[s][d] # NoList /\ (s # SessionOf[a] \/ kept)
                   \/ s = SessionOf[a] /\ kept /\ request[a].cached # NoList}

\* UpdateDomain with all additions and removals, or nothing to do; refused
\* as a whole when a host is there already, or not there, or no object.
UpdateDomain(a) ==
  LET r == request[a]
      d == r.domain
      fits == /\ Added(r) \cap delegated[d] = {}
              /\ Removed(r) \subseteq delegated[d]
              /\ \A h \in Added(r) : glue[h] # "out"
      Updated(kept) ==
        /\ delegated' = [delegated EXCEPT ![d] = (@ \cup Added(r)) \ Removed(r)]
        /\ behind' = behind \cup (Crossed(a, d, kept) \X {d})
      success == request' = [request EXCEPT ![a] = CleanUp(r)]
  IN /\ r.stage = "hosts" /\ r.left = {}
     /\ \/ ~Changes(r) /\ success /\ UNCHANGED <<delegated, faults, behind>>
        \/ Changes(r) /\ fits /\ Updated(FALSE) /\ success /\ UNCHANGED faults
        \/ Changes(r) /\ fits /\ Updated(TRUE) /\ Fault /\ Fail(a)
        \/ Changes(r) /\ fits /\ Fault /\ Fail(a) /\ UNCHANGED <<delegated, behind>>
        \/ Changes(r) /\ ~fits /\ Fail(a) /\ UNCHANGED <<delegated, faults, behind>>
     /\ UNCHANGED <<glue, ready, mirror, cache, saves, views>>

\* DeleteHost for a host no longer needed. The first error, such as that
\* another domain uses the host, ends the loop; it is no error of the page.
DeleteHost(a, h) ==
  LET r == request[a]
      free == glue[h] # "out" /\ \A d \in Domain : h \notin delegated[d]
      gone == glue' = [glue EXCEPT ![h] = "out"]
      stop == request' = [request EXCEPT ![a].left = {}]
  IN /\ r.stage = "clean up" /\ h \in r.left
     /\ \/ free /\ gone /\ Done(a, h) /\ UNCHANGED faults
        \/ free /\ gone /\ Fault /\ stop
        \/ free /\ Fault /\ stop /\ UNCHANGED glue
        \/ ~free /\ stop /\ UNCHANGED <<glue, faults>>
     /\ UNCHANGED <<delegated, ready, mirror, cache, saves, views, behind>>

-----------------------------------------------------------------------------
(* The end of a request *)

\* The rows that were written are committed.
Mirrored(r) == Synchronized(mirror[r.domain], r.seen, r.read, r.wrote)

\* The session is saved as it was loaded, but for the domain's list `l`. A
\* list is not old any more when there is none left; it may become old when
\* another tab has begun with one since the change.
Closed(a, l, changed) ==
  LET r == request[a]
      s == SessionOf[a]
      saved == [r.loaded EXCEPT ![r.domain] = l]
      none == {d \in Domain : saved[d] = NoList /\ ~OtherTabHolds(a, s, d)}
      old == IF changed /\ OtherTabHolds(a, s, r.domain) THEN {r.domain} ELSE {}
  IN /\ cache' = [cache EXCEPT ![s] = saved]
     /\ mirror' = [mirror EXCEPT ![r.domain] = Mirrored(r)]
     /\ request' = [request EXCEPT ![a] = Idle]
     /\ behind' = (behind \ ({s} \X none)) \cup ({s} \X old)
     /\ UNCHANGED <<glue, delegated, saves, views, faults>>

\* A mutant: the cache is not emptied.
Saved_KeepsCache(a) ==
  LET r == request[a]
  IN /\ r.stage = "clean up" /\ r.left = {}
     /\ ready' = ready \cup {r.domain}
     /\ Closed(a, r.cached, Changes(r))

\* The setter returns: the state follows the number of name servers, and
\* the cache is emptied.
Saved(a) ==
  LET r == request[a]
      total == Cardinality(Names(r.old)) - Cardinality(Removed(r)) + Cardinality(Added(r))
  IN /\ r.stage = "clean up" /\ r.left = {}
     /\ ready' = IF total < 2 THEN ready \ {r.domain} ELSE ready \cup {r.domain}
     /\ Closed(a, NoList, Changes(r))

\* Something went wrong, or the list was only shown: the object goes into
\* the session with the cache it has.
Shown(a) ==
  /\ request[a].stage \in {"failed", "shown"}
  /\ Closed(a, request[a].cached, FALSE)
  /\ UNCHANGED ready

-----------------------------------------------------------------------------
Next ==
  \E a \in Tab :
    \/ \E d \in Domain : View(a, d) \/ Overview(a, d) \/ OtherForm(a, d)
    \/ \E d \in Domain : \E asked \in Valid(d) : Save(a, d, asked)
    \/ \E h \in Host : UpdateHost(a, h) \/ CreateHost(a, h) \/ DeleteHost(a, h)
    \/ UpdateDomain(a)
    \/ Saved(a) \/ Shown(a)

Spec == Init /\ [][Next]_vars

-----------------------------------------------------------------------------
(* Properties *)

\* A domain that is ready, and that no page works on, has at least two name
\* servers at the registry: the setter counts what it was asked for, relative to a list that was read
\* before, and nobody asks the registry afterwards.
ReadyResolves ==
  \A d \in ready :
    (\A a \in Tab : ~WorksOn(a, d)) => Cardinality(delegated[d]) >= 2

\* A list that a session keeps names the hosts that the registry has: no
\* change leaves an old one behind, although all tabs of the session save
\* it whole. But for a list that another session or tab had when it was
\* changed, or that a lost answer has kept, until it is dropped.
ListsAreCurrent ==
  \A s \in Session, d \in Domain :
    (/\ cache[s][d] # NoList
     /\ <<s, d>> \notin behind
     /\ \A a \in Tab : SessionOf[a] = s => ~WorksOn(a, d))
      => Names(cache[s][d]) = delegated[d]

\* The address of a host in use is changed only by a page of a domain whose
\* name passes for its own, not by those of others that delegate to it.
OthersKeepAddress ==
  [][\A h \in Host :
       glue'[h] # glue[h] /\ (\E d \in Domain : h \in delegated[d])
         => \E a \in Tab : Busy(a) /\ h \in Own[request[a].domain]]_vars

=============================================================================
