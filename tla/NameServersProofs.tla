-------------------------- MODULE NameServersProofs --------------------------
(***************************************************************************)
(* For any numbers of sessions, tabs, domains, hosts, addresses, forms and *)
(* faults, and whatever hosts a domain takes for its own: the types hold,  *)
(* with the bound on rows; the lists kept in sessions are current unless a *)
(* change has crossed them; and the address of a host in use is changed    *)
(* only by pages of domains that take it for their own.                    *)
(*                                                                         *)
(* The first invariant follows the lists from the registry and the rows    *)
(* through sessions and requests: nowhere do they get the address of a     *)
(* host that is not the domain's own.  The second one counts rows, those   *)
(* still to be inserted included.  The third one is about every copy of a  *)
(* list that may still get into a session: what the session has, what a    *)
(* tab on another domain has loaded, and what a tab on the domain itself   *)
(* has in its cache.                                                       *)
(***************************************************************************)
EXTENDS NameServers, FiniteSetTheorems, TLAPS

AnyList == List \cup {NoList}

\* The types the proofs need; the numbers of rows are not bounded.
AnyRows == [Host -> [n : Int, ip : Address \cup {"plain", "out"}]]

AnyRequest ==
  [domain : Domain, asked : AnyList, loaded : [Domain -> AnyList],
   read : AnyList, seen : AnyRows, wrote : SUBSET Host, cached : AnyList, old : AnyList,
   stage : {"shown", "hosts", "clean up", "failed"}, left : SUBSET Host]

Types ==
  /\ glue \in List
  /\ delegated \in [Domain -> SUBSET Host]
  /\ ready \subseteq Domain
  /\ mirror \in [Domain -> AnyRows]
  /\ cache \in [Session -> [Domain -> AnyList]]
  /\ request \in [Tab -> AnyRequest \cup {Idle}]

\* Name servers of domains are objects of the registry.
Objects == \A d \in Domain : \A h \in delegated[d] : glue[h] # "out"

\* A list of `d` has no address for hosts that are not its own.
Foreign(d, l) == \A h \in Host \ Own[d] : l[h] \in {"plain", "out"}

\* What the fields of a request say.
Sensible(r) ==
  /\ r.stage \in {"hosts", "clean up"} => r.asked \in Valid(r.domain)
  /\ r.stage = "hosts" => /\ Foreign(r.domain, r.old) /\ r.old \in List
                          /\ r.left \subseteq Changed(r) \cup Added(r)
  /\ r.cached # NoList => Foreign(r.domain, r.cached)
  /\ \A d \in Domain : r.loaded[d] # NoList => Foreign(d, r.loaded[d])
  /\ \A h \in r.wrote \ Own[r.domain] : r.read[h] \in {"plain", "out"}
  /\ \A h \in r.wrote : r.read[h] \in Address \cup {"plain", "out"}

Requests == \A a \in Tab : Busy(a) => Sensible(request[a])

Caches ==
  \A s \in Session, d \in Domain : cache[s][d] # NoList => Foreign(d, cache[s][d])

Mirrors == \A d \in Domain : Foreign(d, RowList(mirror[d]))

\* The inductive invariant.
Inv ==
  /\ Types
  /\ Objects
  /\ Requests
  /\ Caches
  /\ Mirrors

-----------------------------------------------------------------------------
(* Lists *)

LEMMA BusyType ==
  ASSUME Types, NEW a \in Tab
  PROVE  /\ Busy(a) => request[a] \in AnyRequest
         /\ request[a].stage # "idle" => request[a] \in AnyRequest /\ Busy(a)
         /\ Busy(a) => request[a].stage # "idle"
<1>1. request[a] \in AnyRequest \cup {Idle}
  BY DEF Types
<1>2. Idle.stage = "idle"
  BY DEF Idle
<1>3. ASSUME request[a] \in AnyRequest
      PROVE  request[a].stage \in {"shown", "hosts", "clean up", "failed"}
  BY <1>3 DEF AnyRequest
<1> QED
  BY <1>1, <1>2, <1>3 DEF Busy

LEMMA ListOfType ==
  ASSUME Types, Objects, NEW d \in Domain
  PROVE  ListOf(d) \in List /\ Names(ListOf(d)) = delegated[d] /\ Foreign(d, ListOf(d))
<1>1. delegated[d] \subseteq Host
  BY DEF Types
<1>2. \A h \in delegated[d] : glue[h] \in Address \cup {"plain"}
  BY <1>1 DEF Types, Objects, List
<1>3. ListOf(d) \in List
  BY <1>1, <1>2 DEF ListOf, List
<1>4. Names(ListOf(d)) = delegated[d]
  BY <1>1, <1>2, Zenon DEF ListOf, Names, Objects
<1>5. Foreign(d, ListOf(d))
  BY DEF ListOf, Foreign
<1> QED
  BY <1>3, <1>4, <1>5

LEMMA RowListType ==
  ASSUME NEW m \in AnyRows
  PROVE  RowList(m) \in List
  BY DEF RowList, AnyRows, List

LEMMA SynchronizedType ==
  ASSUME NEW m \in AnyRows, NEW seen \in AnyRows, NEW l \in AnyList,
         NEW H \in SUBSET Host, NEW d \in Domain,
         Foreign(d, RowList(m)), \A h \in H \ Own[d] : l[h] \in {"plain", "out"},
         \A h \in H : l[h] \in Address \cup {"plain", "out"}
  PROVE  /\ Synchronized(m, seen, l, H) \in AnyRows
         /\ Foreign(d, RowList(Synchronized(m, seen, l, H)))
<1> DEFINE new == Synchronized(m, seen, l, H)
<1>1. ASSUME NEW h \in Host
      PROVE  /\ new[h] \in [n : Int, ip : Address \cup {"plain", "out"}]
             /\ h \notin Own[d] => new[h].ip \in {"plain", "out"}
  <2>1. m[h] \in [n : Int, ip : Address \cup {"plain", "out"}] /\ seen[h].n \in Int
    BY DEF AnyRows
  <2>2. h \notin Own[d] => m[h].ip \in {"plain", "out"}
    BY DEF Foreign, RowList
  <2>3. CASE h \notin H
    BY <2>1, <2>2, <2>3 DEF Synchronized
  <2>4. CASE h \in H /\ l[h] = "out" /\ m[h].n > seen[h].n
    <3>1. new[h] = [m[h] EXCEPT !.n = @ - seen[h].n]
      BY <2>4 DEF Synchronized
    <3> QED
      BY <2>1, <2>2, <3>1
  <2>5. CASE h \in H /\ l[h] = "out" /\ ~(m[h].n > seen[h].n)
    BY <2>5 DEF Synchronized
  <2>6. CASE h \in H /\ l[h] # "out"
    <3>1. new[h] = [n |-> IF seen[h].n = 0 THEN m[h].n + 1 ELSE m[h].n, ip |-> l[h]]
      BY <2>6 DEF Synchronized
    <3> QED
      BY <2>1, <2>6, <3>1
  <2> QED
    BY <2>3, <2>4, <2>5, <2>6
<1>2. new = [h \in Host |-> new[h]]
  BY DEF Synchronized
<1> QED
  BY <1>1, <1>2 DEF AnyRows, Foreign, RowList

-----------------------------------------------------------------------------
(* The first invariant *)

LEMMA InitInv ==
  ASSUME Init
  PROVE  Inv
<1> USE NameServersAssumption
<1>1. glue \in List /\ delegated = Initially /\ delegated \in [Domain -> SUBSET Host]
  BY DEF Init
<1>2. Objects
  <2> SUFFICES ASSUME NEW d \in Domain, NEW h \in delegated[d]
               PROVE  glue[h] # "out"
    BY DEF Objects
  <2>1. h \in UNION {Initially[e] : e \in Domain}
    BY <1>1
  <2> QED
    BY <2>1 DEF Init, Names
<1>3. ASSUME NEW d \in Domain
      PROVE  \A h \in Host : /\ ListOf(d)[h] \in Address \cup {"plain", "out"}
                             /\ h \notin Own[d] => ListOf(d)[h] \in {"plain", "out"}
  BY <1>1 DEF ListOf, List
<1>4. PICK D \in SUBSET Domain :
        mirror = [d \in Domain |->
                    IF d \in D THEN Synchronized(NoRows, NoRows, ListOf(d), Host) ELSE NoRows]
  BY DEF Init
<1>5. NoRows \in AnyRows /\ \A d \in Domain : Foreign(d, RowList(NoRows))
  BY DEF NoRows, AnyRows, Foreign, RowList
<1>6. ASSUME NEW d \in Domain
      PROVE  /\ Synchronized(NoRows, NoRows, ListOf(d), Host) \in AnyRows
             /\ Foreign(d, RowList(Synchronized(NoRows, NoRows, ListOf(d), Host)))
  <2>1. ListOf(d) \in AnyList
    BY <1>3 DEF ListOf, List, AnyList
  <2> QED
    BY <1>3, <1>5, <2>1, SynchronizedType
<1>7. mirror \in [Domain -> AnyRows] /\ Mirrors
  BY <1>4, <1>5, <1>6 DEF Mirrors
<1>8. /\ cache = [s \in Session |-> [d \in Domain |-> NoList]]
      /\ request = [a \in Tab |-> Idle]
      /\ ready = {d \in Domain : Initially[d] # {}}
  BY DEF Init
<1>9. Types
  BY <1>1, <1>7, <1>8 DEF Types, AnyList
<1>10. Requests /\ Caches
  BY <1>8 DEF Requests, Caches, Busy
<1> QED
  BY <1>2, <1>7, <1>9, <1>10 DEF Inv

\* A step that changes only what a request says, and the registry.
LEMMA RequestStep ==
  ASSUME Inv, NEW a \in Tab, NEW r \in AnyRequest,
         request' = [request EXCEPT ![a] = r], Sensible(r),
         glue' \in List, delegated' \in [Domain -> SUBSET Host],
         \A d \in Domain : \A h \in delegated'[d] : glue'[h] # "out",
         UNCHANGED <<ready, mirror, cache>>
  PROVE  Inv'
<1>1. request \in [Tab -> AnyRequest \cup {Idle}]
  BY DEF Inv, Types
<1>2. Types' /\ Objects'
  BY <1>1 DEF Inv, Types, Objects
<1>3. Mirrors' /\ Caches'
  BY DEF Inv, Mirrors, Caches, Foreign
<1>4. ASSUME NEW b \in Tab, request'[b] # Idle PROVE Sensible(request'[b])
  <2>1. CASE b = a
    BY <1>1, <2>1
  <2>2. CASE b # a
    BY <1>1, <1>4, <2>2 DEF Inv, Requests, Busy
  <2> QED
    BY <2>1, <2>2
<1>5. Requests'
  BY <1>4 DEF Requests, Sensible, Busy
<1> QED
  BY <1>2, <1>3, <1>5 DEF Inv

LEMMA KnownFields ==
  ASSUME NEW r \in AnyRequest, NEW l \in List
  PROVE  LET k == Known(r, l)
         IN /\ k \in AnyRequest
            /\ k.domain = r.domain /\ k.asked = r.asked /\ k.loaded = r.loaded
            /\ k.cached = r.cached /\ k.read = r.read /\ k.seen = r.seen
            /\ k.wrote = r.wrote /\ k.old = l
            /\ k.stage \in {"shown", "hosts"}
            /\ k.stage = "hosts" => r.asked # NoList /\ k.left = Changed(k) \cup Added(k)
<1> DEFINE s == [r EXCEPT !.old = l]
           k == Known(r, l)
<1>1. s \in AnyRequest
  BY DEF AnyRequest, AnyList
<1>2. Changed(s) \cup Added(s) \in SUBSET Host
  BY DEF Changed, Added, Names
<1>3. CASE r.asked = NoList
  <2>1. k = [s EXCEPT !.stage = "shown"]
    BY <1>3 DEF Known
  <2> QED
    BY <1>1, <2>1 DEF AnyRequest
<1>4. CASE r.asked # NoList
  <2>1. k = [s EXCEPT !.stage = "hosts", !.left = Changed(s) \cup Added(s)]
    BY <1>4 DEF Known
  <2>2. /\ k \in AnyRequest
        /\ k.domain = r.domain /\ k.asked = r.asked /\ k.loaded = r.loaded
        /\ k.cached = r.cached /\ k.read = r.read /\ k.seen = r.seen
        /\ k.wrote = r.wrote /\ k.old = l
        /\ k.stage = "hosts" /\ k.left = Changed(s) \cup Added(s)
    <3> HIDE DEF k
    <3> QED
      BY <1>1, <1>2, <2>1 DEF AnyRequest
  <2>3. s.old = l /\ s.asked = r.asked
    BY DEF AnyRequest
  <2>4. Changed(s) = Changed(k) /\ Added(s) = Added(k)
    BY <2>2, <2>3 DEF Changed, Added
  <2> QED
    BY <1>4, <2>2, <2>4
<1> QED
  BY <1>3, <1>4

-----------------------------------------------------------------------------
(* Three kinds of steps *)

\* A request begins: with rows it has seen, or without.
Begins(a, d, r) ==
  /\ ~Busy(a) /\ r \in AnyRequest /\ r.domain = d /\ r.stage \in {"shown", "hosts"}
  /\ Sensible(r)
  /\ request' = [request EXCEPT ![a] = r]
  /\ UNCHANGED <<glue, delegated, ready, mirror, cache, behind>>
  /\ (r.wrote = {} /\ r.seen = NoRows) \/ r.seen = mirror[d]
  /\ r.loaded = cache[SessionOf[a]]
  /\ r.cached # NoList => r.cached = cache[SessionOf[a]][d] \/ Names(r.cached) = delegated[d]

Changing(r) == r.stage = "clean up" /\ Changes(r)

\* A request goes on: what the registry has for its domain may change.
Works(a, r) ==
  /\ Busy(a) /\ r \in AnyRequest
  /\ LET q == request[a]
         d == q.domain
     IN /\ r.domain = d /\ r.loaded = q.loaded /\ r.cached = q.cached
        /\ r.read = q.read /\ r.seen = q.seen /\ r.wrote = q.wrote
        /\ \/ UNCHANGED <<delegated, behind>> /\ (Changing(r) <=> Changing(q))
           \/ /\ \A e \in Domain \ {d} : delegated'[e] = delegated[e]
              /\ \E kept \in BOOLEAN :
                   /\ behind' = behind \cup (Crossed(a, d, kept) \X {d})
                   /\ Changing(r) \/ kept
                   /\ ~Changing(q)
  /\ request' = [request EXCEPT ![a] = r]
  /\ UNCHANGED <<mirror, cache>>

\* A request ends: the session has the list `l`, the rows are committed.
Ends(a, l) ==
  /\ Busy(a)
  /\ \/ l = NoList /\ Closed(a, l, Changing(request[a]))
     \/ l = request[a].cached /\ ~Changing(request[a]) /\ Closed(a, l, FALSE)

LEMMA BeginStep ==
  ASSUME Inv, NEW a \in Tab, NEW d \in Domain, NEW r \in AnyRequest, NEW l \in List,
         r.domain = d, r.asked \in Valid(d) \cup {NoList},
         r.loaded = cache[SessionOf[a]],
         r.cached # NoList => Foreign(d, r.cached),
         r.cached # NoList => r.cached = cache[SessionOf[a]][d] \/ Names(r.cached) = delegated[d],
         \A h \in r.wrote \ Own[d] : r.read[h] \in {"plain", "out"},
         \A h \in r.wrote : r.read[h] \in Address \cup {"plain", "out"},
         (r.wrote = {} /\ r.seen = NoRows) \/ r.seen = mirror[d],
         Foreign(d, l), Begin(a, r, l)
  PROVE  \E k : Begins(a, d, k)
<1> DEFINE k == Known(r, l)
<1>1. /\ k \in AnyRequest
      /\ k.domain = d /\ k.asked = r.asked /\ k.loaded = r.loaded /\ k.cached = r.cached
      /\ k.read = r.read /\ k.seen = r.seen /\ k.wrote = r.wrote /\ k.old = l
      /\ k.stage \in {"shown", "hosts"}
      /\ k.stage = "hosts" => r.asked # NoList /\ k.left = Changed(k) \cup Added(k)
  BY KnownFields
<1>2. /\ request' = [request EXCEPT ![a] = k] /\ ~Busy(a)
      /\ UNCHANGED <<glue, delegated, ready, mirror, cache, behind>>
  BY DEF Begin
<1> HIDE DEF k
<1>3. \A e \in Domain : r.loaded[e] # NoList => Foreign(e, r.loaded[e])
  BY NameServersAssumption DEF Inv, Caches
<1>4. Sensible(k)
  BY <1>1, <1>3 DEF Sensible
<1> QED
  BY <1>1, <1>2, <1>4 DEF Begins

LEMMA NewRequestFields ==
  ASSUME Inv, NEW a \in Tab, NEW d \in Domain, NEW asked \in Valid(d) \cup {NoList}
  PROVE  LET q == NewRequest(a, d, asked)
         IN /\ q \in AnyRequest /\ q.domain = d /\ q.asked = asked
            /\ q.loaded = cache[SessionOf[a]] /\ q.cached = NoList
            /\ q.wrote = {} /\ q.seen = NoRows
<1>1. asked \in AnyList /\ NoList \in AnyList
  BY DEF AnyList, Valid
<1>2. NoRows \in AnyRows
  BY DEF NoRows, AnyRows
<1>3. cache[SessionOf[a]] \in [Domain -> AnyList]
  BY NameServersAssumption DEF Inv, Types
<1> QED
  BY <1>1, <1>2, <1>3 DEF NewRequest, AnyRequest

LEMMA CachedBegins ==
  ASSUME Inv, NEW a \in Tab, NEW d \in Domain, NEW asked \in Valid(d) \cup {NoList},
         Cached(a, d, asked)
  PROVE  \E k : Begins(a, d, k)
<1> DEFINE q == NewRequest(a, d, asked)
           l == cache[SessionOf[a]][d]
           r == [q EXCEPT !.cached = l]
<1>1. l # NoList /\ Begin(a, r, l)
  BY DEF Cached
<1>2. SessionOf[a] \in Session
  BY NameServersAssumption
<1>3. l \in List /\ Foreign(d, l)
  BY <1>1, <1>2 DEF Inv, Types, Caches, AnyList
<1>4. /\ q \in AnyRequest /\ q.domain = d /\ q.asked = asked
      /\ q.loaded = cache[SessionOf[a]] /\ q.wrote = {} /\ q.seen = NoRows
  BY NewRequestFields
<1> HIDE DEF q
<1>5. /\ r \in AnyRequest /\ r.domain = d /\ r.asked = asked /\ r.cached = l
      /\ r.loaded = cache[SessionOf[a]] /\ r.wrote = {} /\ r.seen = NoRows
  BY <1>3, <1>4 DEF AnyRequest, AnyList
<1> HIDE DEF r
<1> QED
  BY <1>1, <1>3, <1>5, BeginStep

LEMMA FromRegistryBegins ==
  ASSUME Inv, NEW a \in Tab, NEW d \in Domain, NEW asked \in Valid(d) \cup {NoList},
         FromRegistry(a, d, asked)
  PROVE  \E k : Begins(a, d, k)
<1> DEFINE q == NewRequest(a, d, asked)
           l == ListOf(d)
           m == mirror[d]
<1>1. /\ q \in AnyRequest /\ q.domain = d /\ q.asked = asked /\ q.cached = NoList
      /\ q.loaded = cache[SessionOf[a]] /\ q.wrote = {} /\ q.seen = NoRows
  BY NewRequestFields
<1>2. m \in AnyRows /\ Foreign(d, RowList(m))
  BY DEF Inv, Types, Mirrors
<1>3. l \in List /\ Names(l) = delegated[d] /\ Foreign(d, l)
  BY ListOfType DEF Inv
<1>4. \A h \in Host : /\ l[h] \in Address \cup {"plain", "out"}
                      /\ h \notin Own[d] => l[h] \in {"plain", "out"}
  BY <1>3 DEF Foreign, List
<1>5. CASE Fetched(a, d, asked)
  <2> DEFINE r == [q EXCEPT !.read = l, !.seen = m, !.wrote = Host, !.cached = l]
  <2>1. Begin(a, r, l)
    BY <1>5 DEF Fetched
  <2> HIDE DEF q, l, m
  <2>2. /\ r \in AnyRequest /\ r.domain = d /\ r.asked = asked /\ r.cached = l
        /\ r.loaded = cache[SessionOf[a]] /\ r.wrote = Host /\ r.read = l /\ r.seen = m
    BY <1>1, <1>2, <1>3 DEF AnyRequest, AnyList
  <2> HIDE DEF r
  <2> QED
    BY <1>3, <1>4, <2>1, <2>2, BeginStep DEF m
<1>6. CASE FetchedDuplicates(a, d, asked)
  <2>1. PICK H \in SUBSET Names(l) :
          LET wrote == H \cup (Host \ Names(l))
              r == [q EXCEPT !.read = l, !.seen = m, !.wrote = wrote]
          IN Begin(a, r, RowList(Synchronized(m, m, l, wrote)))
    BY <1>6 DEF FetchedDuplicates
  <2> DEFINE wrote == H \cup (Host \ Names(l))
             r == [q EXCEPT !.read = l, !.seen = m, !.wrote = wrote]
             new == Synchronized(m, m, l, wrote)
  <2>2. Begin(a, r, RowList(new))
    BY <2>1
  <2>3. wrote \in SUBSET Host
    BY DEF Names
  <2> HIDE DEF q, l, m, wrote
  <2>4. /\ r \in AnyRequest /\ r.domain = d /\ r.asked = asked /\ r.cached = NoList
        /\ r.loaded = cache[SessionOf[a]] /\ r.wrote = wrote /\ r.read = l /\ r.seen = m
    BY <1>1, <1>2, <1>3, <2>3 DEF AnyRequest, AnyList
  <2>5. l \in AnyList
    BY <1>3 DEF AnyList
  <2>6. new \in AnyRows /\ Foreign(d, RowList(new))
    BY <1>2, <1>4, <2>3, <2>5, SynchronizedType
  <2>7. RowList(new) \in List
    BY <2>6, RowListType
  <2> HIDE DEF r, new
  <2> QED
    BY <1>4, <2>2, <2>3, <2>4, <2>6, <2>7, BeginStep DEF m
<1>7. CASE NotFetched(a, d, asked)
  <2>1. Begin(a, q, RowList(m))
    BY <1>7 DEF NotFetched
  <2>2. RowList(m) \in List
    BY <1>2, RowListType
  <2> HIDE DEF q
  <2> QED
    BY <1>1, <1>2, <2>1, <2>2, BeginStep
<1> QED
  BY <1>5, <1>6, <1>7 DEF FromRegistry

LEMMA OtherFormBegins ==
  ASSUME Inv, NEW a \in Tab, NEW d \in Domain, OtherForm(a, d)
  PROVE  \E k : Begins(a, d, k)
<1> DEFINE q == NewRequest(a, d, NoList)
           k == [[q EXCEPT !.old = NoList] EXCEPT !.stage = "shown"]
<1>1. /\ q \in AnyRequest /\ q.domain = d /\ q.asked = NoList /\ q.cached = NoList
      /\ q.loaded = cache[SessionOf[a]] /\ q.wrote = {} /\ q.seen = NoRows
  BY NewRequestFields
<1>2. Begin(a, q, NoList)
  BY DEF OtherForm
<1> HIDE DEF q
<1>3. Known(q, NoList) = k
  BY <1>1 DEF Known, AnyRequest
<1>4. /\ k \in AnyRequest /\ k.domain = d /\ k.cached = NoList /\ k.stage = "shown"
      /\ k.loaded = cache[SessionOf[a]] /\ k.wrote = {} /\ k.seen = NoRows
  BY <1>1 DEF AnyRequest, AnyList
<1>5. /\ request' = [request EXCEPT ![a] = k] /\ ~Busy(a)
      /\ UNCHANGED <<glue, delegated, ready, mirror, cache, behind>>
  BY <1>2, <1>3 DEF Begin
<1> HIDE DEF k
<1>6. \A e \in Domain : k.loaded[e] # NoList => Foreign(e, k.loaded[e])
  BY <1>4, NameServersAssumption DEF Inv, Caches
<1>7. Sensible(k)
  BY <1>4, <1>6 DEF Sensible
<1> QED
  BY <1>4, <1>5, <1>7 DEF Begins

LEMMA BeginsInv ==
  ASSUME Inv, NEW a \in Tab, NEW d \in Domain, NEW r, Begins(a, d, r)
  PROVE  Inv'
<1>1. /\ r \in AnyRequest /\ Sensible(r) /\ request' = [request EXCEPT ![a] = r]
      /\ UNCHANGED <<glue, delegated, ready, mirror, cache>>
  BY DEF Begins
<1>2. /\ glue' \in List /\ delegated' \in [Domain -> SUBSET Host]
      /\ \A e \in Domain : \A h \in delegated'[e] : glue'[h] # "out"
  BY <1>1 DEF Inv, Types, Objects
<1> QED
  BY <1>1, <1>2, RequestStep

-----------------------------------------------------------------------------
(* The steps of a change *)

\* A host whose address is changed, or which is created, is one of the
\* domain's own or not at the registry yet.
LEMMA HostsStage ==
  ASSUME Inv, NEW a \in Tab, request[a].stage = "hosts", NEW h \in request[a].left
  PROVE  LET r == request[a]
         IN /\ r \in AnyRequest /\ Busy(a) /\ h \in Host
            /\ r.asked[h] \in Address \cup {"plain"} /\ r.asked \in Valid(r.domain)
            /\ h \in Names(r.old) => h \in Own[r.domain]
<1> DEFINE r == request[a]
<1>1. r \in AnyRequest /\ Busy(a)
  BY BusyType DEF Inv
<1>2. Sensible(r)
  BY <1>1 DEF Inv, Requests
<1> HIDE DEF r
<1>3. r.stage = "hosts" /\ h \in r.left
  BY DEF r
<1>4. r.asked \in Valid(r.domain) /\ r.old \in List /\ Foreign(r.domain, r.old)
  BY <1>2, <1>3 DEF Sensible
<1>5. h \in Names(r.asked)
  BY <1>2, <1>3 DEF Sensible, Changed, Added
<1>6. h \in Host /\ r.asked[h] \in Address \cup {"plain"}
  BY <1>4, <1>5 DEF Valid, List, Names
<1>7. ASSUME h \in Names(r.old) PROVE h \in Own[r.domain]
  <2>1. r.old[h] # r.asked[h]
    BY <1>2, <1>3, <1>7 DEF Sensible, Changed, Added
  <2>2. SUFFICES ASSUME h \notin Own[r.domain] PROVE FALSE
    OBVIOUS
  <2>3. r.asked[h] = "plain"
    BY <1>4, <1>5, <2>2 DEF Valid
  <2>4. r.old[h] = "plain"
    BY <1>4, <1>6, <1>7, <2>2 DEF Foreign, Names
  <2> QED
    BY <2>1, <2>3, <2>4
<1> QED
  BY <1>1, <1>4, <1>6, <1>7 DEF r

\* The page gives up: without a change of the domain's list, or with one it
\* has no answer to.
LEMMA FailStep ==
  ASSUME Inv, NEW a \in Tab, request[a].stage = "hosts", Fail(a),
         glue' \in List, delegated' \in [Domain -> SUBSET Host],
         \A d \in Domain : \A h \in delegated'[d] : glue'[h] # "out",
         UNCHANGED <<ready, mirror, cache>>,
         LET d == request[a].domain
         IN \/ UNCHANGED <<delegated, behind>>
            \/ /\ \A e \in Domain \ {d} : delegated'[e] = delegated[e]
               /\ behind' = behind \cup (Crossed(a, d, TRUE) \X {d})
  PROVE  Inv' /\ \E r : Works(a, r)
<1> DEFINE q == request[a]
           r == [q EXCEPT !.stage = "failed", !.left = {}]
<1>1. q \in AnyRequest /\ Busy(a) /\ Sensible(q) /\ q.stage = "hosts"
  BY BusyType DEF Inv, Requests
<1>2. request' = [request EXCEPT ![a] = r]
  BY <1>1 DEF Fail, Inv, Types
<1>3. \/ UNCHANGED <<delegated, behind>>
      \/ /\ \A e \in Domain \ {q.domain} : delegated'[e] = delegated[e]
         /\ behind' = behind \cup (Crossed(a, q.domain, TRUE) \X {q.domain})
  OBVIOUS
<1>4. ~Changing(q)
  BY <1>1 DEF Changing
<1>5. q = request[a]
  OBVIOUS
<1> HIDE DEF q
<1>6. /\ r \in AnyRequest /\ r.domain = q.domain /\ r.stage = "failed"
      /\ r.loaded = q.loaded /\ r.cached = q.cached
      /\ r.read = q.read /\ r.seen = q.seen /\ r.wrote = q.wrote
  BY <1>1 DEF AnyRequest
<1> HIDE DEF r
<1>7. Sensible(r) /\ ~Changing(r)
  BY <1>1, <1>6 DEF Sensible, Changing
<1>8. Inv'
  BY <1>2, <1>6, <1>7, RequestStep
<1>9. Works(a, r)
  BY <1>1, <1>2, <1>3, <1>4, <1>5, <1>6, <1>7 DEF Works
<1> QED
  BY <1>8, <1>9

\* Fewer hosts are left.
LEMMA DoneStep ==
  ASSUME Inv, NEW a \in Tab, NEW L \in SUBSET request[a].left,
         request[a].stage \in {"hosts", "clean up"},
         request' = [request EXCEPT ![a].left = L],
         glue' \in List, \A d \in Domain : \A h \in delegated[d] : glue'[h] # "out",
         UNCHANGED <<delegated, ready, mirror, cache, behind>>
  PROVE  Inv' /\ \E r : Works(a, r)
<1> DEFINE q == request[a]
           r == [q EXCEPT !.left = L]
<1>1. q \in AnyRequest /\ Busy(a) /\ Sensible(q)
  BY BusyType DEF Inv, Requests
<1>2. request' = [request EXCEPT ![a] = r]
  BY DEF Inv, Types
<1>3. L \subseteq q.left /\ q = request[a]
  OBVIOUS
<1> HIDE DEF q
<1>4. /\ r \in AnyRequest /\ r.domain = q.domain /\ r.stage = q.stage /\ r.old = q.old
      /\ r.loaded = q.loaded /\ r.cached = q.cached /\ r.asked = q.asked
      /\ r.read = q.read /\ r.seen = q.seen /\ r.wrote = q.wrote /\ r.left = L
  BY <1>1, <1>3 DEF AnyRequest
<1> HIDE DEF r
<1>5. Changed(r) = Changed(q) /\ Added(r) = Added(q) /\ Removed(r) = Removed(q)
  BY <1>4 DEF Changed, Added, Removed
<1>6. Sensible(r)
  BY <1>1, <1>3, <1>4, <1>5 DEF Sensible
<1>7. Changing(r) <=> Changing(q)
  BY <1>4, <1>5 DEF Changing, Changes
<1>8. /\ delegated' \in [Domain -> SUBSET Host]
      /\ \A d \in Domain : \A h \in delegated'[d] : glue'[h] # "out"
  BY DEF Inv, Types
<1>9. Inv'
  BY <1>2, <1>4, <1>6, <1>8, RequestStep
<1>10. Works(a, r)
  BY <1>1, <1>2, <1>3, <1>4, <1>7 DEF Works
<1> QED
  BY <1>9, <1>10

LEMMA HostCommandStep ==
  ASSUME Inv, NEW a \in Tab, NEW h \in Host, NEW g \in List,
         request[a].stage = "hosts", HostCommand(a, g, h),
         \A d \in Domain : \A i \in delegated[d] : g[i] # "out"
  PROVE  Inv' /\ \E r : Works(a, r)
<1>1. UNCHANGED <<delegated, ready, mirror, cache, behind>> /\ glue' \in {g, glue}
  BY DEF HostCommand
<1>2. /\ glue' \in List /\ \A d \in Domain : \A i \in delegated[d] : glue'[i] # "out"
      /\ delegated' \in [Domain -> SUBSET Host]
  BY <1>1 DEF Inv, Types, Objects
<1>3. CASE Fail(a)
  BY <1>1, <1>2, <1>3, FailStep
<1>4. CASE Done(a, h)
  <2>1. request' = [request EXCEPT ![a].left = request[a].left \ {h}]
    BY <1>4 DEF Done
  <2>2. request[a].left \ {h} \in SUBSET request[a].left
    OBVIOUS
  <2> QED
    BY <1>1, <1>2, <2>1, <2>2, DoneStep
<1> QED
  BY <1>3, <1>4 DEF HostCommand

LEMMA RefusedStep ==
  ASSUME Inv, NEW a \in Tab, request[a].stage = "hosts", Refused(a)
  PROVE  Inv' /\ \E r : Works(a, r)
<1>1. UNCHANGED <<glue, delegated, ready, mirror, cache, behind>> /\ Fail(a)
  BY DEF Refused
<1>2. /\ glue' \in List /\ delegated' \in [Domain -> SUBSET Host]
      /\ \A d \in Domain : \A i \in delegated'[d] : glue'[i] # "out"
  BY <1>1 DEF Inv, Types, Objects
<1> QED
  BY <1>1, <1>2, FailStep

LEMMA UpdateHostStep ==
  ASSUME Inv, NEW a \in Tab, NEW h \in Host, UpdateHost(a, h)
  PROVE  Inv' /\ \E r : Works(a, r)
<1> DEFINE g == [glue EXCEPT ![h] = request[a].asked[h]]
<1>1. request[a].stage = "hosts" /\ h \in request[a].left
  BY DEF UpdateHost
<1>2. request[a].asked[h] \in Address \cup {"plain"}
  BY <1>1, HostsStage
<1>3. g \in List /\ \A d \in Domain : \A i \in delegated[d] : g[i] # "out"
  <2>1. glue \in List /\ Objects /\ delegated \in [Domain -> SUBSET Host]
    BY DEF Inv, Types
  <2> QED
    BY <1>2, <2>1, NameServersAssumption DEF List, Objects
<1>4. HostCommand(a, g, h) \/ Refused(a)
  BY DEF UpdateHost
<1> HIDE DEF g
<1> QED
  BY <1>1, <1>3, <1>4, HostCommandStep, RefusedStep

LEMMA CreateHostStep ==
  ASSUME Inv, NEW a \in Tab, NEW h \in Host, CreateHost(a, h)
  PROVE  Inv' /\ \E r : Works(a, r)
<1> DEFINE g == [glue EXCEPT ![h] = request[a].asked[h]]
<1>1. request[a].stage = "hosts" /\ h \in request[a].left
  BY DEF CreateHost
<1>2. request[a].asked[h] \in Address \cup {"plain"}
  BY <1>1, HostsStage
<1>3. /\ glue \in List /\ \A d \in Domain : \A i \in delegated[d] : glue[i] # "out"
      /\ delegated \in [Domain -> SUBSET Host]
  BY DEF Inv, Types, Objects
<1>4. g \in List /\ \A d \in Domain : \A i \in delegated[d] : g[i] # "out"
  BY <1>2, <1>3, NameServersAssumption DEF List
<1>5. HostCommand(a, glue, h) \/ HostCommand(a, g, h) \/ Refused(a)
  BY DEF CreateHost
<1> HIDE DEF g
<1> QED
  BY <1>1, <1>3, <1>4, <1>5, HostCommandStep, RefusedStep

LEMMA DeleteHostStep ==
  ASSUME Inv, NEW a \in Tab, NEW h \in Host, DeleteHost(a, h)
  PROVE  Inv' /\ \E r : Works(a, r)
<1>1. /\ request[a].stage = "clean up"
      /\ UNCHANGED <<delegated, ready, mirror, cache, behind>>
  BY DEF DeleteHost
<1>2. \E L \in SUBSET request[a].left : request' = [request EXCEPT ![a].left = L]
  BY DEF DeleteHost, Done
<1>3. glue' \in List /\ \A d \in Domain : \A i \in delegated[d] : glue'[i] # "out"
  <2>1. glue \in List /\ Objects /\ delegated \in [Domain -> SUBSET Host]
    BY DEF Inv, Types
  <2>2. CASE glue' = glue
    BY <2>1, <2>2 DEF Objects
  <2>3. CASE glue' = [glue EXCEPT ![h] = "out"] /\ \A d \in Domain : h \notin delegated[d]
    BY <2>1, <2>3 DEF Objects, List
  <2> QED
    BY <2>2, <2>3 DEF DeleteHost
<1> QED
  BY <1>1, <1>2, <1>3, DoneStep

LEMMA UpdateDomainStep ==
  ASSUME Inv, NEW a \in Tab, UpdateDomain(a)
  PROVE  Inv' /\ \E r : Works(a, r)
<1> DEFINE q == request[a]
           d == q.domain
           r == CleanUp(q)
           updated == [delegated EXCEPT ![d] = (@ \cup Added(q)) \ Removed(q)]
<1>1. q.stage = "hosts" /\ UNCHANGED <<glue, ready, mirror, cache>>
  BY DEF UpdateDomain
<1>2. /\ q \in AnyRequest /\ Busy(a) /\ Sensible(q)
      /\ glue \in List /\ delegated \in [Domain -> SUBSET Host]
      /\ \A e \in Domain : \A h \in delegated[e] : glue[h] # "out"
  BY <1>1, BusyType DEF Inv, Requests, Types, Objects
<1>3. \/ UNCHANGED <<delegated, behind>> /\ Fail(a)
      \/ /\ ~Changes(q) /\ UNCHANGED <<delegated, behind>>
         /\ request' = [request EXCEPT ![a] = r]
      \/ /\ Changes(q) /\ delegated' = updated /\ \A h \in Added(q) : glue[h] # "out"
         /\ request' = [request EXCEPT ![a] = r]
         /\ behind' = behind \cup (Crossed(a, d, FALSE) \X {d})
      \/ /\ Changes(q) /\ delegated' = updated /\ \A h \in Added(q) : glue[h] # "out"
         /\ Fail(a)
         /\ behind' = behind \cup (Crossed(a, d, TRUE) \X {d})
  BY DEF UpdateDomain
<1>4. q = request[a] /\ d = request[a].domain
  OBVIOUS
<1> HIDE DEF q
<1>5. d \in Domain /\ Removed(q) \in SUBSET Host /\ Added(q) \in SUBSET Host
  BY <1>2 DEF AnyRequest, Removed, Added, Names
<1>6. /\ r \in AnyRequest /\ r.domain = d /\ r.loaded = q.loaded /\ r.cached = q.cached
      /\ r.read = q.read /\ r.seen = q.seen /\ r.wrote = q.wrote
      /\ r.stage = "clean up" /\ r.asked = q.asked /\ r.old = q.old
  BY <1>2, <1>5 DEF CleanUp, AnyRequest
<1> HIDE DEF r
<1>7. Sensible(r)
  BY <1>1, <1>2, <1>6 DEF Sensible
<1>8. (Changing(r) <=> Changes(q)) /\ ~Changing(q)
  BY <1>1, <1>6 DEF Changing, Changes, Added, Removed
<1>9. updated \in [Domain -> SUBSET Host] /\ \A e \in Domain \ {d} : updated[e] = delegated[e]
  <2>1. (delegated[d] \cup Added(q)) \ Removed(q) \in SUBSET Host
    BY <1>2, <1>5
  <2> QED
    BY <1>2, <2>1
<1>10. ASSUME \A h \in Added(q) : glue[h] # "out"
       PROVE  \A e \in Domain : \A h \in updated[e] : glue[h] # "out"
  <2> SUFFICES ASSUME NEW e \in Domain, NEW h \in updated[e]
               PROVE  glue[h] # "out"
    OBVIOUS
  <2>1. h \in delegated[e] \/ h \in Added(q)
    BY <1>2, <1>5
  <2> QED
    BY <1>2, <1>10, <2>1
<1> HIDE DEF updated
<1>11. CASE UNCHANGED <<delegated, behind>> /\ Fail(a)
  <2>1. glue' \in List /\ delegated' \in [Domain -> SUBSET Host]
        /\ \A e \in Domain : \A h \in delegated'[e] : glue'[h] # "out"
    BY <1>1, <1>2, <1>11
  <2> QED
    BY <1>1, <1>4, <1>11, <2>1, FailStep
<1>12. CASE /\ ~Changes(q) /\ UNCHANGED <<delegated, behind>>
            /\ request' = [request EXCEPT ![a] = r]
  <2>1. glue' \in List /\ delegated' \in [Domain -> SUBSET Host]
        /\ \A e \in Domain : \A h \in delegated'[e] : glue'[h] # "out"
    BY <1>1, <1>2, <1>12
  <2>2. Inv'
    BY <1>1, <1>6, <1>7, <1>12, <2>1, RequestStep
  <2>3. Works(a, r)
    BY <1>1, <1>2, <1>4, <1>6, <1>8, <1>12 DEF Works, d
  <2> QED
    BY <2>2, <2>3
<1>13. CASE /\ Changes(q) /\ delegated' = updated /\ \A h \in Added(q) : glue[h] # "out"
            /\ request' = [request EXCEPT ![a] = r]
            /\ behind' = behind \cup (Crossed(a, d, FALSE) \X {d})
  <2>1. glue' \in List /\ delegated' \in [Domain -> SUBSET Host]
        /\ \A e \in Domain : \A h \in delegated'[e] : glue'[h] # "out"
    BY <1>1, <1>2, <1>9, <1>10, <1>13
  <2>2. Inv'
    BY <1>1, <1>6, <1>7, <1>13, <2>1, RequestStep
  <2>3. Works(a, r)
    <3>1. \E kept \in BOOLEAN : /\ behind' = behind \cup (Crossed(a, d, kept) \X {d})
                                /\ Changing(r) \/ kept
                                /\ ~Changing(q)
      BY <1>8, <1>13
    <3>2. \A e \in Domain \ {d} : delegated'[e] = delegated[e]
      BY <1>9, <1>13
    <3> QED
      BY <1>1, <1>2, <1>4, <1>6, <1>13, <3>1, <3>2 DEF Works, d
  <2> QED
    BY <2>2, <2>3
<1>14. CASE /\ Changes(q) /\ delegated' = updated /\ \A h \in Added(q) : glue[h] # "out"
            /\ Fail(a)
            /\ behind' = behind \cup (Crossed(a, d, TRUE) \X {d})
  <2>1. glue' \in List /\ delegated' \in [Domain -> SUBSET Host]
        /\ \A e \in Domain : \A h \in delegated'[e] : glue'[h] # "out"
    BY <1>1, <1>2, <1>9, <1>10, <1>14
  <2>2. \A e \in Domain \ {d} : delegated'[e] = delegated[e]
    BY <1>9, <1>14
  <2> QED
    BY <1>1, <1>4, <1>14, <2>1, <2>2, FailStep
<1> QED
  BY <1>3, <1>11, <1>12, <1>13, <1>14

-----------------------------------------------------------------------------
(* The end of a request *)

LEMMA SavedEnds ==
  ASSUME Inv, NEW a \in Tab, Saved(a)
  PROVE  Ends(a, NoList) /\ ready' \subseteq Domain
<1>1. request[a].stage = "clean up" /\ Closed(a, NoList, Changes(request[a]))
  BY DEF Saved
<1>2. Busy(a) /\ request[a] \in AnyRequest
  BY <1>1, BusyType DEF Inv
<1>3. Changes(request[a]) \in BOOLEAN /\ Changing(request[a]) = Changes(request[a])
  BY <1>1 DEF Changing, Changes
<1>4. Ends(a, NoList)
  BY <1>1, <1>2, <1>3 DEF Ends
<1>5. request[a].domain \in Domain /\ ready \subseteq Domain
  BY <1>2 DEF Inv, Types, AnyRequest
<1>6. ready' = ready \ {request[a].domain} \/ ready' = ready \cup {request[a].domain}
  BY DEF Saved
<1> QED
  BY <1>4, <1>5, <1>6

LEMMA ShownEnds ==
  ASSUME Inv, NEW a \in Tab, Shown(a)
  PROVE  Ends(a, request[a].cached) /\ ready' \subseteq Domain
<1>1. request[a].stage \in {"failed", "shown"} /\ Closed(a, request[a].cached, FALSE)
  BY DEF Shown
<1>2. Busy(a) /\ ~Changing(request[a])
  BY <1>1, BusyType DEF Inv, Changing
<1>3. ready' \subseteq Domain
  BY DEF Shown, Inv, Types
<1> QED
  BY <1>1, <1>2, <1>3 DEF Ends

\* The rows that a request commits have no addresses of other domains' hosts.
LEMMA MirroredInv ==
  ASSUME Inv, NEW a \in Tab, Busy(a),
         mirror' = [mirror EXCEPT ![request[a].domain] = Mirrored(request[a])]
  PROVE  mirror' \in [Domain -> AnyRows] /\ Mirrors'
<1> DEFINE r == request[a]
           d == r.domain
<1>1. r \in AnyRequest /\ Types /\ Sensible(r) /\ Mirrors
  BY BusyType DEF Inv, Requests
<1>2. mirror' = [mirror EXCEPT ![d] = Mirrored(r)]
  OBVIOUS
<1> HIDE DEF r
<1>3. d \in Domain /\ r.seen \in AnyRows /\ r.read \in AnyList /\ r.wrote \in SUBSET Host
  BY <1>1 DEF AnyRequest
<1>4. mirror[d] \in AnyRows /\ Foreign(d, RowList(mirror[d]))
  BY <1>1, <1>3 DEF Types, Mirrors
<1>5. \A h \in r.wrote \ Own[d] : r.read[h] \in {"plain", "out"}
  BY <1>1 DEF Sensible
<1>6. \A h \in r.wrote : r.read[h] \in Address \cup {"plain", "out"}
  BY <1>1 DEF Sensible
<1>7. Mirrored(r) \in AnyRows /\ Foreign(d, RowList(Mirrored(r)))
  BY <1>3, <1>4, <1>5, <1>6, SynchronizedType DEF Mirrored
<1> HIDE DEF d
<1>8. ASSUME NEW e \in Domain
      PROVE  mirror'[e] \in AnyRows /\ Foreign(e, RowList(mirror'[e]))
  BY <1>1, <1>2, <1>7 DEF Types, Mirrors
<1> QED
  BY <1>1, <1>2, <1>7, <1>8 DEF Types, Mirrors, Foreign, RowList

LEMMA EndsInv ==
  ASSUME Inv, NEW a \in Tab, NEW l, Ends(a, l), ready' \subseteq Domain
  PROVE  Inv'
<1> DEFINE r == request[a]
           s == SessionOf[a]
           d == r.domain
           saved == [r.loaded EXCEPT ![d] = l]
<1>0. Types /\ Objects /\ Requests /\ Caches
  BY DEF Inv
<1>1. /\ Busy(a) /\ l \in {NoList, r.cached}
      /\ cache' = [cache EXCEPT ![s] = saved]
      /\ mirror' = [mirror EXCEPT ![d] = Mirrored(r)]
      /\ request' = [request EXCEPT ![a] = Idle]
      /\ UNCHANGED <<glue, delegated>>
  BY DEF Ends, Closed
<1>2. mirror' \in [Domain -> AnyRows] /\ Mirrors'
  BY <1>1, MirroredInv
<1>3. r \in AnyRequest /\ Sensible(r) /\ s \in Session
  BY <1>0, <1>1, BusyType, NameServersAssumption DEF Requests
<1> HIDE DEF r, s
<1>4. d \in Domain /\ l \in AnyList /\ r.loaded \in [Domain -> AnyList]
  BY <1>1, <1>3 DEF AnyRequest, AnyList
<1>5. l # NoList => Foreign(d, l)
  BY <1>1, <1>3 DEF Sensible
<1> HIDE DEF d
<1>6. saved \in [Domain -> AnyList] /\ \A e \in Domain : saved[e] # NoList => Foreign(e, saved[e])
  BY <1>3, <1>4, <1>5 DEF Sensible
<1> HIDE DEF saved
<1>7. cache' \in [Session -> [Domain -> AnyList]]
  BY <1>0, <1>1, <1>6 DEF Types
<1>8. Types' /\ Objects'
  BY <1>0, <1>1, <1>2, <1>7 DEF Types, Objects
<1>9. ASSUME NEW t \in Session, NEW e \in Domain, cache'[t][e] # NoList
      PROVE  Foreign(e, cache'[t][e])
  <2>1. CASE t = s
    BY <1>0, <1>1, <1>3, <1>6, <1>9, <2>1 DEF Types
  <2>2. CASE t # s
    BY <1>0, <1>1, <1>9, <2>2 DEF Types, Caches
  <2> QED
    BY <2>1, <2>2
<1>10. Caches'
  BY <1>9 DEF Caches, Foreign, NoList
<1>11. ASSUME NEW b \in Tab, request'[b] # Idle PROVE Sensible(request'[b])
  BY <1>0, <1>1, <1>11 DEF Types, Requests, Busy
<1>12. Requests'
  BY <1>11 DEF Requests, Sensible, Busy
<1> QED
  BY <1>2, <1>8, <1>10, <1>12 DEF Inv

-----------------------------------------------------------------------------
(* All steps *)

LEMMA NextKinds ==
  ASSUME Inv, Next
  PROVE  /\ Inv'
         /\ \E a \in Tab : \/ \E d \in Domain : \E r : Begins(a, d, r)
                           \/ \E r : Works(a, r)
                           \/ \E l : Ends(a, l)
<1>1. ASSUME NEW a \in Tab, NEW d \in Domain,
             \/ View(a, d) \/ Overview(a, d) \/ OtherForm(a, d)
             \/ \E asked \in Valid(d) : Save(a, d, asked)
      PROVE  \E r : Begins(a, d, r)
  <2>1. ASSUME NEW asked \in Valid(d) \cup {NoList}, WithList(a, d, asked)
        PROVE  \E r : Begins(a, d, r)
    BY <2>1, CachedBegins, FromRegistryBegins DEF WithList
  <2>2. CASE View(a, d)
    BY <2>1, <2>2 DEF View
  <2>3. CASE Overview(a, d)
    BY <2>3, FromRegistryBegins DEF Overview
  <2>4. CASE OtherForm(a, d)
    BY <2>4, OtherFormBegins
  <2>5. CASE \E asked \in Valid(d) : Save(a, d, asked)
    BY <2>1, <2>5 DEF Save
  <2> QED
    BY <1>1, <2>2, <2>3, <2>4, <2>5
<1>2. ASSUME NEW a \in Tab, Saved(a) \/ Shown(a)
      PROVE  Inv' /\ \E l : Ends(a, l)
  BY <1>2, SavedEnds, ShownEnds, EndsInv
<1>3. ASSUME NEW a \in Tab,
             \/ UpdateDomain(a)
             \/ \E h \in Host : UpdateHost(a, h) \/ CreateHost(a, h) \/ DeleteHost(a, h)
      PROVE  Inv' /\ \E r : Works(a, r)
  BY <1>3, UpdateDomainStep, UpdateHostStep, CreateHostStep, DeleteHostStep
<1> QED
  BY <1>1, <1>2, <1>3, BeginsInv DEF Next

LEMMA UnchangedInv ==
  ASSUME Inv, UNCHANGED vars
  PROVE  Inv'
<1>0. /\ UNCHANGED <<glue, delegated, ready, mirror, cache, request>>
      /\ Types /\ Objects /\ Requests /\ Caches /\ Mirrors
  BY DEF vars, Inv
<1>1. Types' /\ Objects'
  BY <1>0 DEF Types, Objects
<1>2. Mirrors' /\ Caches'
  BY <1>0 DEF Mirrors, Caches, Foreign
<1>3. ASSUME NEW b \in Tab, request'[b] # Idle PROVE Sensible(request'[b])
  BY <1>0, <1>3 DEF Requests, Busy
<1>4. Requests'
  BY <1>3 DEF Requests, Sensible, Busy
<1> QED
  BY <1>1, <1>2, <1>4 DEF Inv

THEOREM Invariance == Spec => []Inv
<1>1. Init => Inv
  BY InitInv
<1>2. Inv /\ [Next]_vars => Inv'
  BY NextKinds, UnchangedInv
<1> QED
  BY <1>1, <1>2, PTL DEF Spec

\* The address of a host in use is changed by pages of domains that take it
\* for their own, and by no others that delegate to it.
THEOREM AddressesOfOthers == Spec => OthersKeepAddress
<1> DEFINE Kept == \A h \in Host :
             glue'[h] # glue[h] /\ (\E d \in Domain : h \in delegated[d])
               => \E a \in Tab : Busy(a) /\ h \in Own[request[a].domain]
<1>1. ASSUME Inv, Next
      PROVE  Kept
  <2> SUFFICES ASSUME NEW h \in Host, NEW e \in Domain, h \in delegated[e], glue'[h] # glue[h]
               PROVE  \E a \in Tab : Busy(a) /\ h \in Own[request[a].domain]
    OBVIOUS
  <2>0. glue[h] # "out" /\ glue \in List
    BY <1>1 DEF Inv, Objects, Types
  <2>1. ASSUME NEW a \in Tab, NEW i \in Host, UpdateHost(a, i)
        PROVE  Busy(a) /\ h \in Own[request[a].domain]
    <3>1. request[a].stage = "hosts" /\ i \in request[a].left \cap Names(request[a].old)
      BY <2>1 DEF UpdateHost
    <3>2. Busy(a) /\ i \in Own[request[a].domain]
      BY <1>1, <3>1, HostsStage
    <3>3. i = h
      BY <2>0, <2>1 DEF UpdateHost, HostCommand, Refused, List
    <3> QED
      BY <3>2, <3>3
  <2>2. ASSUME NEW a \in Tab, NEW i \in Host, CreateHost(a, i)
        PROVE  FALSE
    BY <2>0, <2>2 DEF CreateHost, HostCommand, Refused, List
  <2>3. ASSUME NEW a \in Tab, NEW i \in Host, DeleteHost(a, i)
        PROVE  FALSE
    BY <2>0, <2>3 DEF DeleteHost, List
  <2>4. ASSUME NEW a \in Tab, NEW d \in Domain,
               \/ View(a, d) \/ Overview(a, d) \/ OtherForm(a, d)
               \/ \E asked \in Valid(d) : Save(a, d, asked)
        PROVE  glue' = glue
    BY <2>4 DEF View, Overview, OtherForm, Save, WithList, Cached, FromRegistry, Fetched,
                FetchedDuplicates, NotFetched, Begin
  <2>5. ASSUME NEW a \in Tab, UpdateDomain(a) \/ Saved(a) \/ Shown(a)
        PROVE  glue' = glue
    BY <2>5 DEF UpdateDomain, Saved, Shown, Closed
  <2> QED
    BY <1>1, <2>1, <2>2, <2>3, <2>4, <2>5 DEF Next
<1>2. Inv /\ [Next]_vars => [Kept]_vars
  BY <1>1
<1>3. Spec => []Inv
  BY Invariance
<1> QED
  BY <1>2, <1>3, PTL DEF Spec, OthersKeepAddress

-----------------------------------------------------------------------------
(* The number of rows *)

\* The requests that are to insert a row of the host when they end.
Inserters(d, h) ==
  {a \in Tab : /\ WorksOn(a, d) /\ h \in request[a].wrote
               /\ request[a].read[h] # "out" /\ request[a].seen[h].n = 0}

\* A host has at most one row for each tab, those still to be inserted
\* included: whoever inserts one has seen none.
RowsCounted ==
  \A d \in Domain, h \in Host :
    /\ mirror[d][h].n \in Nat
    /\ mirror[d][h].n + Cardinality(Inserters(d, h)) <= Cardinality(Tab)

SeenTyped == \A a \in Tab : Busy(a) => request[a].seen \in Rows

Counters ==
  /\ saves \in 0..MaxSaves
  /\ views \in 0..MaxViews
  /\ faults \in 0..MaxFaults
  /\ behind \subseteq Session \X Domain

LEMMA InsertersFinite ==
  ASSUME NEW d, NEW h
  PROVE  /\ IsFiniteSet(Inserters(d, h)) /\ Cardinality(Inserters(d, h)) \in Nat
         /\ Cardinality(Tab) \in Nat
         /\ Cardinality(Inserters(d, h)) <= Cardinality(Tab)
<1>1. IsFiniteSet(Tab) /\ Inserters(d, h) \subseteq Tab
  BY NameServersAssumption DEF Inserters
<1> QED
  BY <1>1, FS_Subset, FS_CardinalityType

LEMMA RowsCountedInit ==
  ASSUME Init
  PROVE  RowsCounted /\ SeenTyped /\ Counters
<1>1. request = [a \in Tab |-> Idle] /\ saves = 0 /\ views = 0 /\ faults = 0 /\ behind = {}
  BY DEF Init
<1>2. SeenTyped /\ Counters
  BY <1>1, NameServersAssumption DEF SeenTyped, Counters, Busy
<1>3. Cardinality(Tab) \in Nat /\ Cardinality(Tab) # 0
  BY NameServersAssumption, FS_CardinalityType, FS_EmptySet
<1>4. ASSUME NEW d \in Domain, NEW h \in Host
      PROVE  mirror[d][h].n \in {0, 1} /\ Cardinality(Inserters(d, h)) = 0
  <2>1. Inserters(d, h) = {}
    BY <1>1 DEF Inserters, WorksOn, Busy
  <2>2. mirror[d] \in {NoRows, Synchronized(NoRows, NoRows, ListOf(d), Host)}
    BY DEF Init
  <2>3. NoRows[h] = [n |-> 0, ip |-> "out"]
    BY DEF NoRows
  <2>4. Synchronized(NoRows, NoRows, ListOf(d), Host)[h].n \in {0, 1}
    BY <2>3 DEF Synchronized
  <2> QED
    BY <2>1, <2>2, <2>3, <2>4, FS_EmptySet
<1> QED
  BY <1>2, <1>3, <1>4 DEF RowsCounted

\* Rows that are counted are rows as TypeOK wants them.
LEMMA CountedRows ==
  ASSUME Types, RowsCounted, NEW d \in Domain
  PROVE  mirror[d] \in Rows /\ NoRows \in Rows
<1>1. mirror[d] \in AnyRows
  BY DEF Types
<1>2. ASSUME NEW h \in Host PROVE mirror[d][h].n \in 0..Cardinality(Tab)
  BY InsertersFinite DEF RowsCounted
<1>3. mirror[d] \in Rows
  BY <1>1, <1>2 DEF Rows, AnyRows
<1>4. Cardinality(Tab) \in Nat
  BY NameServersAssumption, FS_CardinalityType
<1> QED
  BY <1>3, <1>4 DEF NoRows, Rows

LEMMA BeginsCounted ==
  ASSUME Inv, RowsCounted, NEW a \in Tab, NEW d \in Domain, NEW r, Begins(a, d, r)
  PROVE  RowsCounted'
<1>1. /\ ~Busy(a) /\ r.domain = d /\ mirror' = mirror
      /\ r.wrote = {} \/ r.seen = mirror[d]
      /\ request' = [request EXCEPT ![a] = r]
  BY DEF Begins
<1>2. request'[a] = r /\ \A b \in Tab \ {a} : request'[b] = request[b]
  BY <1>1 DEF Inv, Types
<1> SUFFICES ASSUME NEW e \in Domain, NEW h \in Host
             PROVE  /\ mirror'[e][h].n \in Nat
                    /\ mirror'[e][h].n + Cardinality(Inserters(e, h)') <= Cardinality(Tab)
  BY DEF RowsCounted
<1>3. /\ mirror'[e][h].n \in Nat
      /\ mirror'[e][h].n + Cardinality(Inserters(e, h)) <= Cardinality(Tab)
  BY <1>1 DEF RowsCounted
<1>4. a \notin Inserters(e, h)
  BY <1>1 DEF Inserters, WorksOn
<1>5. \A b \in Tab \ {a} : b \in Inserters(e, h)' <=> b \in Inserters(e, h)
  BY <1>2 DEF Inserters, WorksOn, Busy
<1>6. CASE a \in Inserters(e, h)'
  <2>1. e = d /\ h \in r.wrote /\ r.seen[h].n = 0
    BY <1>1, <1>2, <1>6 DEF Inserters, WorksOn
  <2>2. mirror'[e][h].n = 0
    BY <1>1, <2>1
  <2>3. /\ Cardinality(Inserters(e, h)') <= Cardinality(Tab)
        /\ Cardinality(Inserters(e, h)') \in Nat
    <3>1. IsFiniteSet(Tab) /\ Inserters(e, h)' \subseteq Tab
      BY NameServersAssumption DEF Inserters
    <3> QED
      BY <3>1, FS_Subset, FS_CardinalityType
  <2> QED
    BY <2>2, <2>3
<1>7. CASE a \notin Inserters(e, h)'
  <2>1. Inserters(e, h)' = Inserters(e, h)
    <3>1. Inserters(e, h)' \subseteq Tab /\ Inserters(e, h) \subseteq Tab
      BY DEF Inserters
    <3> QED
      BY <1>4, <1>5, <1>7, <3>1
  <2> QED
    BY <1>3, <2>1
<1> QED
  BY <1>6, <1>7

LEMMA WorksCounted ==
  ASSUME Inv, RowsCounted, NEW a \in Tab, NEW r, Works(a, r)
  PROVE  RowsCounted'
<1>1. /\ Busy(a) /\ r \in AnyRequest /\ mirror' = mirror
      /\ r.domain = request[a].domain /\ r.read = request[a].read
      /\ r.seen = request[a].seen /\ r.wrote = request[a].wrote
      /\ request' = [request EXCEPT ![a] = r]
  BY DEF Works
<1>2. request'[a] = r /\ \A b \in Tab \ {a} : request'[b] = request[b]
  BY <1>1 DEF Inv, Types
<1>3. Busy(a)'
  <2>1. r.stage \in {"shown", "hosts", "clean up", "failed"} /\ Idle.stage = "idle"
    BY <1>1 DEF AnyRequest, Idle
  <2> QED
    BY <1>2, <2>1 DEF Busy
<1>4. ASSUME NEW e, NEW h PROVE Inserters(e, h)' = Inserters(e, h)
  <2>1. ASSUME NEW b \in Tab PROVE b \in Inserters(e, h)' <=> b \in Inserters(e, h)
    <3>1. CASE b = a
      BY <1>1, <1>2, <1>3, <3>1 DEF Inserters, WorksOn
    <3>2. CASE b # a
      BY <1>2, <3>2 DEF Inserters, WorksOn, Busy
    <3> QED
      BY <3>1, <3>2
  <2>2. Inserters(e, h)' \subseteq Tab /\ Inserters(e, h) \subseteq Tab
    BY DEF Inserters
  <2> QED
    BY <2>1, <2>2
<1> QED
  BY <1>1, <1>4 DEF RowsCounted

LEMMA EndsCounted ==
  ASSUME Inv, RowsCounted, SeenTyped, NEW a \in Tab, NEW l, Ends(a, l)
  PROVE  RowsCounted'
<1> DEFINE q == request[a]
           d == q.domain
<1>1. /\ Busy(a) /\ request' = [request EXCEPT ![a] = Idle]
      /\ mirror' = [mirror EXCEPT ![d] = Mirrored(q)]
  BY DEF Ends, Closed
<1>2. ~Busy(a)' /\ \A b \in Tab \ {a} : request'[b] = request[b]
  BY <1>1 DEF Inv, Types, Busy
<1>3. q \in AnyRequest /\ d \in Domain
  BY <1>1, BusyType DEF Inv, AnyRequest
<1>4. \A e \in Domain : mirror'[e] = IF e = d THEN Mirrored(q) ELSE mirror[e]
  BY <1>1, <1>3 DEF Inv, Types
<1> SUFFICES ASSUME NEW e \in Domain, NEW h \in Host
             PROVE  /\ mirror'[e][h].n \in Nat
                    /\ mirror'[e][h].n + Cardinality(Inserters(e, h)') <= Cardinality(Tab)
  BY DEF RowsCounted
<1>5. /\ mirror[e][h].n \in Nat
      /\ mirror[e][h].n + Cardinality(Inserters(e, h)) <= Cardinality(Tab)
      /\ Cardinality(Tab) \in Nat
  BY InsertersFinite DEF RowsCounted
<1>6. Inserters(e, h)' = Inserters(e, h) \ {a}
  <2>1. \A b \in Tab \ {a} : b \in Inserters(e, h)' <=> b \in Inserters(e, h)
    BY <1>2 DEF Inserters, WorksOn, Busy
  <2>2. Inserters(e, h)' \subseteq Tab /\ Inserters(e, h) \subseteq Tab
        /\ a \notin Inserters(e, h)'
    BY <1>2 DEF Inserters, WorksOn
  <2> QED
    BY <2>1, <2>2
<1>7. q.seen[h].n \in Nat
  BY <1>1, <1>3, InsertersFinite DEF SeenTyped, Rows
<1>8. mirror[d][h] \in [n : Int, ip : Address \cup {"plain", "out"}]
  BY <1>3 DEF Inv, Types, AnyRows
<1>9. CASE a \in Inserters(e, h)
  <2>1. e = d /\ h \in q.wrote /\ q.read[h] # "out" /\ q.seen[h].n = 0
    BY <1>9 DEF Inserters, WorksOn
  <2>2. mirror'[e][h].n = mirror[e][h].n + 1
    <3>1. mirror'[e][h] = Synchronized(mirror[d], q.seen, q.read, q.wrote)[h]
      BY <1>4, <2>1 DEF Mirrored
    <3>2. mirror'[e][h] = [n |-> mirror[d][h].n + 1, ip |-> q.read[h]]
      BY <2>1, <3>1 DEF Synchronized
    <3> QED
      BY <2>1, <3>2
  <2>3. /\ Cardinality(Inserters(e, h) \ {a}) = Cardinality(Inserters(e, h)) - 1
        /\ Cardinality(Inserters(e, h)) \in Nat
    BY <1>9, InsertersFinite, FS_RemoveElement
  <2> QED
    BY <1>5, <1>6, <2>2, <2>3
<1>10. CASE a \notin Inserters(e, h)
  <2>1. Inserters(e, h)' = Inserters(e, h)
    BY <1>6, <1>10
  <2>2. mirror'[e][h].n \in Nat /\ mirror'[e][h].n <= mirror[e][h].n
    <3>1. CASE e # d
      BY <1>4, <1>5, <3>1
    <3>2. CASE e = d
      <4>1. ~(h \in q.wrote /\ q.read[h] # "out" /\ q.seen[h].n = 0)
        BY <1>1, <1>10, <3>2 DEF Inserters, WorksOn
      <4>2. mirror'[e][h] = Synchronized(mirror[d], q.seen, q.read, q.wrote)[h]
        BY <1>4, <3>2 DEF Mirrored
      <4>3. CASE h \notin q.wrote
        BY <1>5, <3>2, <4>2, <4>3 DEF Synchronized
      <4>4. CASE h \in q.wrote /\ q.read[h] = "out" /\ mirror[d][h].n > q.seen[h].n
        <5>1. mirror'[e][h] = [mirror[d][h] EXCEPT !.n = @ - q.seen[h].n]
          BY <4>2, <4>4 DEF Synchronized
        <5> QED
          BY <1>5, <1>7, <1>8, <3>2, <4>4, <5>1
      <4>5. CASE h \in q.wrote /\ q.read[h] = "out" /\ ~(mirror[d][h].n > q.seen[h].n)
        BY <1>5, <3>2, <4>2, <4>5 DEF Synchronized
      <4>6. CASE h \in q.wrote /\ q.read[h] # "out"
        BY <1>5, <3>2, <4>1, <4>2, <4>6 DEF Synchronized
      <4> QED
        BY <4>3, <4>4, <4>5, <4>6
    <3> QED
      BY <3>1, <3>2
  <2>3. Cardinality(Inserters(e, h)) \in Nat
    BY InsertersFinite
  <2> QED
    BY <1>5, <2>1, <2>2, <2>3
<1> QED
  BY <1>9, <1>10

LEMMA CountedKept ==
  ASSUME Inv, RowsCounted, SeenTyped, [Next]_vars
  PROVE  RowsCounted'
<1>1. ASSUME UNCHANGED vars PROVE RowsCounted'
  <2>1. \A d, h : Inserters(d, h)' = Inserters(d, h)
    BY <1>1 DEF vars, Inserters, WorksOn, Busy
  <2> QED
    BY <1>1, <2>1 DEF vars, RowsCounted
<1> QED
  BY <1>1, BeginsCounted, WorksCounted, EndsCounted, NextKinds

LEMMA SeenKept ==
  ASSUME Inv, RowsCounted, SeenTyped, [Next]_vars
  PROVE  SeenTyped'
<1>0. request \in [Tab -> AnyRequest \cup {Idle}]
  BY DEF Inv, Types
<1>1. CASE UNCHANGED vars
  BY <1>1 DEF vars, SeenTyped, Busy
<1>2. ASSUME NEW a \in Tab, NEW d \in Domain, NEW r, Begins(a, d, r)
      PROVE  SeenTyped'
  <2>1. request' = [request EXCEPT ![a] = r] /\ (r.seen = NoRows \/ r.seen = mirror[d])
    BY <1>2 DEF Begins
  <2>2. r.seen \in Rows
    BY <2>1, CountedRows DEF Inv
  <2> QED
    BY <1>0, <2>1, <2>2 DEF SeenTyped, Busy
<1>3. ASSUME NEW a \in Tab, NEW r, Works(a, r)
      PROVE  SeenTyped'
  <2>1. request' = [request EXCEPT ![a] = r] /\ r.seen = request[a].seen /\ Busy(a)
    BY <1>3 DEF Works
  <2> QED
    BY <1>0, <2>1 DEF SeenTyped, Busy
<1>4. ASSUME NEW a \in Tab, NEW l, Ends(a, l)
      PROVE  SeenTyped'
  <2>1. request' = [request EXCEPT ![a] = Idle]
    BY <1>4 DEF Ends, Closed
  <2> QED
    BY <1>0, <2>1 DEF SeenTyped, Busy
<1> QED
  BY <1>1, <1>2, <1>3, <1>4, NextKinds

LEMMA BehindKept ==
  ASSUME Inv, behind \subseteq Session \X Domain, [Next]_vars
  PROVE  behind' \subseteq Session \X Domain
<1>1. ASSUME NEW a \in Tab, NEW r, Works(a, r)
      PROVE  behind' \subseteq Session \X Domain
  <2>1. request[a].domain \in Domain
    BY <1>1, BusyType DEF Inv, Works, AnyRequest
  <2>2. \A kept : Crossed(a, request[a].domain, kept) \subseteq Session
    BY DEF Crossed
  <2>3. behind' = behind \/ \E kept \in BOOLEAN :
          behind' = behind \cup (Crossed(a, request[a].domain, kept) \X {request[a].domain})
    BY <1>1 DEF Works
  <2> QED
    BY <2>1, <2>2, <2>3
<1>2. ASSUME NEW a \in Tab, NEW l, Ends(a, l)
      PROVE  behind' \subseteq Session \X Domain
  <2>1. request[a].domain \in Domain /\ SessionOf[a] \in Session
    BY <1>2, BusyType, NameServersAssumption DEF Inv, Ends, AnyRequest
  <2>2. \E none, old : /\ old \in {{request[a].domain}, {}}
                       /\ behind' = (behind \ ({SessionOf[a]} \X none)) \cup ({SessionOf[a]} \X old)
    BY <1>2 DEF Ends, Closed
  <2> QED
    BY <2>1, <2>2
<1>3. ASSUME NEW a \in Tab, NEW d \in Domain, NEW r, Begins(a, d, r)
      PROVE  behind' \subseteq Session \X Domain
  BY <1>3 DEF Begins
<1>4. CASE UNCHANGED vars
  BY <1>4 DEF vars
<1> QED
  BY <1>1, <1>2, <1>3, <1>4, NextKinds

LEMMA CountersKept ==
  ASSUME Inv, Counters, [Next]_vars
  PROVE  Counters'
<1> USE NameServersAssumption
<1> DEFINE Numbers == saves \in 0..MaxSaves /\ views \in 0..MaxViews /\ faults \in 0..MaxFaults
<1>0. ASSUME Fault \/ faults' = faults PROVE faults' \in 0..MaxFaults
  BY <1>0 DEF Fault, Counters
<1>1. CASE UNCHANGED vars
  BY <1>1 DEF vars, Counters
<1>2. ASSUME NEW a \in Tab, NEW d \in Domain, NEW asked,
             FromRegistry(a, d, asked) \/ WithList(a, d, asked)
      PROVE  faults' \in 0..MaxFaults
  BY <1>0, <1>2 DEF WithList, Cached, FromRegistry, Fetched, FetchedDuplicates, NotFetched
<1>3. ASSUME NEW a \in Tab, NEW d \in Domain, View(a, d) \/ Overview(a, d) \/ OtherForm(a, d)
      PROVE  Numbers'
  BY <1>2, <1>3 DEF View, Overview, OtherForm, Counters
<1>4. ASSUME NEW a \in Tab, NEW d \in Domain, NEW asked \in Valid(d), Save(a, d, asked)
      PROVE  Numbers'
  BY <1>2, <1>4 DEF Save, Counters
<1>5. ASSUME NEW a \in Tab,
             \/ UpdateDomain(a)
             \/ \E h \in Host : UpdateHost(a, h) \/ CreateHost(a, h) \/ DeleteHost(a, h)
      PROVE  Numbers'
  <2>1. (Fault \/ faults' = faults) /\ UNCHANGED <<saves, views>>
    BY <1>5 DEF UpdateDomain, UpdateHost, CreateHost, DeleteHost, HostCommand, Refused
  <2> QED
    BY <1>0, <2>1 DEF Counters
<1>6. ASSUME NEW a \in Tab, Saved(a) \/ Shown(a)
      PROVE  Numbers'
  BY <1>6 DEF Saved, Shown, Closed, Counters
<1>7. CASE Next
  <2>1. Numbers'
    BY <1>3, <1>4, <1>5, <1>6, <1>7 DEF Next
  <2>2. behind' \subseteq Session \X Domain
    BY BehindKept DEF Counters
  <2> QED
    BY <2>1, <2>2 DEF Counters
<1> QED
  BY <1>1, <1>7

LEMMA Counting == Spec => [](Inv /\ RowsCounted /\ SeenTyped /\ Counters)
<1> DEFINE Counted == RowsCounted /\ SeenTyped /\ Counters
<1>1. Init => Counted
  BY RowsCountedInit
<1>2. Inv /\ Counted /\ [Next]_vars => Counted'
  BY CountedKept, SeenKept, CountersKept
<1>3. Spec => []Inv
  BY Invariance
<1> QED
  <2> HIDE DEF Counted
  <2>1. Spec => [](Inv /\ Counted)
    BY <1>1, <1>2, <1>3, PTL DEF Spec
  <2> QED
    BY <2>1, PTL DEF Counted

\* The types, with the bound on the rows: a host never has more rows than
\* there are tabs, although a request inserts one without looking again.
THEOREM TypeCorrect == Spec => []TypeOK
<1>1. ASSUME Inv, RowsCounted, SeenTyped, Counters
      PROVE  TypeOK
  <2>1. Types
    BY <1>1 DEF Inv
  <2>2. mirror \in [Domain -> Rows]
    BY <1>1, <2>1, CountedRows DEF Types
  <2>3. ASSUME NEW a \in Tab PROVE request[a] \in Request \cup {Idle}
    <3>1. request[a] \in AnyRequest \cup {Idle}
      BY <2>1 DEF Types
    <3>2. CASE request[a] # Idle
      <4>1. request[a] \in AnyRequest /\ request[a].seen \in Rows
        BY <1>1, <3>1, <3>2 DEF SeenTyped, Busy
      <4> QED
        BY <4>1 DEF AnyRequest, Request, AnyList
    <3> QED
      BY <3>1, <3>2
  <2> QED
    BY <1>1, <2>1, <2>2, <2>3 DEF TypeOK, Types, Counters, AnyList
<1> QED
  BY <1>1, Counting, PTL

-----------------------------------------------------------------------------
(* Copies of lists *)

\* All that may be, or become, the session's list of the domain is current.
Fresh(s, d) ==
  /\ cache[s][d] # NoList => Names(cache[s][d]) = delegated[d]
  /\ \A a \in Tab : SessionOf[a] = s /\ Busy(a) =>
       LET r == request[a]
       IN /\ r.domain # d /\ r.loaded[d] # NoList => Names(r.loaded[d]) = delegated[d]
          /\ r.domain = d /\ r.cached # NoList => Names(r.cached) = delegated[d]

ChangingIn(s, d) == \E a \in Tab : SessionOf[a] = s /\ WorksOn(a, d) /\ Changing(request[a])

\* The third invariant: a copy is old only while its session's own change is
\* being finished, or when a change has crossed it.
CopiesFresh ==
  \A s \in Session, d \in Domain :
    <<s, d>> \notin behind /\ ~ChangingIn(s, d) => Fresh(s, d)

\* No tab but `a` and no session row has a list: what is left is the tab's.
LEMMA NobodyHolds ==
  ASSUME NEW a \in Tab, NEW s \in Session, NEW d \in Domain,
         ~OtherTabHolds(a, s, d), NEW b \in Tab \ {a}, SessionOf[b] = s, Busy(b)
  PROVE  request[b].domain # d /\ request[b].loaded[d] = NoList
  BY DEF OtherTabHolds

LEMMA BeginsFresh ==
  ASSUME Inv, CopiesFresh, NEW a \in Tab, NEW d \in Domain, NEW r, Begins(a, d, r)
  PROVE  CopiesFresh'
<1>1. /\ ~Busy(a) /\ r \in AnyRequest /\ r.domain = d /\ r.stage # "clean up"
      /\ request' = [request EXCEPT ![a] = r] /\ r.loaded = cache[SessionOf[a]]
      /\ r.cached # NoList => r.cached = cache[SessionOf[a]][d] \/ Names(r.cached) = delegated[d]
      /\ delegated' = delegated /\ cache' = cache /\ behind' = behind
  BY DEF Begins
<1>2. request'[a] = r /\ \A b \in Tab \ {a} : request'[b] = request[b]
  BY <1>1 DEF Inv, Types
<1>3. ASSUME NEW s \in Session, NEW e \in Domain, <<s, e>> \notin behind', ~ChangingIn(s, e)'
      PROVE  Fresh(s, e)'
  <2>1. ~ChangingIn(s, e)
    <3> SUFFICES ASSUME NEW b \in Tab, SessionOf[b] = s, WorksOn(b, e), Changing(request[b])
                 PROVE  FALSE
      BY DEF ChangingIn
    <3>1. b # a
      BY <1>1 DEF WorksOn
    <3>2. WorksOn(b, e)' /\ Changing(request[b])'
      BY <1>2, <3>1 DEF WorksOn, Busy, Changing, Changes, Added, Removed, Names
    <3> QED
      BY <1>3, <3>2 DEF ChangingIn
  <2>2. Fresh(s, e)
    BY <1>1, <1>3, <2>1 DEF CopiesFresh
  <2>3. cache'[s][e] # NoList => Names(cache'[s][e]) = delegated'[e]
    BY <1>1, <2>2 DEF Fresh
  <2>4. ASSUME NEW b \in Tab, SessionOf[b] = s, request'[b] # Idle
        PROVE  LET q == request'[b]
               IN /\ q.domain # e /\ q.loaded[e] # NoList => Names(q.loaded[e]) = delegated'[e]
                  /\ q.domain = e /\ q.cached # NoList => Names(q.cached) = delegated'[e]
    <3>1. CASE b = a
      BY <1>1, <1>2, <2>3, <2>4, <3>1
    <3>2. CASE b # a
      BY <1>1, <1>2, <2>2, <2>4, <3>2 DEF Fresh, Busy
    <3> QED
      BY <3>1, <3>2
  <2> QED
    BY <2>3, <2>4 DEF Fresh, Busy, Names, NoList
<1> QED
  BY <1>3 DEF CopiesFresh

\* What a step of a request on `d` leaves of the copies of others.
LEMMA WorksFresh ==
  ASSUME Inv, CopiesFresh, NEW a \in Tab, NEW r, Works(a, r)
  PROVE  CopiesFresh'
<1> DEFINE q == request[a]
           d == q.domain
<1>1. /\ Busy(a) /\ r \in AnyRequest
      /\ r.domain = d /\ r.loaded = q.loaded /\ r.cached = q.cached
      /\ request' = [request EXCEPT ![a] = r] /\ cache' = cache
  BY DEF Works
<1>2. request'[a] = r /\ \A b \in Tab \ {a} : request'[b] = request[b]
  BY <1>1 DEF Inv, Types
<1>3. r # Idle
  <2>1. r.stage \in {"shown", "hosts", "clean up", "failed"} /\ Idle.stage = "idle"
    BY <1>1 DEF AnyRequest, Idle
  <2> QED
    BY <2>1
<1>4. d \in Domain
  BY <1>1, BusyType DEF Inv, AnyRequest
<1>5. \/ UNCHANGED <<delegated, behind>> /\ (Changing(r) <=> Changing(q))
      \/ /\ \A e \in Domain \ {d} : delegated'[e] = delegated[e]
         /\ \E kept \in BOOLEAN : /\ behind' = behind \cup (Crossed(a, d, kept) \X {d})
                                  /\ Changing(r) \/ kept
                                  /\ ~Changing(q)
  BY DEF Works
<1>6. q = request[a]
  OBVIOUS
<1> HIDE DEF q, d
<1>7. ASSUME NEW b \in Tab, NEW e \in Domain
      PROVE  /\ WorksOn(b, e)' <=> WorksOn(b, e)
             /\ b # a => (Changing(request[b])' <=> Changing(request[b]))
  <2>1. CASE b = a
    BY <1>1, <1>2, <1>3, <1>6, <2>1 DEF WorksOn, Busy, d
  <2>2. CASE b # a
    BY <1>2, <2>2 DEF WorksOn, Busy, Changing, Changes, Added, Removed, Names
  <2> QED
    BY <2>1, <2>2
<1>8. Changing(request[a])' <=> Changing(r)
  BY <1>2 DEF Changing, Changes, Added, Removed, Names
\* The copies are the same: only the registry may have changed.
<1>9. ASSUME NEW s \in Session, NEW e \in Domain, Fresh(s, e), delegated'[e] = delegated[e]
      PROVE  Fresh(s, e)'
  <2>1. cache'[s][e] # NoList => Names(cache'[s][e]) = delegated'[e]
    BY <1>1, <1>9 DEF Fresh
  <2>2. ASSUME NEW b \in Tab, SessionOf[b] = s, request'[b] # Idle
        PROVE  LET k == request'[b]
               IN /\ k.domain # e /\ k.loaded[e] # NoList => Names(k.loaded[e]) = delegated'[e]
                  /\ k.domain = e /\ k.cached # NoList => Names(k.cached) = delegated'[e]
    <3>1. CASE b = a
      BY <1>1, <1>2, <1>6, <1>9, <2>2, <3>1 DEF Fresh, d
    <3>2. CASE b # a
      BY <1>2, <1>9, <2>2, <3>2 DEF Fresh, Busy
    <3> QED
      BY <3>1, <3>2
  <2> QED
    BY <2>1, <2>2 DEF Fresh, Busy, Names, NoList
<1>10. ASSUME NEW s \in Session, NEW e \in Domain, <<s, e>> \notin behind', ~ChangingIn(s, e)'
       PROVE  Fresh(s, e)'
  <2>1. CASE UNCHANGED <<delegated, behind>> /\ (Changing(r) <=> Changing(q))
    <3>1. ~ChangingIn(s, e)
      BY <1>6, <1>7, <1>8, <1>10, <2>1 DEF ChangingIn
    <3>2. Fresh(s, e)
      BY <1>10, <2>1, <3>1 DEF CopiesFresh
    <3> QED
      BY <1>9, <2>1, <3>2
  <2>2. ASSUME \A x \in Domain \ {d} : delegated'[x] = delegated[x],
               NEW kept \in BOOLEAN, behind' = behind \cup (Crossed(a, d, kept) \X {d}),
               Changing(r) \/ kept, ~Changing(q)
        PROVE  Fresh(s, e)'
    <3>1. ~ChangingIn(s, e)
      BY <1>6, <1>7, <1>10, <2>2 DEF ChangingIn
    <3>2. <<s, e>> \notin behind
      BY <1>10, <2>2
    <3>3. CASE e # d
      <4>1. Fresh(s, e)
        BY <3>1, <3>2 DEF CopiesFresh
      <4> QED
        BY <1>9, <2>2, <3>3, <4>1
    <3>4. CASE e = d
      <4>1. s \notin Crossed(a, d, kept)
        BY <1>10, <2>2, <3>4
      <4>2. ~OtherTabHolds(a, s, d)
        BY <4>1 DEF Crossed
      <4>3. SessionOf[a] = s => kept
        <5> SUFFICES ASSUME SessionOf[a] = s, ~kept PROVE FALSE
          OBVIOUS
        <5>1. WorksOn(a, e) /\ Changing(r)
          BY <1>1, <1>6, <2>2, <3>4 DEF WorksOn, d
        <5>2. WorksOn(a, e)' /\ Changing(request[a])'
          BY <1>7, <1>8, <5>1
        <5> QED
          BY <1>10, <5>2 DEF ChangingIn
      <4>4. cache[s][d] = NoList
        BY <4>1, <4>3 DEF Crossed
      <4>5. SessionOf[a] = s => r.cached = NoList
        BY <1>1, <1>6, <4>1, <4>3 DEF Crossed
      <4>6. ASSUME NEW b \in Tab, SessionOf[b] = s, request'[b] # Idle
            PROVE  LET k == request'[b]
                   IN /\ k.domain # d => k.loaded[d] = NoList
                      /\ k.domain = d => k.cached = NoList
        <5>1. CASE b = a
          BY <1>1, <1>2, <4>5, <4>6, <5>1
        <5>2. CASE b # a
          <6>1. request'[b] = request[b] /\ Busy(b) /\ b \in Tab \ {a}
            BY <1>2, <4>6, <5>2 DEF Busy
          <6> QED
            BY <1>4, <4>2, <4>6, <6>1, NobodyHolds
        <5> QED
          BY <5>1, <5>2
      <4>7. cache'[s][d] = NoList
        BY <1>1, <4>4
      <4> QED
        BY <3>4, <4>6, <4>7 DEF Fresh, Busy, NoList
    <3> QED
      BY <3>3, <3>4
  <2> QED
    BY <1>5, <2>1, <2>2
<1> QED
  BY <1>10 DEF CopiesFresh

LEMMA EndsFresh ==
  ASSUME Inv, CopiesFresh, NEW a \in Tab, NEW l, Ends(a, l)
  PROVE  CopiesFresh'
<1> DEFINE q == request[a]
           d == q.domain
           t == SessionOf[a]
           saved == [q.loaded EXCEPT ![d] = l]
           none == {e \in Domain : saved[e] = NoList /\ ~OtherTabHolds(a, t, e)}
<1>1. /\ Busy(a)
      /\ cache' = [cache EXCEPT ![t] = saved]
      /\ request' = [request EXCEPT ![a] = Idle]
      /\ delegated' = delegated
  BY DEF Ends, Closed
<1>2. \/ l = NoList /\ (Changing(q) /\ OtherTabHolds(a, t, d) => <<t, d>> \in behind')
      \/ l = q.cached /\ ~Changing(q)
  BY DEF Ends, Closed
<1>3. \A s \in Session, e \in Domain :
        <<s, e>> \in behind => <<s, e>> \in behind' \/ (s = t /\ e \in none)
  BY DEF Ends, Closed
<1>4. q \in AnyRequest /\ t \in Session
  BY <1>1, BusyType, NameServersAssumption DEF Inv
<1>5. q = request[a] /\ t = SessionOf[a]
  OBVIOUS
<1> HIDE DEF q, t
<1>6. d \in Domain /\ q.loaded \in [Domain -> AnyList]
  BY <1>4 DEF AnyRequest
<1> HIDE DEF d
<1>7. saved[d] = l /\ \A e \in Domain \ {d} : saved[e] = q.loaded[e]
  BY <1>6
<1> HIDE DEF saved
<1>8. /\ \A b \in Tab \ {a} : request'[b] = request[b]
      /\ request'[a] = Idle /\ cache'[t] = saved
      /\ \A s \in Session \ {t} : cache'[s] = cache[s]
  BY <1>1, <1>4 DEF Inv, Types
<1>9. ASSUME NEW s \in Session, NEW e \in Domain, <<s, e>> \notin behind', ~ChangingIn(s, e)'
      PROVE  Fresh(s, e)'
  <2>1. ASSUME ChangingIn(s, e)
        PROVE  s = t /\ e = d /\ Changing(q)
    <3>1. PICK b \in Tab : SessionOf[b] = s /\ WorksOn(b, e) /\ Changing(request[b])
      BY <2>1 DEF ChangingIn
    <3>2. b = a
      <4> SUFFICES ASSUME b # a PROVE FALSE
        OBVIOUS
      <4>1. WorksOn(b, e)' /\ Changing(request[b])'
        BY <1>8, <3>1 DEF WorksOn, Busy, Changing, Changes, Added, Removed, Names
      <4> QED
        BY <1>9, <3>1, <4>1 DEF ChangingIn
    <3> QED
      BY <1>5, <3>1, <3>2 DEF WorksOn, d
\* Nothing is left in the session: there is nothing that could be old.
  <2>2. CASE s = t /\ saved[e] = NoList /\ ~OtherTabHolds(a, t, e)
    <3>1. cache'[s][e] = NoList
      BY <1>8, <2>2
    <3>2. ASSUME NEW b \in Tab, SessionOf[b] = s, request'[b] # Idle
          PROVE  request'[b].domain # e /\ request'[b].loaded[e] = NoList
      <4>1. request'[b] = request[b] /\ Busy(b) /\ b \in Tab \ {a}
        BY <1>8, <3>2 DEF Busy
      <4> QED
        BY <1>4, <2>2, <3>2, <4>1, NobodyHolds
    <3> QED
      BY <3>1, <3>2 DEF Fresh, Busy, NoList
\* The copies were current before.
  <2>3. CASE ~(s = t /\ saved[e] = NoList /\ ~OtherTabHolds(a, t, e))
    <3>1. <<s, e>> \notin behind
      BY <1>3, <1>9, <2>3
    <3>2. ~ChangingIn(s, e)
      BY <1>2, <1>7, <1>9, <2>1, <2>3 DEF Changing
    <3>3. Fresh(s, e)
      BY <3>1, <3>2 DEF CopiesFresh
    <3>4. ASSUME cache'[s][e] # NoList PROVE Names(cache'[s][e]) = delegated[e]
      <4>1. CASE s # t
        BY <1>8, <3>3, <3>4, <4>1 DEF Fresh
      <4>2. CASE s = t /\ e # d
        <5>1. cache'[s][e] = q.loaded[e]
          BY <1>7, <1>8, <4>2
        <5> QED
          BY <1>1, <1>5, <3>3, <3>4, <4>2, <5>1 DEF Fresh, d
      <4>3. CASE s = t /\ e = d
        <5>1. cache'[s][e] = q.cached
          BY <1>2, <1>7, <1>8, <3>4, <4>3
        <5> QED
          BY <1>1, <1>5, <3>3, <3>4, <4>3, <5>1 DEF Fresh, d
      <4> QED
        BY <4>1, <4>2, <4>3
    <3>5. ASSUME NEW b \in Tab, SessionOf[b] = s, request'[b] # Idle
          PROVE  LET k == request'[b]
                 IN /\ k.domain # e /\ k.loaded[e] # NoList => Names(k.loaded[e]) = delegated[e]
                    /\ k.domain = e /\ k.cached # NoList => Names(k.cached) = delegated[e]
      <4>1. request'[b] = request[b] /\ Busy(b)
        BY <1>8, <3>5 DEF Busy
      <4> QED
        BY <3>3, <3>5, <4>1 DEF Fresh
    <3> QED
      BY <1>1, <3>4, <3>5 DEF Fresh, Busy, Names, NoList
  <2> QED
    BY <2>2, <2>3
<1> QED
  BY <1>9 DEF CopiesFresh

LEMMA CopiesKept ==
  ASSUME Inv, CopiesFresh, [Next]_vars
  PROVE  CopiesFresh'
<1>1. CASE UNCHANGED vars
  <2>1. UNCHANGED <<delegated, cache, request, behind>>
    BY <1>1 DEF vars
  <2>2. \A s, d : (ChangingIn(s, d)' <=> ChangingIn(s, d)) /\ (Fresh(s, d) => Fresh(s, d)')
    BY <2>1 DEF ChangingIn, Fresh, WorksOn, Busy, Changing, Changes, Added, Removed, Names, NoList
  <2> QED
    BY <2>1, <2>2 DEF CopiesFresh
<1>2. CASE Next
  BY <1>2, NextKinds, BeginsFresh, WorksFresh, EndsFresh
<1> QED
  BY <1>1, <1>2

\* No change leaves an old list in the session that made it, whatever its
\* tabs do meanwhile, nor in another session that had none.
THEOREM ListsStayCurrent == Spec => []ListsAreCurrent
<1>1. Init => CopiesFresh
  BY DEF Init, CopiesFresh, Fresh, Busy
<1>2. Inv /\ CopiesFresh /\ [Next]_vars => CopiesFresh'
  BY CopiesKept
<1>3. CopiesFresh => ListsAreCurrent
  BY DEF CopiesFresh, Fresh, ChangingIn, ListsAreCurrent
<1> QED
  BY <1>1, <1>2, <1>3, Invariance, PTL DEF Spec

=============================================================================
