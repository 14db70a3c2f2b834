---------------------------- MODULE DashboardProofs ----------------------------
(***************************************************************************)
(* What holds of Dashboard for every set of pages, forms, files, names,    *)
(* catalogues and windows: the configuration in effect means what its file *)
(* means, its names are clear, no save loses another one, and the settings *)
(* in effect are the ones a restart brings back.                           *)
(***************************************************************************)
EXTENDS Dashboard, FiniteSetTheorems, SequenceTheorems, TLAPS

-----------------------------------------------------------------------------
(* What is written *)

LEMMA WrittenServers ==
    ASSUME NEW s, IsServer(s)
    PROVE  /\ WrittenServer(s) = [id |-> s.id, port |-> s.port, scheme |-> SchemeOrDefault(s)]
           /\ IsServer(WrittenServer(s)) /\ WrittenServer(WrittenServer(s)) = WrittenServer(s)
<1> DEFINE i == s.id
           q == s.port
           c == s.scheme
           k == SchemeOrDefault(s)
           w == [id |-> i, port |-> q, scheme |-> k]
<1>1. s = [id |-> i, port |-> q, scheme |-> c]
  BY DEF IsServer
<1>2. WrittenServer(s) = [s EXCEPT !.scheme = k]
  BY DEF WrittenServer
<1>3. k # ""
  BY DEF SchemeOrDefault
<1> HIDE DEF i, q, c, k
<1>4. WrittenServer(s) = w
  BY <1>1, <1>2
<1>5. IsServer(w) /\ SchemeOrDefault(w) = k
  BY <1>3 DEF IsServer, SchemeOrDefault
<1>6. WrittenServer(w) = w
  BY <1>5 DEF WrittenServer
<1> QED
  BY <1>4, <1>5, <1>6 DEF i, q, k

LEMMA WrittenHosts ==
    ASSUME NEW h, IsHost(h)
    PROVE  /\ WrittenHost(h) = [id |-> h.id, addrs |-> h.addrs,
                                servers |-> {WrittenServer(s) : s \in h.servers}]
           /\ IsHost(WrittenHost(h)) /\ WrittenHost(WrittenHost(h)) = WrittenHost(h)
<1> DEFINE i == h.id
           a == h.addrs
           S == h.servers
           W == {WrittenServer(s) : s \in S}
           w == [id |-> i, addrs |-> a, servers |-> W]
<1>1. h = [id |-> i, addrs |-> a, servers |-> S] /\ \A s \in S : IsServer(s)
  BY DEF IsHost
<1>2. WrittenHost(h) = [h EXCEPT !.servers = W]
  BY DEF WrittenHost
<1>3. \A x \in W : IsServer(x) /\ WrittenServer(x) = x
  BY <1>1, WrittenServers
<1> HIDE DEF i, a, S, W
<1>4. WrittenHost(h) = w
  BY <1>1, <1>2
<1>5. IsHost(w)
  BY <1>3 DEF IsHost
<1>6. {WrittenServer(x) : x \in W} = W
  BY <1>3
<1>7. WrittenHost(w) = w
  BY <1>6 DEF WrittenHost
<1> QED
  BY <1>4, <1>5, <1>7 DEF i, a, S, W

LEMMA WrittenMembers ==
    ASSUME NEW m, IsMember(m)
    PROVE  /\ WrittenMember(m) = [model |-> m.model, cost |-> CostOrDefault(m)]
           /\ IsMember(WrittenMember(m)) /\ WrittenMember(WrittenMember(m)) = WrittenMember(m)
<1> DEFINE i == m.model
           c == m.cost
           k == CostOrDefault(m)
           w == [model |-> i, cost |-> k]
<1>1. m = [model |-> i, cost |-> c] /\ IsPublished(i)
  BY DEF IsMember
<1>2. WrittenMember(m) = [m EXCEPT !.cost = k]
  BY DEF WrittenMember
<1>3. \E n \in k : n > 0
  BY DEF CostOrDefault
<1> HIDE DEF i, c, k
<1>4. WrittenMember(m) = w
  BY <1>1, <1>2
<1>5. IsMember(w) /\ CostOrDefault(w) = k
  BY <1>1, <1>3 DEF IsMember, CostOrDefault
<1>6. WrittenMember(w) = w
  BY <1>5 DEF WrittenMember
<1> QED
  BY <1>4, <1>5, <1>6 DEF i, k

LEMMA WrittenRoutes ==
    ASSUME NEW r, IsRoute(r)
    PROVE  /\ WrittenRoute(r) = [alias |-> r.alias,
                                 members |-> [i \in DOMAIN r.members |-> WrittenMember(r.members[i])]]
           /\ IsRoute(WrittenRoute(r)) /\ WrittenRoute(WrittenRoute(r)) = WrittenRoute(r)
<1> DEFINE a == r.alias
           M == r.members
           W == [i \in DOMAIN M |-> WrittenMember(M[i])]
           w == [alias |-> a, members |-> W]
<1>1. r = [alias |-> a, members |-> M] /\ \A i \in DOMAIN M : IsMember(M[i])
  BY DEF IsRoute
<1>2. WrittenRoute(r) = [r EXCEPT !.members = W]
  BY DEF WrittenRoute
<1>3. DOMAIN W = DOMAIN M /\ \A i \in DOMAIN W : IsMember(W[i]) /\ WrittenMember(W[i]) = W[i]
  BY <1>1, WrittenMembers
<1>4. W = [i \in DOMAIN W |-> W[i]]
  OBVIOUS
<1> HIDE DEF a, M, W
<1>5. WrittenRoute(r) = w
  BY <1>1, <1>2
<1>6. IsRoute(w)
  BY <1>3 DEF IsRoute
<1>7. [i \in DOMAIN W |-> WrittenMember(W[i])] = W
  BY <1>3, <1>4
<1>8. WrittenRoute(w) = w
  BY <1>7 DEF WrittenRoute
<1> QED
  BY <1>5, <1>6, <1>8 DEF a, M, W

LEMMA WrittenEntries ==
    ASSUME NEW e, IsEntry(e)
    PROVE  /\ WrittenEntry(e) = [model |-> e.model, aliases |-> e.aliases,
                                 input |-> OrZero(e.input), output |-> OrZero(e.output)]
           /\ IsEntry(WrittenEntry(e)) /\ Claims(WrittenEntry(e)) = Claims(e)
           /\ e.input # {} /\ e.output # {} => WrittenEntry(e) = e
<1> DEFINE m == e.model
           a == e.aliases
           i == e.input
           o == e.output
           iz == OrZero(i)
           oz == OrZero(o)
           w == [model |-> m, aliases |-> a, input |-> iz, output |-> oz]
<1>1. e = [model |-> m, aliases |-> a, input |-> i, output |-> o]
  BY DEF IsEntry
<1>2. WrittenEntry(e) = [e EXCEPT !.input = iz, !.output = oz]
  BY DEF WrittenEntry
<1>3. (i # {} => iz = i) /\ (o # {} => oz = o)
  BY DEF OrZero
<1>4. Claims(e) = {m} \cup a
  BY DEF Claims
<1> HIDE DEF m, a, i, o, iz, oz
<1>5. WrittenEntry(e) = w
  BY <1>1, <1>2
<1>6. IsEntry(w) /\ Claims(w) = {m} \cup a
  BY DEF IsEntry, Claims
<1>7. i # {} /\ o # {} => w = e
  BY <1>1, <1>3
<1> QED
  BY <1>4, <1>5, <1>6, <1>7 DEF m, a, i, o, iz, oz

LEMMA WrittenSections ==
    ASSUME NEW p, IsPrices(p)
    PROVE  /\ IsPrices(WrittenPrices(p))
           /\ WrittenPrices(p).models = {WrittenEntry(e) : e \in p.models}
           /\ p = NoPrices \/ p.models # {} => WrittenPrices(p).currency = p.currency
           /\ (\A e \in p.models : e.input # {} /\ e.output # {}) =>
                  WrittenPrices(p).models = p.models
<1> DEFINE c == p.currency
           M == p.models
           W == {WrittenEntry(e) : e \in M}
           w == WrittenPrices(p)
<1>1. p = [currency |-> c, models |-> M] /\ c \in DOMAIN Upper /\ \A e \in M : IsEntry(e)
  BY DEF IsPrices
<1>2. w = IF M = {} THEN NoPrices ELSE [p EXCEPT !.models = W]
  BY DEF WrittenPrices
<1>3. (\A e \in W : IsEntry(e)) /\ (M = {} <=> W = {})
  BY <1>1, WrittenEntries
<1>4. (\A e \in M : e.input # {} /\ e.output # {}) => W = M
  <2> SUFFICES ASSUME \A e \in M : e.input # {} /\ e.output # {} PROVE W = M
    OBVIOUS
  <2>1. \A e \in M : WrittenEntry(e) = e
    BY <1>1, WrittenEntries
  <2> QED
    BY <2>1
<1>5. NoPrices = [currency |-> "none", models |-> {}]
  BY DEF NoPrices
<1>6. "none" \in DOMAIN Upper
  BY CurrencyAssumption
<1> HIDE DEF c, M, W, w
<1>7. w = IF M = {} THEN [currency |-> "none", models |-> {}] ELSE [currency |-> c, models |-> W]
  <2>1. CASE M = {}
    BY <1>2, <1>5, <2>1
  <2>2. CASE M # {}
    <3>1. w = [p EXCEPT !.models = W]
      BY <1>2, <2>2
    <3>2. p = [currency |-> c, models |-> M]
      BY <1>1
    <3>3. w = [currency |-> c, models |-> W]
      BY <3>1, <3>2
    <3> QED
      BY <2>2, <3>3
  <2> QED
    BY <2>1, <2>2
<1>8. w = [currency |-> w.currency, models |-> w.models] /\ w.models = W
  BY <1>3, <1>7
<1>9. p = NoPrices \/ M # {} => w.currency = c
  BY <1>1, <1>5, <1>7
<1>10. IsPrices(w)
  <2>1. w.currency \in DOMAIN Upper
    BY <1>1, <1>6, <1>7
  <2> QED
    BY <1>3, <1>8, <2>1 DEF IsPrices
<1> QED
  BY <1>4, <1>8, <1>9, <1>10 DEF w, W, M, c

LEMMA ParsedSections ==
    ASSUME NEW p, IsPrices(p)
    PROVE  /\ IsPrices(ParsedPrices(p)) /\ ParsedPrices(p).models = p.models
           /\ Upper[ParsedPrices(p).currency] = Upper[p.currency]
<1> DEFINE c == p.currency
           M == p.models
           u == Upper[c]
<1>1. p = [currency |-> c, models |-> M] /\ c \in DOMAIN Upper /\ \A e \in M : IsEntry(e)
  BY DEF IsPrices
<1>2. ParsedPrices(p) = [p EXCEPT !.currency = u]
  BY DEF ParsedPrices
<1>3. u \in DOMAIN Upper /\ Upper[u] = u
  BY <1>1, CurrencyAssumption
<1> HIDE DEF c, M, u
<1>4. ParsedPrices(p) = [currency |-> u, models |-> M]
  BY <1>1, <1>2
<1>5. IsPrices([currency |-> u, models |-> M])
  BY <1>1, <1>3 DEF IsPrices
<1> QED
  BY <1>3, <1>4, <1>5 DEF c, M, u

LEMMA WrittenDocuments ==
    ASSUME NEW d, IsDocument(d)
    PROVE  /\ IsDocument(Written(d))
           /\ Written(d).hosts = {WrittenHost(h) : h \in d.hosts}
           /\ Written(d).prices = WrittenPrices(d.prices)
           /\ Written(d).routes = {WrittenRoute(r) : r \in d.routes}
<1> DEFINE H == {WrittenHost(h) : h \in d.hosts}
           P == WrittenPrices(d.prices)
           R == {WrittenRoute(r) : r \in d.routes}
<1>1. (\A h \in H : IsHost(h)) /\ IsPrices(P) /\ (\A r \in R : IsRoute(r))
  BY WrittenHosts, WrittenSections, WrittenRoutes DEF IsDocument
<1>2. Written(d) = [hosts |-> H, prices |-> P, routes |-> R]
  BY DEF Written
<1> HIDE DEF H, P, R
<1>3. IsDocument([hosts |-> H, prices |-> P, routes |-> R])
  BY <1>1 DEF IsDocument
<1> QED
  BY <1>2, <1>3 DEF H, P, R

LEMMA ParsedDocuments ==
    ASSUME NEW d, IsDocument(d)
    PROVE  /\ IsDocument(Parsed(d))
           /\ Parsed(d).hosts = d.hosts /\ Parsed(d).routes = d.routes
           /\ Parsed(d).prices = ParsedPrices(d.prices)
<1> DEFINE H == d.hosts
           R == d.routes
           P == ParsedPrices(d.prices)
<1>1. /\ d = [hosts |-> H, prices |-> d.prices, routes |-> R]
      /\ (\A h \in H : IsHost(h)) /\ IsPrices(d.prices) /\ (\A r \in R : IsRoute(r))
  BY DEF IsDocument
<1>2. IsPrices(P) /\ Parsed(d) = [d EXCEPT !.prices = P]
  BY <1>1, ParsedSections DEF Parsed
<1> HIDE DEF H, R, P
<1>3. Parsed(d) = [hosts |-> H, prices |-> P, routes |-> R]
  BY <1>1, <1>2
<1>4. IsDocument([hosts |-> H, prices |-> P, routes |-> R])
  BY <1>1, <1>2 DEF IsDocument
<1> QED
  BY <1>3, <1>4 DEF H, R, P

\* A document means what parsing makes of it.
LEMMA ParsedMeans ==
    ASSUME NEW d, IsDocument(d)
    PROVE  Means(Parsed(d)) = Means(d)
<1> DEFINE w == Parsed(d)
<1>0. w.hosts = d.hosts /\ w.routes = d.routes /\ w.prices = ParsedPrices(d.prices)
  BY ParsedDocuments
<1>1. w.prices.models = d.prices.models /\ Upper[w.prices.currency] = Upper[d.prices.currency]
  BY <1>0, ParsedSections DEF IsDocument
<1> HIDE DEF w
<1>2. \A n \in Names : RatesOf(w.prices, n) = RatesOf(d.prices, n)
  BY <1>1 DEF RatesOf, Lookup
<1>3. [n \in Names |-> RatesOf(w.prices, n)] = [n \in Names |-> RatesOf(d.prices, n)]
  BY <1>2
<1>4. Means(w) = Means(d)
  BY <1>0, <1>1, <1>3 DEF Means
<1> QED
  BY <1>4 DEF w

\* What is written means what it was written from, but for a price without a rate
\* and a section without prices.
LEMMA WrittenMeans ==
    ASSUME NEW d, IsDocument(d), Complete(d)
    PROVE  Means(Written(d)) = Means(d)
<1> DEFINE w == Written(d)
<1>0. /\ w.hosts = {WrittenHost(h) : h \in d.hosts} /\ w.prices = WrittenPrices(d.prices)
      /\ w.routes = {WrittenRoute(r) : r \in d.routes}
  BY WrittenDocuments
<1> HIDE DEF w
<1>1. {WrittenHost(h) : h \in w.hosts} = {WrittenHost(h) : h \in d.hosts}
  BY <1>0, WrittenHosts DEF IsDocument
<1>2. {WrittenRoute(r) : r \in w.routes} = {WrittenRoute(r) : r \in d.routes}
  BY <1>0, WrittenRoutes DEF IsDocument
<1>3. w.prices.models = d.prices.models
  BY <1>0, WrittenSections DEF IsDocument, Complete
<1>4. \A n \in Names : RatesOf(w.prices, n) = RatesOf(d.prices, n)
  BY <1>3 DEF RatesOf, Lookup
<1>5. [n \in Names |-> RatesOf(w.prices, n)] = [n \in Names |-> RatesOf(d.prices, n)]
  BY <1>4
<1>6. w.prices.currency = d.prices.currency
  BY <1>0, WrittenSections DEF IsDocument, Complete
<1>7. Means(w) = Means(d)
  BY <1>1, <1>2, <1>5, <1>6 DEF Means
<1> QED
  BY <1>7 DEF w

-----------------------------------------------------------------------------
(* Clear names *)

\* ClearNames, without counting.
Clear(d) ==
    /\ \A n \in Names : \A e, f \in Lookup(d.prices, n) : e = f
    /\ \A h, g \in d.hosts :
           h = g \/ (AddressesOf(h) \cap AddressesOf(g) = {} /\ ~EqualFold(h.id, g.id))
    /\ \A r, q \in d.routes : EqualFold(r.alias, q.alias) => r = q
    /\ \A r \in d.routes : \A i \in DOMAIN r.members :
           LET id == r.members[i].model
           IN  \E h \in d.hosts : \E s \in h.servers : PublishID(BaseModelOf(id), s.id, h.id) = id

LEMMA ClearIsClear == ASSUME NEW d, Clear(d) PROVE ClearNames(d)
<1>1. ASSUME NEW n \in Names PROVE Cardinality(Lookup(d.prices, n)) <= 1
  <2> DEFINE L == Lookup(d.prices, n)
  <2>1. \A e, f \in L : e = f
    BY DEF Clear
  <2> HIDE DEF L
  <2>2. CASE L = {}
    BY <2>2, FS_EmptySet DEF L
  <2>3. CASE L # {}
    <3>1. PICK e : L = {e}
      BY <2>1, <2>3
    <3> QED
      BY <3>1, FS_Singleton DEF L
  <2> QED
    BY <2>2, <2>3
<1> QED
  BY <1>1 DEF Clear, ClearNames

\* A published id is what its two halves publish.
LEMMA Published ==
    ASSUME NEW id, IsPublished(id), Splits(id)
    PROVE  PublishID(BaseModelOf(id), SegmentOf(id), id.host) = id
<1> DEFINE h == id.head
<1>1. id = [head |-> h, host |-> id.host] /\ h \in Seq(Names) /\ Len(h) > 1
  BY DEF IsPublished, Splits
<1>2. Front(h) \o <<Last(h)>> = h
  BY <1>1 DEF Front, Last
<1> QED
  BY <1>1, <1>2 DEF PublishID, BaseModelOf, SegmentOf

\* What keeps the rules has clear names.
LEMMA RulesClear ==
    ASSUME NEW d, IsDocument(d), ValidHosts(d.hosts), ValidPrices(d.prices),
           ValidRoutes(d.routes, d.hosts)
    PROVE  Clear(d)
<1>1. ASSUME NEW n \in Names, NEW e \in Lookup(d.prices, n), NEW f \in Lookup(d.prices, n)
      PROVE  e = f
  <2>1. d.prices # NoPrices
    <3>1. e \in d.prices.models
      BY DEF Lookup
    <3>2. NoPrices.models = {}
      BY DEF NoPrices
    <3> QED
      BY <3>1, <3>2
  <2>2. Pairwise(d.prices.models, LAMBDA a, b : Claims(a) \cap Claims(b) = {})
    BY <2>1 DEF ValidPrices
  <2> QED
    BY <2>2 DEF Lookup, Pairwise
<1>2. \A h, g \in d.hosts :
           h = g \/ (AddressesOf(h) \cap AddressesOf(g) = {} /\ ~EqualFold(h.id, g.id))
  BY DEF ValidHosts, Pairwise
<1>3. \A r, q \in d.routes : EqualFold(r.alias, q.alias) => r = q
  BY DEF ValidRoutes, Pairwise
<1>4. ASSUME NEW r \in d.routes, NEW i \in DOMAIN r.members
      PROVE  \E h \in d.hosts : \E s \in h.servers :
                 PublishID(BaseModelOf(r.members[i].model), s.id, h.id) = r.members[i].model
  <2> DEFINE id == r.members[i].model
  <2>1. Splits(id) /\ KnownServer(d.hosts, id)
    BY DEF ValidRoutes, ValidMember
  <2>2. IsPublished(id)
    BY DEF IsDocument, IsRoute, IsMember
  <2> HIDE DEF id
  <2>3. \E h \in d.hosts : h.id = id.host /\ \E s \in h.servers : s.id = SegmentOf(id)
    BY <2>1 DEF KnownServer
  <2>4. PublishID(BaseModelOf(id), SegmentOf(id), id.host) = id
    BY <2>1, <2>2, Published
  <2>5. \E h \in d.hosts : \E s \in h.servers : PublishID(BaseModelOf(id), s.id, h.id) = id
    BY <2>3, <2>4
  <2> QED
    BY <2>5 DEF id
<1> QED
  BY <1>1, <1>2, <1>3, <1>4 DEF Clear

\* Names that are clear in what is written are clear in what it was written from.
LEMMA WrittenClear ==
    ASSUME NEW d, IsDocument(d), Apart(d), Clear(Written(d))
    PROVE  Clear(d)
<1> DEFINE w == Written(d)
<1>0. /\ w.hosts = {WrittenHost(h) : h \in d.hosts} /\ w.prices = WrittenPrices(d.prices)
      /\ w.routes = {WrittenRoute(r) : r \in d.routes}
  BY WrittenDocuments
<1>1. Clear(w)
  OBVIOUS
<1> HIDE DEF w
<1>2. ASSUME NEW n \in Names, NEW e \in Lookup(d.prices, n), NEW f \in Lookup(d.prices, n)
      PROVE  e = f
  <2>1. e \in d.prices.models /\ f \in d.prices.models /\ IsEntry(e) /\ IsEntry(f)
    BY DEF Lookup, IsDocument, IsPrices
  <2>2. w.prices.models = {WrittenEntry(x) : x \in d.prices.models}
    BY <1>0, WrittenSections DEF IsDocument
  <2>3. WrittenEntry(e) \in Lookup(w.prices, n) /\ WrittenEntry(f) \in Lookup(w.prices, n)
    BY <2>1, <2>2, WrittenEntries DEF Lookup
  <2>4. WrittenEntry(e) = WrittenEntry(f)
    BY <1>1, <2>3 DEF Clear
  <2> QED
    BY <2>1, <2>4 DEF Apart
<1>3. ASSUME NEW h \in d.hosts
      PROVE  /\ WrittenHost(h) \in w.hosts /\ WrittenHost(h).id = h.id
             /\ AddressesOf(WrittenHost(h)) = AddressesOf(h)
  BY <1>0, WrittenHosts DEF IsDocument, AddressesOf
<1>4. ASSUME NEW h \in d.hosts, NEW g \in d.hosts, h # g
      PROVE  AddressesOf(h) \cap AddressesOf(g) = {} /\ ~EqualFold(h.id, g.id)
  <2>1. WrittenHost(h) # WrittenHost(g)
    BY <1>4 DEF Apart
  <2> QED
    BY <1>1, <1>3, <2>1 DEF Clear
<1>5. ASSUME NEW r \in d.routes
      PROVE  /\ WrittenRoute(r) \in w.routes /\ WrittenRoute(r).alias = r.alias
             /\ DOMAIN WrittenRoute(r).members = DOMAIN r.members
             /\ \A i \in DOMAIN r.members : WrittenRoute(r).members[i].model = r.members[i].model
  <2>1. IsRoute(r)
    BY DEF IsDocument
  <2>2. WrittenRoute(r) = [alias |-> r.alias,
                           members |-> [i \in DOMAIN r.members |-> WrittenMember(r.members[i])]]
    BY <2>1, WrittenRoutes
  <2>3. \A i \in DOMAIN r.members : WrittenMember(r.members[i]).model = r.members[i].model
    BY <2>1, WrittenMembers DEF IsRoute
  <2> QED
    BY <1>0, <2>2, <2>3
<1>6. ASSUME NEW r \in d.routes, NEW q \in d.routes, EqualFold(r.alias, q.alias) PROVE r = q
  <2>1. WrittenRoute(r) = WrittenRoute(q)
    BY <1>1, <1>5, <1>6 DEF Clear
  <2> QED
    BY <2>1 DEF Apart
<1>7. ASSUME NEW r \in d.routes, NEW i \in DOMAIN r.members
      PROVE  \E h \in d.hosts : \E s \in h.servers :
                 PublishID(BaseModelOf(r.members[i].model), s.id, h.id) = r.members[i].model
  <2> DEFINE id == r.members[i].model
  <2>1. \E k \in w.hosts : \E t \in k.servers : PublishID(BaseModelOf(id), t.id, k.id) = id
    BY <1>1, <1>5 DEF Clear
  <2> HIDE DEF id
  <2>2. PICK h \in d.hosts :
            \E t \in WrittenHost(h).servers : PublishID(BaseModelOf(id), t.id, WrittenHost(h).id) = id
    BY <1>0, <2>1
  <2>3. IsHost(h)
    BY DEF IsDocument
  <2>4. PICK s \in h.servers : PublishID(BaseModelOf(id), WrittenServer(s).id, h.id) = id
    BY <2>2, <2>3, WrittenHosts
  <2>5. WrittenServer(s).id = s.id
    BY <2>3, WrittenServers DEF IsHost
  <2>6. \E g \in d.hosts : \E t \in g.servers : PublishID(BaseModelOf(id), t.id, g.id) = id
    BY <2>4, <2>5
  <2> QED
    BY <2>6 DEF id
<1> QED
  BY <1>2, <1>4, <1>6, <1>7 DEF Clear

-----------------------------------------------------------------------------
(* What an action makes of a document *)

LEMMA HostsChanged ==
    ASSUME NEW d, IsDocument(d), NEW H, \A h \in H : IsHost(h)
    PROVE  IsDocument([d EXCEPT !.hosts = H])
<1> DEFINE P == d.prices
           R == d.routes
<1>1. d = [hosts |-> d.hosts, prices |-> P, routes |-> R] /\ IsPrices(P) /\ \A r \in R : IsRoute(r)
  BY DEF IsDocument
<1> HIDE DEF P, R
<1>2. [d EXCEPT !.hosts = H] = [hosts |-> H, prices |-> P, routes |-> R]
  BY <1>1
<1>3. IsDocument([hosts |-> H, prices |-> P, routes |-> R])
  BY <1>1 DEF IsDocument
<1> QED
  BY <1>2, <1>3

LEMMA PricesChanged ==
    ASSUME NEW d, IsDocument(d), NEW P, IsPrices(P)
    PROVE  IsDocument([d EXCEPT !.prices = P]) /\ [d EXCEPT !.prices = P].prices = P
<1> DEFINE H == d.hosts
           R == d.routes
<1>1. d = [hosts |-> H, prices |-> d.prices, routes |-> R] /\ (\A h \in H : IsHost(h))
      /\ \A r \in R : IsRoute(r)
  BY DEF IsDocument
<1> HIDE DEF H, R
<1>2. [d EXCEPT !.prices = P] = [hosts |-> H, prices |-> P, routes |-> R]
  BY <1>1
<1>3. IsDocument([hosts |-> H, prices |-> P, routes |-> R])
  BY <1>1 DEF IsDocument
<1> QED
  BY <1>2, <1>3

LEMMA RoutesChanged ==
    ASSUME NEW d, IsDocument(d), NEW R, \A r \in R : IsRoute(r)
    PROVE  IsDocument([d EXCEPT !.routes = R])
<1> DEFINE H == d.hosts
           P == d.prices
<1>1. d = [hosts |-> H, prices |-> P, routes |-> d.routes] /\ (\A h \in H : IsHost(h)) /\ IsPrices(P)
  BY DEF IsDocument
<1> HIDE DEF H, P
<1>2. [d EXCEPT !.routes = R] = [hosts |-> H, prices |-> P, routes |-> R]
  BY <1>1
<1>3. IsDocument([hosts |-> H, prices |-> P, routes |-> R])
  BY <1>1 DEF IsDocument
<1> QED
  BY <1>2, <1>3

LEMMA ServersChanged ==
    ASSUME NEW h, IsHost(h), NEW S, \A s \in S : IsServer(s)
    PROVE  IsHost([h EXCEPT !.servers = S])
<1> DEFINE i == h.id
           a == h.addrs
<1>1. h = [id |-> i, addrs |-> a, servers |-> h.servers]
  BY DEF IsHost
<1> HIDE DEF i, a
<1>2. [h EXCEPT !.servers = S] = [id |-> i, addrs |-> a, servers |-> S]
  BY <1>1
<1>3. IsHost([id |-> i, addrs |-> a, servers |-> S])
  BY DEF IsHost
<1> QED
  BY <1>2, <1>3

\* The rates of the catalogue go to an entry that is there, which then keeps its
\* names, or to a new one, and no other entry is touched.
LEMMA CatalogChanges ==
    ASSUME NEW d, IsDocument(d), NEW f
    PROVE  /\ IsDocument(CatalogApplied(d, f))
           /\ Lookup(d.prices, f.model) \cup Lookup(d.prices, FirstMatch(f.model).model) = {} =>
                  d.prices.models \subseteq CatalogApplied(d, f).prices.models
<1> DEFINE rate == FirstMatch(f.model)
           p == IF d.prices = NoPrices THEN [NoPrices EXCEPT !.currency = "USD"] ELSE d.prices
           same == Lookup(p, f.model) \cup Lookup(p, rate.model)
           old == {e \in same : \A g \in same : ~Before(g, e)}
           Rated(e) == [e EXCEPT !.input = rate.input, !.output = rate.output]
           fresh == [model |-> f.model, aliases |-> {}, input |-> rate.input, output |-> rate.output]
           new == IF old # {} THEN {Rated(e) : e \in old} ELSE {fresh}
           M == (p.models \ old) \cup new
           q == [p EXCEPT !.models = M]
<1>1. CatalogApplied(d, f) = [d EXCEPT !.prices = q]
  BY Zenon DEF CatalogApplied
<1>2. IsPrices(p) /\ p.models = d.prices.models
  <2>1. CASE d.prices = NoPrices
    <3>1. p = [currency |-> "USD", models |-> {}]
      BY <2>1 DEF NoPrices
    <3>2. NoPrices.models = {}
      BY DEF NoPrices
    <3>3. p.models = {} /\ d.prices.models = {}
      <4> HIDE DEF p
      <4> QED
        BY <2>1, <3>1, <3>2
    <3>4. "USD" \in DOMAIN Upper
      BY CurrencyAssumption
    <3> QED
      BY <3>1, <3>3, <3>4 DEF IsPrices
  <2>2. CASE d.prices # NoPrices
    BY <2>2 DEF IsDocument
  <2> QED
    BY <2>1, <2>2
<1>3. old \subseteq p.models
  BY DEF Lookup
<1>4. same = Lookup(d.prices, f.model) \cup Lookup(d.prices, rate.model)
  BY <1>2 DEF Lookup
<1>5. ASSUME NEW e, IsEntry(e) PROVE IsEntry(Rated(e))
  <2> DEFINE m == e.model
             a == e.aliases
             v == e.input
             w == e.output
             i == rate.input
             o == rate.output
  <2>1. e = [model |-> m, aliases |-> a, input |-> v, output |-> w]
    BY <1>5 DEF IsEntry
  <2>2. Rated(e) = [e EXCEPT !.input = i, !.output = o]
    OBVIOUS
  <2> HIDE DEF m, a, v, w, i, o, Rated
  <2> DEFINE g == [model |-> m, aliases |-> a, input |-> i, output |-> w]
  <2>3. [e EXCEPT !.input = i, !.output = o] = [model |-> m, aliases |-> a, input |-> i, output |-> o]
    <3>1. [e EXCEPT !.input = i] = g
      BY <2>1
    <3>2. [g EXCEPT !.output = o] = [model |-> m, aliases |-> a, input |-> i, output |-> o]
      OBVIOUS
    <3> HIDE DEF g
    <3> QED
      BY <3>1, <3>2
  <2>4. Rated(e) = [model |-> m, aliases |-> a, input |-> i, output |-> o]
    BY <2>2, <2>3, Zenon
  <2> QED
    BY <2>4 DEF IsEntry
<1>6. IsEntry(fresh)
  BY DEF IsEntry
<1> HIDE DEF p, same, Rated, fresh, rate
<1>7. \A e \in M : IsEntry(e)
  BY <1>2, <1>3, <1>5, <1>6 DEF IsPrices
<1>8. same = {} => p.models \subseteq M
  OBVIOUS
<1> HIDE DEF M
<1>9. IsPrices(q) /\ q.models = M
  <2> DEFINE c == p.currency
  <2>1. p = [currency |-> c, models |-> p.models] /\ c \in DOMAIN Upper
    BY <1>2 DEF IsPrices
  <2> HIDE DEF c
  <2>2. q = [currency |-> c, models |-> M]
    BY <2>1
  <2> QED
    BY <1>7, <2>1, <2>2 DEF IsPrices
<1> HIDE DEF q
<1>10. IsDocument(CatalogApplied(d, f)) /\ CatalogApplied(d, f).prices = q
  BY <1>1, <1>9, PricesChanged
<1> QED
  BY <1>2, <1>4, <1>8, <1>9, <1>10 DEF rate

\* Every action makes a document of a document.
LEMMA AppliedDocument ==
    ASSUME NEW d, IsDocument(d), NEW f \in Posts, f.act \in Sections
    PROVE  IsDocument(Applied(d, f))
<1>0. \A h \in d.hosts : IsHost(h) /\ \A s \in h.servers : IsServer(s)
  BY DEF IsDocument, IsHost
<1>1. CASE f.act = "host/save"
  <2>1. IsHost(f.host) /\ \A s \in f.host.servers : IsServer(s)
    BY <1>1, ParsedAssumption DEF IsHost
  <2> DEFINE S == IF f.json \/ f.host.servers # {} THEN f.host.servers
                  ELSE UNION {h.servers : h \in OldHosts(d, f)}
  <2>2. \A s \in S : IsServer(s)
    BY <1>0, <2>1 DEF OldHosts
  <2>3. NewHost(d, f) = [f.host EXCEPT !.servers = S]
    BY DEF NewHost
  <2> HIDE DEF S
  <2>4. IsHost(NewHost(d, f))
    BY <2>1, <2>2, <2>3, ServersChanged
  <2> DEFINE H == Replace(d.hosts, OldHosts(d, f), NewHost(d, f))
  <2>5. \A h \in H : IsHost(h)
    BY <1>0, <2>4 DEF Replace
  <2>6. Applied(d, f) = HostSaved(d, f)
    BY <1>1 DEF Applied
  <2>7. HostSaved(d, f) = [d EXCEPT !.hosts = H]
    BY DEF HostSaved
  <2> HIDE DEF H
  <2> QED
    BY <2>5, <2>6, <2>7, HostsChanged
<1>2. CASE f.act = "host/delete"
  <2> DEFINE H == {g \in d.hosts : ~EqualFold(g.id, f.id)}
  <2>1. \A h \in H : IsHost(h)
    BY <1>0
  <2>2. Applied(d, f) = HostDeleted(d, f)
    BY <1>2 DEF Applied
  <2>3. HostDeleted(d, f) = [d EXCEPT !.hosts = H]
    BY DEF HostDeleted
  <2> HIDE DEF H
  <2> QED
    BY <2>1, <2>2, <2>3, HostsChanged
<1>3. CASE f.act = "server/save"
  <2> DEFINE S(h) == Replace(h.servers, OldServers(h, f), f.server)
             C(h) == IF EqualFold(h.id, f.host) THEN [h EXCEPT !.servers = S(h)] ELSE h
             H == {C(h) : h \in d.hosts}
  <2>1. IsServer(f.server)
    BY <1>3, ParsedAssumption
  <2>2. \A h \in d.hosts : \A s \in S(h) : IsServer(s)
    BY <1>0, <2>1 DEF Replace
  <2>3. Applied(d, f) = ServerSaved(d, f)
    BY <1>3 DEF Applied
  <2>4. ServerSaved(d, f) = [d EXCEPT !.hosts = H]
    BY DEF ServerSaved, OnHost
  <2> HIDE DEF S
  <2>5. \A h \in d.hosts : IsHost(C(h))
    BY <1>0, <2>2, ServersChanged
  <2> HIDE DEF C
  <2>6. \A h \in H : IsHost(h)
    BY <2>5
  <2> HIDE DEF H
  <2> QED
    BY <2>3, <2>4, <2>6, HostsChanged
<1>4. CASE f.act = "server/delete"
  <2> DEFINE S(h) == {s \in h.servers : s.id # f.id}
             C(h) == IF EqualFold(h.id, f.host) THEN [h EXCEPT !.servers = S(h)] ELSE h
             H == {C(h) : h \in d.hosts}
  <2>1. \A h \in d.hosts : \A s \in S(h) : IsServer(s)
    BY <1>0
  <2>2. Applied(d, f) = ServerDeleted(d, f)
    BY <1>4 DEF Applied
  <2>3. ServerDeleted(d, f) = [d EXCEPT !.hosts = H]
    BY DEF ServerDeleted, OnHost
  <2> HIDE DEF S
  <2>4. \A h \in d.hosts : IsHost(C(h))
    BY <1>0, <2>1, ServersChanged
  <2> HIDE DEF C
  <2>5. \A h \in H : IsHost(h)
    BY <2>4
  <2> HIDE DEF H
  <2> QED
    BY <2>2, <2>3, <2>5, HostsChanged
<1>5. CASE f.act = "prices/save"
  <2>1. IsPrices(SectionOf(f))
    BY <1>5, ParsedAssumption
  <2>2. Applied(d, f) = PricesSaved(d, f)
    BY <1>5 DEF Applied
  <2> QED
    BY <2>1, <2>2, PricesChanged DEF PricesSaved
<1>6. CASE f.act = "catalog/apply"
  <2>1. Applied(d, f) = CatalogApplied(d, f)
    BY <1>6 DEF Applied
  <2> QED
    BY <2>1, CatalogChanges
<1>7. CASE f.act = "route/save"
  <2>1. IsRoute(RouteOf(f))
    BY <1>7, ParsedAssumption
  <2> DEFINE R == Replace(d.routes, OldRoutes(d, f), RouteOf(f))
  <2>2. \A r \in R : IsRoute(r)
    BY <2>1 DEF Replace, IsDocument
  <2>3. Applied(d, f) = RouteSaved(d, f)
    BY <1>7 DEF Applied
  <2>4. RouteSaved(d, f) = [d EXCEPT !.routes = R]
    BY DEF RouteSaved
  <2> HIDE DEF R
  <2> QED
    BY <2>2, <2>3, <2>4, RoutesChanged
<1>8. CASE f.act = "route/delete"
  <2> DEFINE R == {q \in d.routes : ~EqualFold(q.alias, f.alias)}
  <2>1. \A r \in R : IsRoute(r)
    BY DEF IsDocument
  <2>2. Applied(d, f) = RouteDeleted(d, f)
    BY <1>8 DEF Applied
  <2>3. RouteDeleted(d, f) = [d EXCEPT !.routes = R]
    BY DEF RouteDeleted
  <2> HIDE DEF R
  <2> QED
    BY <2>1, <2>2, <2>3, RoutesChanged
<1> QED
  BY <1>1, <1>2, <1>3, <1>4, <1>5, <1>6, <1>7, <1>8 DEF Sections

-----------------------------------------------------------------------------
(* Requests, imports and the configuration in effect *)

IsRequest(r) ==
    /\ r = [pc |-> r.pc, post |-> r.post, draft |-> r.draft, from |-> r.from]
    /\ r.pc \in {"idle", "checked", "drafted"}
    /\ IsDocument(r.draft)
    /\ r.pc = "checked" => r.from = {} /\ r.post \in Posts /\ r.post.act \in Sections
    /\ \A i \in r.from : IsDocument(i.cfg) /\ r.draft = i.cfg

DocTypes ==
    /\ DOMAIN page = Pages /\ DOMAIN req = Pages /\ DOMAIN staged = Pages
    /\ crashes \in Nat
    /\ IsDocument(file.doc) /\ IsDocument(known.doc) /\ IsDocument(live)
    /\ \A p \in Pages : IsRequest(req[p]) /\ \A i \in staged[p] : IsDocument(i.cfg)

\* The hash a page or an import carries is of a file that is or was in effect. While
\* it is the one in effect, and has not come back, the configuration has not changed
\* since: what was checked against it, copied from it or previewed still holds.
Fresh(h) == h = known /\ known \notin past
CurrentForm(p) ==
    /\ page[p] \in past \cup {known}
    /\ Fresh(page[p]) /\ req[p].pc = "checked" => Answerable(live, req[p].post)
    /\ Fresh(page[p]) /\ req[p].pc = "drafted" /\ req[p].post.act \in Sections =>
           Answerable(live, req[p].post) /\ req[p].draft = Applied(live, req[p].post)
CurrentImports(p) ==
    \A i \in staged[p] \cup req[p].from :
        /\ i.hash \in past \cup {known}
        /\ Fresh(i.hash) => i.preview = Preview(live, i.cfg)
CurrentInv == \A p \in Pages : CurrentForm(p) /\ CurrentImports(p)

LEMMA EmptyDocument == IsDocument(Empty) /\ Clear(Empty)
BY CurrencyAssumption DEF IsDocument, Empty, NoPrices, IsPrices, Clear, Lookup

LEMMA NoRequests == IsRequest(NoRequest) /\ NoRequest.pc = "idle" /\ NoRequest.from = {}
BY EmptyDocument DEF IsRequest, NoRequest, Request

\* A request is made of its parts.
LEMMA Requests ==
    ASSUME NEW c \in {"checked", "drafted"}, NEW f, NEW d, IsDocument(d), NEW F,
           \A i \in F : IsDocument(i.cfg) /\ d = i.cfg,
           c = "checked" => F = {} /\ f \in Posts /\ f.act \in Sections
    PROVE  /\ IsRequest(Request(c, f, d, F))
           /\ Request(c, f, d, F).pc = c /\ Request(c, f, d, F).post = f
           /\ Request(c, f, d, F).draft = d /\ Request(c, f, d, F).from = F
BY DEF IsRequest, Request

\* Everything the settings do leaves the document alone.
LEMMA Steps ==
    ASSUME [Next]_vars
    PROVE  \/ UNCHANGED <<documentVars, crashes>>
           \/ \E p \in Pages : OpenPage(p) \/ Post(p) \/ Clone(p) \/ SaveDraft(p)
           \/ HandEdit \/ Poll \/ Restart
<1>1. ASSUME NEW p \in Pages, SettingsPost(p), UNCHANGED documentVars
      PROVE  UNCHANGED <<documentVars, crashes>>
  BY <1>1 DEF SettingsPost, SettingsSave, DebugSave
<1>2. ASSUME NEW u \in Updaters, Update(u), UNCHANGED documentVars
      PROVE  UNCHANGED <<documentVars, crashes>>
  BY <1>2 DEF Update, UpdateRead, UpdatePersist, UpdateFails, UpdateSwap
<1>3. ASSUME Expire \/ Tick, UNCHANGED documentVars PROVE UNCHANGED <<documentVars, crashes>>
  BY <1>3 DEF Expire, Tick
<1>4. CASE UNCHANGED vars
  BY <1>4 DEF vars
<1> QED
  BY <1>1, <1>2, <1>3, <1>4 DEF Next

LEMMA ReadDocument ==
    ASSUME NEW t, IsDocument(t.doc), NEW d, IsDocument(d)
    PROVE  IsDocument(Read(t, d))
BY ParsedDocuments DEF Read

LEMMA CanonicalDocument == ASSUME NEW d, IsDocument(d) PROVE Canonical(d).doc = Written(d)
BY DEF Canonical, Text

LEMMA DocTypesStep == ASSUME DocTypes, [Next]_vars PROVE DocTypes'
<1> USE DEF DocTypes
<1>1. CASE UNCHANGED <<documentVars, crashes>>
  BY <1>1 DEF documentVars, IsRequest
<1>2. ASSUME NEW p \in Pages, OpenPage(p) PROVE DocTypes'
  BY <1>2 DEF OpenPage, IsRequest
<1>3. ASSUME NEW p \in Pages, NEW f \in Posts, PostSection(p, f) PROVE DocTypes'
  <2>1. IsRequest(Request("checked", f, Empty, {}))
    BY <1>3, EmptyDocument, Requests DEF PostSection
  <2>2. \A q \in Pages : IsRequest(req'[q])
    BY <1>3, <2>1 DEF PostSection
  <2> QED
    BY <1>3, <2>2 DEF PostSection, Posting
<1>4. ASSUME NEW p \in Pages, NEW f \in Posts, PostDocument(p, f) PROVE DocTypes'
  <2>0. IsDocument(Parsed(f.text.doc))
    BY <1>4, ParsedAssumption, ParsedDocuments DEF PostDocument
  <2>1. IsRequest(Request("drafted", f, Parsed(f.text.doc), {}))
    BY <2>0, Requests
  <2>2. \A q \in Pages : IsRequest(req'[q])
    BY <1>4, <2>1 DEF PostDocument
  <2> QED
    BY <1>4, <2>2 DEF PostDocument, Posting
<1>5. ASSUME NEW p \in Pages, NEW f \in Posts, PostImport(p, f) PROVE DocTypes'
  <2>1. IsDocument(Parsed(f.text.doc))
    BY <1>5, ParsedAssumption, ParsedDocuments DEF PostImport
  <2>2. \A q \in Pages : \A i \in staged'[q] : IsDocument(i.cfg)
    BY <1>5, <2>1 DEF PostImport
  <2> QED
    BY <1>5, <2>2 DEF PostImport, Posting
<1>6. ASSUME NEW p \in Pages, NEW f \in Posts, PostApply(p, f) PROVE DocTypes'
  <2>1. \A i \in staged[p] : IsRequest(Request("drafted", f, i.cfg, {i}))
    BY Requests
  <2>2. \A q \in Pages : IsRequest(req'[q])
    BY <1>6, <2>1 DEF PostApply
  <2> QED
    BY <1>6, <2>2 DEF PostApply, Posting
<1>7. ASSUME NEW p \in Pages, Clone(p) PROVE DocTypes'
  <2>1. IsDocument(Applied(live, req[p].post)) /\ req[p].from = {}
    BY <1>7, AppliedDocument DEF Clone, IsRequest
  <2>2. IsRequest(Request("drafted", req[p].post, Applied(live, req[p].post), req[p].from))
    BY <2>1, Requests
  <2>3. \A q \in Pages : IsRequest(req'[q])
    BY <1>7, <2>2, NoRequests DEF Clone
  <2> QED
    BY <1>7, <2>3 DEF Clone
<1>8. ASSUME NEW p \in Pages, SaveDraft(p) PROVE DocTypes'
  <2> DEFINE d == req[p].draft
  <2>1. \A q \in Pages : IsRequest(req'[q])
    BY <1>8, NoRequests DEF SaveDraft
  <2>2. IsDocument(d) /\ IsDocument(Canonical(d).doc)
    BY CanonicalDocument, WrittenDocuments DEF IsRequest
  <2>3. /\ file' = file \/ file' = Canonical(d)
        /\ known' = known \/ known' = Canonical(d)
        /\ live' = live \/ live' = d
    BY <1>8 DEF SaveDraft, Commit
  <2>4. IsDocument(file'.doc) /\ IsDocument(known'.doc) /\ IsDocument(live')
    BY <2>2, <2>3
  <2> QED
    BY <1>8, <2>1, <2>4 DEF SaveDraft
<1>9. CASE HandEdit
  BY <1>9, ParsedAssumption DEF HandEdit, IsRequest
<1>10. CASE Poll
  BY <1>10, ReadDocument DEF Poll, IsRequest
<1>11. CASE Restart
  <2>1. IsDocument(live')
    BY <1>11, EmptyDocument, ReadDocument DEF Restart
  <2> QED
    BY <1>11, <2>1, NoRequests DEF Restart
<1> QED
  BY <1>1, <1>2, <1>3, <1>4, <1>5, <1>6, <1>7, <1>8, <1>9, <1>10, <1>11, Steps DEF Post

\* The three ways in which the configuration in effect and the hash that is known
\* change: together.
LEMMA LiveChanges ==
    ASSUME DocTypes, [Next]_vars
    PROVE  \/ UNCHANGED <<known, live>>
           \/ \E d : /\ IsDocument(d) /\ Apart(d) /\ Valid(Canonical(d))
                     /\ known' = Canonical(d) /\ live' = d
           \/ known' = file /\ (live' = Read(file, live) \/ live' = Read(file, Empty))
<1>1. ASSUME NEW p \in Pages, SaveDraft(p), ~UNCHANGED <<known, live>>
      PROVE  \E d : /\ IsDocument(d) /\ Apart(d) /\ Valid(Canonical(d))
                    /\ known' = Canonical(d) /\ live' = d
  <2> WITNESS req[p].draft
  <2> QED
    BY <1>1 DEF SaveDraft, Commit, DocTypes, IsRequest
<1>2. ASSUME NEW p \in Pages, OpenPage(p) \/ Post(p) \/ Clone(p) PROVE UNCHANGED <<known, live>>
  BY <1>2 DEF OpenPage, Post, PostSection, PostDocument, PostImport, PostApply, Posting, Clone
<1>3. CASE HandEdit
  BY <1>3 DEF HandEdit
<1>4. CASE Poll \/ Restart
  BY <1>4 DEF Poll, Restart
<1>5. CASE UNCHANGED <<documentVars, crashes>>
  BY <1>5 DEF documentVars
<1> QED
  BY <1>1, <1>2, <1>3, <1>4, <1>5, Steps

\* What is written keeps the rules, so what it was written from has clear names.
LEMMA SavedIsClear ==
    ASSUME NEW d, IsDocument(d), Apart(d), Valid(Canonical(d))
    PROVE  Clear(d)
<1>1. IsDocument(Written(d))
  BY WrittenDocuments
<1>2. /\ ValidHosts(Written(d).hosts) /\ ValidPrices(Written(d).prices)
      /\ ValidRoutes(Written(d).routes, Written(d).hosts)
  BY CanonicalDocument DEF Valid
<1>3. Clear(Written(d))
  BY <1>1, <1>2, RulesClear
<1> QED
  BY <1>3, WrittenClear

LEMMA ReadIsClear ==
    ASSUME NEW t, IsDocument(t.doc), NEW d, Clear(d)
    PROVE  Clear(Read(t, d))
<1>1. ASSUME Valid(t) PROVE Clear(Parsed(t.doc))
  <2>1. Clear(t.doc)
    BY <1>1, RulesClear DEF Valid
  <2>2. /\ Parsed(t.doc).hosts = t.doc.hosts /\ Parsed(t.doc).routes = t.doc.routes
        /\ Parsed(t.doc).prices.models = t.doc.prices.models
    BY ParsedDocuments, ParsedSections DEF IsDocument
  <2> QED
    BY <2>1, <2>2 DEF Clear, Lookup
<1> QED
  BY <1>1 DEF Read

LEMMA DocTypesInit == Init => DocTypes
<1> SUFFICES ASSUME Init PROVE DocTypes
  OBVIOUS
<1>1. IsDocument(file.doc) /\ IsDocument(live)
  BY ParsedAssumption, EmptyDocument, ReadDocument DEF Init
<1>2. crashes \in Nat
  BY DEF Init, SettingsInit
<1> QED
  BY <1>1, <1>2, NoRequests DEF Init, DocTypes

\* Whatever is posted, saved, edited, polled and restarted: unless the file is not
\* valid, a price has no rate or a price section no price, what is in effect means
\* what a read of the file would put in effect.
THEOREM LiveMeansItsFile == Spec => []LiveMatchesFile
<1>1. Init => LiveMatchesFile
  BY DEF Init, Read, LiveMatchesFile
<1>2. DocTypes /\ LiveMatchesFile /\ [Next]_vars => LiveMatchesFile'
  <2> SUFFICES ASSUME DocTypes, LiveMatchesFile, [Next]_vars PROVE LiveMatchesFile'
    OBVIOUS
  <2>1. CASE UNCHANGED <<known, live>>
    BY <2>1 DEF LiveMatchesFile
  <2>2. ASSUME NEW d, IsDocument(d), known' = Canonical(d), live' = d PROVE LiveMatchesFile'
    <3>1. known'.doc = Written(d) /\ IsDocument(Written(d))
      BY <2>2, CanonicalDocument, WrittenDocuments
    <3>2. Means(Parsed(known'.doc)) = Means(Written(d))
      BY <3>1, ParsedMeans
    <3>3. Complete(d) => Means(Written(d)) = Means(d)
      BY <2>2, WrittenMeans
    <3> QED
      BY <2>2, <3>2, <3>3 DEF LiveMatchesFile
  <2>3. CASE known' = file /\ (live' = Read(file, live) \/ live' = Read(file, Empty))
    BY <2>3 DEF LiveMatchesFile, Read
  <2> QED
    BY <2>1, <2>2, <2>3, LiveChanges
<1>3. DocTypes /\ [Next]_vars => DocTypes'
  BY DocTypesStep
<1> QED
  BY <1>1, <1>2, <1>3, DocTypesInit, PTL DEF Spec

\* No edit by hand and no sequence of saves of single sections puts a configuration
\* in effect in which a name means two things or a route points to nothing.
THEOREM NamesStayClear == Spec => []NamesAreClear
<1> DEFINE LiveIsClear == Clear(live)
<1>1. Init => LiveIsClear
  BY ParsedAssumption, EmptyDocument, ReadIsClear DEF Init
<1>2. DocTypes /\ LiveIsClear /\ [Next]_vars => LiveIsClear'
  <2> SUFFICES ASSUME DocTypes, Clear(live), [Next]_vars PROVE Clear(live')
    BY DEF Clear
  <2>1. CASE UNCHANGED <<known, live>>
    BY <2>1
  <2>2. ASSUME NEW d, IsDocument(d), Apart(d), Valid(Canonical(d)), live' = d PROVE Clear(live')
    BY <2>2, SavedIsClear
  <2>3. CASE live' = Read(file, live) \/ live' = Read(file, Empty)
    BY <2>3, EmptyDocument, ReadIsClear DEF DocTypes
  <2> QED
    BY <2>1, <2>2, <2>3, LiveChanges
<1>3. LiveIsClear => NamesAreClear
  BY ClearIsClear DEF NamesAreClear
<1>4. DocTypes /\ [Next]_vars => DocTypes'
  BY DocTypesStep
<1> HIDE DEF LiveIsClear
<1> QED
  BY <1>1, <1>2, <1>3, <1>4, DocTypesInit, PTL DEF Spec

\* What nobody touches stays as current as it was.
LEMMA CurrentKept ==
    ASSUME CurrentInv, UNCHANGED <<known, live, past>>, NEW p \in Pages
    PROVE  /\ UNCHANGED <<page[p], req[p]>> => CurrentForm(p)'
           /\ UNCHANGED <<staged[p], req[p]>> => CurrentImports(p)'
BY DEF CurrentInv, CurrentForm, CurrentImports, Fresh

\* Once the hash of the configuration in effect is in the past, nothing is current.
LEMMA CurrentLost ==
    ASSUME CurrentInv, past' = past \cup {known}, UNCHANGED <<page, staged>>, NEW p \in Pages,
           req'[p].from \subseteq req[p].from
    PROVE  CurrentForm(p)' /\ CurrentImports(p)'
BY DEF CurrentInv, CurrentForm, CurrentImports, Fresh

\* A request that is over asks nothing.
LEMMA CurrentIdle ==
    ASSUME CurrentInv, NEW p \in Pages, UNCHANGED <<known, live, past>>, UNCHANGED <<page, staged>>,
           req'[p].pc = "idle", req'[p].from = {}
    PROVE  CurrentForm(p)' /\ CurrentImports(p)'
BY DEF CurrentInv, CurrentForm, CurrentImports, Fresh

LEMMA CurrentStep == ASSUME DocTypes, CurrentInv, [Next]_vars PROVE CurrentInv'
<1>0. SUFFICES ASSUME NEW q \in Pages PROVE CurrentForm(q)' /\ CurrentImports(q)'
  BY DEF CurrentInv
<1>1. CASE UNCHANGED <<documentVars, crashes>>
  BY <1>1, CurrentKept DEF documentVars
<1>2. ASSUME NEW p \in Pages, OpenPage(p) PROVE CurrentForm(q)' /\ CurrentImports(q)'
  <2>1. UNCHANGED <<known, live, past, staged, req>> /\ (q # p => page'[q] = page[q])
    BY <1>2 DEF OpenPage, DocTypes
  <2>2. CASE q = p
    <3>1. page'[q] = known /\ req[q].pc = "idle"
      BY <1>2, <2>2 DEF OpenPage, DocTypes, Idle
    <3> QED
      BY <2>1, <3>1, CurrentKept DEF CurrentForm
  <2> QED
    BY <2>1, <2>2, CurrentKept
<1>3. ASSUME NEW p \in Pages, NEW f \in Posts, PostSection(p, f)
      PROVE  CurrentForm(q)' /\ CurrentImports(q)'
  <2>1. UNCHANGED <<known, live, past, staged, page>>
    BY <1>3 DEF PostSection, Posting
  <2>2. CASE q = p /\ Answerable(live, f)
    <3>1. req'[q] = Request("checked", f, Empty, {})
      BY <1>3, <2>2 DEF PostSection, DocTypes
    <3>2. req'[q].pc = "checked" /\ req'[q].post = f /\ req'[q].from = {}
      BY <3>1 DEF Request
    <3> QED
      BY <2>1, <2>2, <3>2 DEF CurrentInv, CurrentForm, CurrentImports, Fresh
  <2>3. CASE ~(q = p /\ Answerable(live, f))
    <3>1. req'[q] = req[q]
      BY <1>3, <2>3 DEF PostSection, DocTypes
    <3> QED
      BY <2>1, <3>1, CurrentKept
  <2> QED
    BY <2>2, <2>3
<1>4. ASSUME NEW p \in Pages, NEW f \in Posts, PostDocument(p, f)
      PROVE  CurrentForm(q)' /\ CurrentImports(q)'
  <2>1. UNCHANGED <<known, live, past, staged, page>> /\ f.act \notin Sections
    BY <1>4 DEF PostDocument, Posting, Sections
  <2>2. CASE q = p /\ Valid(f.text)
    <3>1. req'[q] = Request("drafted", f, Parsed(f.text.doc), {})
      BY <1>4, <2>2 DEF PostDocument, DocTypes
    <3>2. req'[q].pc = "drafted" /\ req'[q].post = f /\ req'[q].from = {}
      BY <3>1 DEF Request
    <3> QED
      BY <2>1, <2>2, <3>2 DEF CurrentInv, CurrentForm, CurrentImports, Fresh
  <2>3. CASE ~(q = p /\ Valid(f.text))
    <3>1. req'[q] = req[q]
      BY <1>4, <2>3 DEF PostDocument, DocTypes
    <3> QED
      BY <2>1, <3>1, CurrentKept
  <2> QED
    BY <2>2, <2>3
<1>5. ASSUME NEW p \in Pages, NEW f \in Posts, PostImport(p, f)
      PROVE  CurrentForm(q)' /\ CurrentImports(q)'
  <2>1. UNCHANGED <<known, live, past, page, req>>
    BY <1>5 DEF PostImport, Posting
  <2> DEFINE new == [cfg |-> Parsed(f.text.doc), hash |-> known,
                     preview |-> Preview(live, Parsed(f.text.doc))]
  <2>2. staged'[q] = staged[q] \/ staged'[q] = {new}
    BY <1>5 DEF PostImport, DocTypes
  <2>3. new.hash = known /\ new.preview = Preview(live, new.cfg)
    OBVIOUS
  <2> HIDE DEF new
  <2>4. CurrentImports(q)'
    BY <2>1, <2>2, <2>3 DEF CurrentInv, CurrentImports, Fresh
  <2> QED
    BY <2>1, <2>4, CurrentKept
<1>6. ASSUME NEW p \in Pages, NEW f \in Posts, PostApply(p, f)
      PROVE  CurrentForm(q)' /\ CurrentImports(q)'
  <2>1. UNCHANGED <<known, live, past, page>> /\ f.act \notin Sections
    BY <1>6 DEF PostApply, Posting, Sections
  <2>2. CASE q # p
    <3>1. UNCHANGED <<staged[q], req[q]>>
      BY <1>6, <2>2 DEF PostApply, DocTypes
    <3> QED
      BY <2>1, <3>1, CurrentKept
  <2>3. CASE q = p /\ staged[p] = {}
    <3>1. UNCHANGED <<staged[q], req[q]>>
      BY <1>6, <2>3 DEF PostApply, DocTypes
    <3> QED
      BY <2>1, <3>1, CurrentKept
  <2>4. CASE q = p /\ staged[p] # {}
    <3>1. PICK i \in staged[p] : req'[q] = Request("drafted", f, i.cfg, {i})
      BY <1>6, <2>4 DEF PostApply, DocTypes
    <3>2. req'[q].pc = "drafted" /\ req'[q].post = f /\ req'[q].from = {i} /\ staged'[q] = {}
      BY <1>6, <2>4, <3>1 DEF Request, PostApply, DocTypes
    <3> QED
      BY <2>1, <2>4, <3>2 DEF CurrentInv, CurrentForm, CurrentImports, Fresh
  <2> QED
    BY <2>2, <2>3, <2>4
<1>7. ASSUME NEW p \in Pages, Clone(p) PROVE CurrentForm(q)' /\ CurrentImports(q)'
  <2>1. UNCHANGED <<known, live, past, page, staged>>
    BY <1>7 DEF Clone
  <2>2. CASE q # p
    BY <1>7, <2>1, <2>2, CurrentKept DEF Clone, DocTypes
  <2>3. CASE q = p /\ Doubles(live, req[p].post)
    BY <1>7, <2>1, <2>3, NoRequests, CurrentIdle DEF Clone, DocTypes
  <2>4. CASE q = p /\ ~Doubles(live, req[p].post)
    <3>1. req'[q] = Request("drafted", req[q].post, Applied(live, req[q].post), req[q].from)
      BY <1>7, <2>4 DEF Clone, DocTypes
    <3>2. /\ req'[q].pc = "drafted" /\ req'[q].post = req[q].post /\ req'[q].from = req[q].from
          /\ req'[q].draft = Applied(live, req[q].post) /\ req[q].pc = "checked"
      BY <1>7, <2>4, <3>1 DEF Request, Clone
    <3> QED
      BY <2>1, <3>2 DEF CurrentInv, CurrentForm, CurrentImports, Fresh
  <2> QED
    BY <2>2, <2>3, <2>4
<1>8. ASSUME NEW p \in Pages, SaveDraft(p) PROVE CurrentForm(q)' /\ CurrentImports(q)'
  <2>1. req'[q] = req[q] \/ (req'[q].pc = "idle" /\ req'[q].from = {})
    BY <1>8, NoRequests DEF SaveDraft, DocTypes
  <2>2. UNCHANGED <<page, staged>>
    BY <1>8 DEF SaveDraft
  <2>3. UNCHANGED <<known, live, past>> \/ past' = past \cup {known}
    BY <1>8 DEF SaveDraft, Commit
  <2> QED
    BY <2>1, <2>2, <2>3, CurrentKept, CurrentIdle, CurrentLost
<1>9. CASE HandEdit
  BY <1>9, CurrentKept DEF HandEdit
<1>10. CASE Poll
  BY <1>10, CurrentLost DEF Poll
<1>11. CASE Restart
  <2>1. req'[q].pc = "idle" /\ req'[q].from = {} /\ staged'[q] = {} /\ page'[q] = page[q]
    BY <1>11, NoRequests DEF Restart
  <2>2. past \cup {known} \subseteq past' \cup {known'}
    BY <1>11 DEF Restart
  <2> QED
    BY <2>1, <2>2 DEF CurrentInv, CurrentForm, CurrentImports
<1> QED
  BY <1>1, <1>2, <1>3, <1>4, <1>5, <1>6, <1>7, <1>8, <1>9, <1>10, <1>11, Steps DEF Post

LEMMA CurrentInit == Init => CurrentInv
BY NoRequests DEF Init, CurrentInv, CurrentForm, CurrentImports

\* Only the save of page p itself changes the known hash and ends the request of p.
LEMMA SavesAreSaves ==
    ASSUME DocTypes, [Next]_vars, NEW p \in Pages, Saves(p)
    PROVE  page[p] = known /\ live' = req[p].draft
<1> USE DEF Saves
<1>1. ASSUME NEW q \in Pages, SaveDraft(q) PROVE page[p] = known /\ live' = req[p].draft
  <2>1. p = q
    BY <1>1 DEF SaveDraft, DocTypes
  <2> QED
    BY <1>1, <2>1 DEF SaveDraft, Commit
<1>2. ~(\E q \in Pages : OpenPage(q) \/ Post(q) \/ Clone(q))
  BY DEF OpenPage, Post, PostSection, PostDocument, PostImport, PostApply, Posting, Clone
<1>3. ~HandEdit /\ ~Poll
  BY DEF HandEdit, Poll
<1>4. ~Restart
  BY DEF Restart, DocTypes
<1>5. ~UNCHANGED <<documentVars, crashes>>
  BY DEF documentVars
<1> QED
  BY <1>1, <1>2, <1>3, <1>4, <1>5, Steps

\* A save under the hash in effect does to the configuration what its post asks for
\* and nothing else, though it was copied a while ago; an import does what it showed.
THEOREM SavesKeep == Spec => SavesKeepTheRest
<1> DEFINE Kept == \A p \in Pages : Saves(p) =>
                       /\ req[p].post.act \in Sections => KeepsTheRest(req[p].post)
                       /\ \A i \in req[p].from : AsPreviewed(i)
<1>1. ASSUME DocTypes, CurrentInv, [Next]_vars PROVE Kept
  <2> SUFFICES ASSUME NEW p \in Pages, Saves(p)
               PROVE  /\ req[p].post.act \in Sections => KeepsTheRest(req[p].post)
                      /\ \A i \in req[p].from : AsPreviewed(i)
    OBVIOUS
  <2>1. Fresh(page[p]) /\ live' = req[p].draft /\ req[p].pc = "drafted"
    BY <1>1, SavesAreSaves DEF Saves, Fresh
  <2>2. ASSUME req[p].post.act \in Sections PROVE KeepsTheRest(req[p].post)
    <3> DEFINE f == req[p].post
    <3>1. Answerable(live, f) /\ live' = Applied(live, f)
      BY <1>1, <2>1, <2>2 DEF CurrentInv, CurrentForm
    <3>2. ASSUME f.act = "catalog/apply", ~f.overwrite, NEW n \in Names
          PROVE  Lookup(live.prices, n) \subseteq Lookup(live'.prices, n)
      <4>1. Lookup(live.prices, f.model) \cup Lookup(live.prices, FirstMatch(f.model).model) = {}
        BY <3>1, <3>2 DEF Answerable
      <4>2. live' = CatalogApplied(live, f)
        BY <3>1, <3>2 DEF Applied
      <4>3. live.prices.models \subseteq live'.prices.models
        BY <1>1, <4>1, <4>2, CatalogChanges DEF DocTypes
      <4> QED
        BY <4>3 DEF Lookup
    <3> QED
      BY <3>1, <3>2 DEF KeepsTheRest
  <2>3. ASSUME NEW i \in req[p].from PROVE AsPreviewed(i)
    <3>1. live' = i.cfg
      BY <1>1, <2>1 DEF DocTypes, IsRequest
    <3>2. i.hash = known => i.preview = Preview(live, i.cfg)
      BY <1>1, <2>1 DEF CurrentInv, CurrentImports, Fresh
    <3> QED
      BY <3>1, <3>2 DEF AsPreviewed
  <2> QED
    BY <2>2, <2>3
<1>2. DocTypes /\ CurrentInv /\ [Next]_vars => [Kept]_vars
  BY <1>1
<1>3. DocTypes /\ [Next]_vars => DocTypes'
  BY DocTypesStep
<1>4. DocTypes /\ CurrentInv /\ [Next]_vars => CurrentInv'
  BY CurrentStep
<1>5. []([Kept]_vars) => SavesKeepTheRest
  BY PTL DEF SavesKeepTheRest
<1> HIDE DEF Kept
<1> QED
  BY <1>2, <1>3, <1>4, <1>5, DocTypesInit, CurrentInit, PTL DEF Spec

-----------------------------------------------------------------------------
(* The settings *)

\* As long as no two updates have overlapped, at most one is on its way. Until it
\* has persisted its patch, what it is about to swap in is the settings in effect
\* with its patch; from then on it is what is stored.
KeptInv ==
    ~overlapped =>
        /\ \A u, v \in Updaters : Updating(u) /\ Updating(v) => u = v
        /\ \A u \in Updaters : /\ upd[u].pc = "persist" => upd[u].to = Patched(set, upd[u].patch)
                               /\ upd[u].pc = "swap" => kv = upd[u].to
        /\ (\A u \in Updaters : upd[u].pc # "swap") => set = kv

UpdateTypes ==
    /\ DOMAIN upd = Updaters
    /\ \A u \in Updaters : upd[u].pc \in {"idle", "read", "persist", "swap"}
    /\ \A u \in Updaters : upd[u] = [pc |-> upd[u].pc, patch |-> upd[u].patch, to |-> upd[u].to]
    /\ overlapped \in BOOLEAN

SettingsInv == UpdateTypes /\ KeptInv

\* A post, or the loop, puts an update on its way.
LEMMA BeginKeeps ==
    ASSUME SettingsInv, NEW u \in Updaters, NEW p, Begin(u, p), UNCHANGED <<set, kv, overlapped>>
    PROVE  SettingsInv'
<1>1. /\ upd' = [upd EXCEPT ![u] = [NoUpdate EXCEPT !.pc = "read", !.patch = p]]
      /\ upd[u].pc = "idle"
  BY DEF Begin
<1>2. /\ upd'[u].pc = "read"
      /\ upd'[u] = [pc |-> upd'[u].pc, patch |-> upd'[u].patch, to |-> upd'[u].to]
      /\ \A v \in Updaters \ {u} : upd'[v] = upd[v]
  BY <1>1 DEF NoUpdate, SettingsInv, UpdateTypes
<1>3. UpdateTypes'
  BY <1>1, <1>2 DEF SettingsInv, UpdateTypes
<1>4. \A v \in Updaters : upd'[v] = upd[v] \/ (v = u /\ upd'[v].pc = "read" /\ upd[v].pc = "idle")
  BY <1>1, <1>2
<1>5. KeptInv'
  BY <1>4 DEF SettingsInv, KeptInv, Updating, Patched, Field
<1> QED
  BY <1>3, <1>5 DEF SettingsInv

\* An update that ends without having changed anything.
LEMMA EndKeeps ==
    ASSUME SettingsInv, NEW u \in Updaters, upd' = [upd EXCEPT ![u] = NoUpdate],
           upd[u].pc # "swap", UNCHANGED <<set, kv, overlapped>>
    PROVE  SettingsInv'
<1>1. /\ upd'[u].pc = "idle"
      /\ upd'[u] = [pc |-> upd'[u].pc, patch |-> upd'[u].patch, to |-> upd'[u].to]
      /\ \A v \in Updaters \ {u} : upd'[v] = upd[v]
  BY DEF NoUpdate, SettingsInv, UpdateTypes
<1>2. UpdateTypes'
  BY <1>1 DEF SettingsInv, UpdateTypes
<1>3. \A v \in Updaters : upd'[v] = upd[v] \/ (v = u /\ upd'[v].pc = "idle")
  BY <1>1
<1>4. KeptInv'
  BY <1>3 DEF SettingsInv, KeptInv, Updating, Patched, Field
<1> QED
  BY <1>2, <1>4 DEF SettingsInv

LEMMA UpdateKeeps == ASSUME SettingsInv, NEW u \in Updaters, Update(u) PROVE SettingsInv'
<1>0. /\ DOMAIN upd = Updaters
      /\ upd[u] = [pc |-> upd[u].pc, patch |-> upd[u].patch, to |-> upd[u].to]
  BY DEF SettingsInv, UpdateTypes
<1>1. CASE UpdateRead(u)
  <2>1. CASE InRange(upd[u].patch)
    <3> DEFINE n == [upd[u] EXCEPT !.pc = "persist", !.to = Patched(set, upd[u].patch)]
    <3>1. /\ n.pc = "persist" /\ n.patch = upd[u].patch /\ n.to = Patched(set, upd[u].patch)
          /\ n = [pc |-> n.pc, patch |-> n.patch, to |-> n.to]
      <4> DEFINE a == upd[u].pc
                 b == upd[u].patch
                 c == upd[u].to
                 d == Patched(set, upd[u].patch)
      <4>1. upd[u] = [pc |-> a, patch |-> b, to |-> c]
        BY <1>0
      <4>2. n = [upd[u] EXCEPT !.pc = "persist", !.to = d] /\ b = upd[u].patch
        OBVIOUS
      <4> HIDE DEF a, b, c, d, n
      <4>3. n = [pc |-> "persist", patch |-> b, to |-> d]
        BY <4>1, <4>2
      <4> QED
        BY <4>2, <4>3 DEF d
    <3> HIDE DEF n
    <3>2. upd' = [upd EXCEPT ![u] = n] /\ UNCHANGED <<set, kv>> /\ upd[u].pc = "read"
      BY <1>1, <2>1 DEF UpdateRead, n
    <3>3. overlapped' = (overlapped \/ \E v \in Updaters : Updating(v))
      BY <1>1, <2>1 DEF UpdateRead
    <3>4. upd'[u] = n /\ \A v \in Updaters \ {u} : upd'[v] = upd[v]
      BY <1>0, <3>2
    <3>5. UpdateTypes'
      <4>1. overlapped' \in BOOLEAN
        BY <3>3, Zenon
      <4> QED
        BY <3>1, <3>2, <3>4, <4>1 DEF SettingsInv, UpdateTypes
    <3>6. KeptInv'
      <4> SUFFICES ASSUME ~overlapped' PROVE KeptInv'
        BY DEF KeptInv
      <4>1. ~overlapped /\ \A v \in Updaters : ~Updating(v)
        BY <3>3
      <4>2. set = kv
        BY <4>1 DEF SettingsInv, KeptInv, Updating
      <4>3. \A v \in Updaters \ {u} : upd'[v].pc \notin {"persist", "swap"}
        BY <3>4, <4>1 DEF Updating
      <4>4. upd'[u].pc = "persist" /\ upd'[u].to = Patched(set', upd'[u].patch)
        BY <3>1, <3>2, <3>4
      <4> QED
        BY <3>2, <4>2, <4>3, <4>4 DEF KeptInv, Updating
    <3> QED
      BY <3>5, <3>6 DEF SettingsInv
  <2>2. CASE ~InRange(upd[u].patch)
    <3>1. /\ upd' = [upd EXCEPT ![u] = NoUpdate] /\ UNCHANGED <<set, kv>> /\ upd[u].pc # "swap"
      BY <1>1, <2>2 DEF UpdateRead
    <3>2. UNCHANGED overlapped
      BY <1>1, <2>2 DEF UpdateRead, SettingsInv, UpdateTypes
    <3> QED
      BY <3>1, <3>2, EndKeeps
  <2> QED
    BY <2>1, <2>2
<1>2. CASE UpdatePersist(u)
  <2> DEFINE n == [upd[u] EXCEPT !.pc = "swap"]
  <2>1. /\ n.pc = "swap" /\ n.patch = upd[u].patch /\ n.to = upd[u].to
        /\ n = [pc |-> n.pc, patch |-> n.patch, to |-> n.to]
    BY <1>0
  <2>2. /\ upd' = [upd EXCEPT ![u] = n] /\ UNCHANGED <<set, overlapped>> /\ upd[u].pc = "persist"
        /\ kv' = Patched(kv, upd[u].patch)
    BY <1>2 DEF UpdatePersist
  <2> HIDE DEF n
  <2>3. upd'[u] = n /\ \A v \in Updaters \ {u} : upd'[v] = upd[v]
    BY <1>0, <2>2
  <2>4. UpdateTypes'
    BY <2>1, <2>2, <2>3 DEF SettingsInv, UpdateTypes
  <2>5. KeptInv'
    <3> SUFFICES ASSUME ~overlapped' PROVE KeptInv'
      BY DEF KeptInv
    <3>1. ~overlapped /\ Updating(u)
      BY <2>2 DEF Updating
    <3>2. \A v \in Updaters \ {u} : ~Updating(v)
      BY <3>1 DEF SettingsInv, KeptInv
    <3>3. set = kv /\ upd[u].to = Patched(set, upd[u].patch)
      BY <2>2, <3>1, <3>2 DEF SettingsInv, KeptInv, Updating
    <3>4. kv' = upd'[u].to /\ upd'[u].pc = "swap"
      BY <2>1, <2>2, <2>3, <3>3
    <3>5. \A v \in Updaters \ {u} : upd'[v].pc \notin {"persist", "swap"}
      BY <2>3, <3>2 DEF Updating
    <3> QED
      BY <3>4, <3>5 DEF KeptInv, Updating
  <2> QED
    BY <2>4, <2>5 DEF SettingsInv
<1>3. CASE UpdateFails(u)
  BY <1>3, EndKeeps DEF UpdateFails
<1>4. CASE UpdateSwap(u)
  <2>1. /\ upd' = [upd EXCEPT ![u] = NoUpdate] /\ UNCHANGED <<kv, overlapped>>
        /\ set' = upd[u].to /\ upd[u].pc = "swap"
    BY <1>4 DEF UpdateSwap
  <2>2. /\ upd'[u].pc = "idle"
        /\ upd'[u] = [pc |-> upd'[u].pc, patch |-> upd'[u].patch, to |-> upd'[u].to]
        /\ \A v \in Updaters \ {u} : upd'[v] = upd[v]
    BY <1>0, <2>1 DEF NoUpdate
  <2>3. UpdateTypes'
    BY <2>1, <2>2 DEF SettingsInv, UpdateTypes
  <2>4. KeptInv'
    <3> SUFFICES ASSUME ~overlapped' PROVE KeptInv'
      BY DEF KeptInv
    <3>1. ~overlapped /\ Updating(u)
      BY <2>1 DEF Updating
    <3>2. \A v \in Updaters \ {u} : ~Updating(v)
      BY <3>1 DEF SettingsInv, KeptInv
    <3>3. set' = kv'
      BY <2>1, <3>1 DEF SettingsInv, KeptInv
    <3>4. \A v \in Updaters : upd'[v].pc \notin {"persist", "swap"}
      BY <2>2, <3>2 DEF Updating
    <3> QED
      BY <3>3, <3>4 DEF KeptInv, Updating
  <2> QED
    BY <2>3, <2>4 DEF SettingsInv
<1> QED
  BY <1>1, <1>2, <1>3, <1>4 DEF Update

LEMMA ReloadKeeps == ASSUME SettingsInv, Reload PROVE SettingsInv'
<1>1. /\ upd' = [u \in Updaters |-> NoUpdate] /\ set' = kv' /\ ~overlapped' /\ overlapped' \in BOOLEAN
  BY DEF Reload
<1>2. NoUpdate.pc = "idle" /\ NoUpdate = [pc |-> NoUpdate.pc, patch |-> NoUpdate.patch, to |-> NoUpdate.to]
  BY DEF NoUpdate
<1>3. \A u \in Updaters : upd'[u].pc = "idle"
  BY <1>1, <1>2
<1>4. UpdateTypes'
  BY <1>1, <1>2 DEF UpdateTypes
<1>5. KeptInv'
  BY <1>1, <1>3 DEF KeptInv, Updating
<1> QED
  BY <1>4, <1>5 DEF SettingsInv

LEMMA QuietKeeps == ASSUME SettingsInv, UNCHANGED <<set, kv, upd, overlapped>> PROVE SettingsInv'
BY DEF SettingsInv, UpdateTypes, KeptInv, Updating, Patched, Field

LEMMA SettingsInvStep == SettingsInv /\ [Next]_vars => SettingsInv'
<1> SUFFICES ASSUME SettingsInv, [Next]_vars PROVE SettingsInv'
  OBVIOUS
<1>1. ASSUME UNCHANGED settingsVars PROVE SettingsInv'
  BY <1>1, QuietKeeps DEF settingsVars
<1>2. ASSUME NEW p \in Pages, OpenPage(p) \/ Post(p) \/ Clone(p) \/ SaveDraft(p) PROVE SettingsInv'
  BY <1>1, <1>2 DEF OpenPage, Post, PostSection, PostDocument, PostImport, PostApply, Posting, Clone,
                    SaveDraft
<1>3. CASE HandEdit \/ Poll
  BY <1>1, <1>3 DEF HandEdit, Poll
<1>4. CASE Restart
  BY <1>4, ReloadKeeps DEF Restart
<1>5. ASSUME NEW p \in Pages, SettingsPost(p) PROVE SettingsInv'
  <2>0. p \in Updaters
    BY DEF Updaters
  <2>1. PICK f \in Forms : SettingsSave(p, f) \/ DebugSave(p, f)
    BY <1>5 DEF SettingsPost
  <2>2. CASE SettingsSave(p, f)
    BY <2>0, <2>2, BeginKeeps DEF SettingsSave
  <2>3. CASE DebugSave(p, f)
    <3>1. CASE Choice(f) \in DOMAIN Windows \cup {"never"}
      BY <2>0, <2>3, <3>1, BeginKeeps, Zenon DEF DebugSave
    <3>2. CASE Choice(f) \notin DOMAIN Windows \cup {"never"}
      BY <2>3, <3>2, QuietKeeps DEF DebugSave
    <3> QED
      BY <3>1, <3>2
  <2> QED
    BY <2>1, <2>2, <2>3
<1>6. ASSUME NEW u \in Updaters, Update(u) PROVE SettingsInv'
  BY <1>6, UpdateKeeps
<1>7. CASE Expire
  <2>1. Loop \in Updaters
    BY DEF Updaters
  <2> QED
    BY <1>7, <2>1, BeginKeeps DEF Expire
<1>8. CASE Tick
  BY <1>8, QuietKeeps DEF Tick
<1>9. CASE UNCHANGED vars
  BY <1>1, <1>9 DEF vars
<1> QED
  BY <1>2, <1>3, <1>4, <1>5, <1>6, <1>7, <1>8, <1>9 DEF Next

\* Whatever pages post, fails or is restarted: as long as no two updates have
\* overlapped, the settings in effect are the ones that are stored.
THEOREM SettingsAreKept == Spec => []SettingsKept
<1>1. Init => SettingsInv
  <2> SUFFICES ASSUME Init PROVE SettingsInv
    OBVIOUS
  <2>1. upd = [u \in Updaters |-> NoUpdate] /\ kv = set /\ overlapped = FALSE
    BY DEF Init, SettingsInit
  <2>2. /\ NoUpdate.pc = "idle"
        /\ NoUpdate = [pc |-> NoUpdate.pc, patch |-> NoUpdate.patch, to |-> NoUpdate.to]
    BY DEF NoUpdate
  <2>3. UpdateTypes
    BY <2>1, <2>2 DEF UpdateTypes
  <2>4. KeptInv
    BY <2>1, <2>2 DEF KeptInv, Updating
  <2> QED
    BY <2>3, <2>4 DEF SettingsInv
<1>2. SettingsInv => SettingsKept
  BY DEF SettingsInv, KeptInv, SettingsKept
<1> QED
  BY <1>1, <1>2, SettingsInvStep, PTL DEF Spec
==============================================================================
