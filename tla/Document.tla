------------------------------- MODULE Document -------------------------------
(***************************************************************************)
(* The configuration document: its shape (src/internal/config/types.go),   *)
(* its rules (validate.go), its written form (canonical.go), the catalogue *)
(* of prices (src/internal/catalog/catalog.go) and what each action of the *)
(* dashboard (src/internal/dashboard/actions.go) makes of a document.      *)
(*                                                                         *)
(* The sections that Normalize sorts are sets: hosts, the servers of a     *)
(* host, price entries, aliases and routes. The addresses of a host and    *)
(* the members of a route keep their order, so they are sequences. A       *)
(* number that may be left out is a set of at most one number.             *)
(*                                                                         *)
(* A published id is cut at its dashes and its last '@': <base>-<server>   *)
(* is a sequence of pieces, so the id of a server with a dash has two.     *)
(* A currency is the one string that parsing rewrites: what is read from a *)
(* file or a body has it in upper case, what a form built keeps it.        *)
(***************************************************************************)
EXTENDS Integers, FiniteSets, SequencesExt

CONSTANTS
    Names,      \* the strings used as ids, models, aliases and addresses
    Fold,       \* their lower-case forms
    Ids,        \* the names that match IDPattern
    ServerIds,  \* the sequences of pieces that match it
    Aliases,    \* the names that match RouteAliasPattern
    Spellings,  \* the names that match PriceAliasPattern
    AtNames,    \* the names with an '@'
    Order,      \* the names in byte order
    Upper,      \* the strings used as currencies, and their upper-case forms
    Iso,        \* those of three letters
    Embedded,   \* the catalogue of reference prices the binary carries
    Override    \* the file that is to replace it, if one is named

ASSUME NamesAssumption ==
    /\ "" \in Names /\ Fold \in [Names -> Names]
    /\ Ids \cup Aliases \cup Spellings \subseteq Names \ {""}
    /\ ToSet(Order) = Names
ASSUME CurrencyAssumption ==
    /\ {"none", "", "USD"} \subseteq DOMAIN Upper /\ Iso \subseteq DOMAIN Upper \ {"none", ""}
    /\ \A c \in DOMAIN Upper : Upper[c] \in DOMAIN Upper /\ Upper[Upper[c]] = Upper[c]
    /\ \A c \in {"none", "", "USD"} : Upper[c] = c

\* No section at all; one that is there may still lack a currency.
NoPrices == [currency |-> "none", models |-> {}]
Empty == [hosts |-> {}, prices |-> NoPrices, routes |-> {}]

\* What a file may hold: a document in some layout, text that does not parse,
\* or nothing. A hash stands for the contents it is the hash of.
Text(l, d) == [layout |-> l, doc |-> d]
Unreadable == Text("unreadable", Empty)
NoFile == Text("none", Empty)

-----------------------------------------------------------------------------
(* Shapes: the fields the structs of a document have, whatever they hold *)

IsServer(s) == s = [id |-> s.id, port |-> s.port, scheme |-> s.scheme]
IsHost(h) ==
    /\ h = [id |-> h.id, addrs |-> h.addrs, servers |-> h.servers]
    /\ \A s \in h.servers : IsServer(s)
IsEntry(e) == e = [model |-> e.model, aliases |-> e.aliases, input |-> e.input, output |-> e.output]
IsPrices(p) ==
    /\ p = [currency |-> p.currency, models |-> p.models] /\ p.currency \in DOMAIN Upper
    /\ \A e \in p.models : IsEntry(e)
IsPublished(id) == id = [head |-> id.head, host |-> id.host] /\ id.head \in Seq(Names)
IsMember(m) == m = [model |-> m.model, cost |-> m.cost] /\ IsPublished(m.model)
IsRoute(r) ==
    /\ r = [alias |-> r.alias, members |-> r.members]
    /\ \A i \in DOMAIN r.members : IsMember(r.members[i])
IsDocument(d) ==
    /\ d = [hosts |-> d.hosts, prices |-> d.prices, routes |-> d.routes]
    /\ \A h \in d.hosts : IsHost(h)
    /\ IsPrices(d.prices)
    /\ \A r \in d.routes : IsRoute(r)

-----------------------------------------------------------------------------
(* Names *)

EqualFold(a, b) == Fold[a] = Fold[b]

\* An address that differs by case or a trailing dot is the same address.
NormalizeAddress(a) == Fold[a]

PublishID(base, segment, host) == [head |-> base \o segment, host |-> host]

\* SplitPublishedID finds the last '@' and the last '-' before it.
Splits(id) == Len(id.head) > 1 /\ id.host # ""
SegmentOf(id) == <<Last(id.head)>>
BaseModelOf(id) == IF Splits(id) THEN Front(id.head) ELSE id.head

\* PriceIndex.Lookup: the entry a name has a price from, if any.
Claims(e) == {e.model} \cup e.aliases
Lookup(p, n) == {e \in p.models : n \in Claims(e)}

\* A catalogue is in USD, dated and numbered, and every rate in it has both
\* prices; what it counts apart may be left out.
ValidCatalogue(c) ==
    /\ c.parses /\ c.currency = "USD" /\ c.dated /\ c.version # ""
    /\ \A r \in c.rates :
           /\ r.provider # 0 /\ r.model # ""
           /\ r.input # {} /\ r.output # {}
           /\ \A n \in r.input \cup r.output \cup r.cached_input \cup r.reasoning_output : n >= 0

\* LoadWithOverride: one that cannot be read or is not valid replaces nothing.
InEffect ==
    IF \E c \in Override : ValidCatalogue(c) THEN CHOOSE c \in Override : TRUE ELSE Embedded

\* Catalogue.Match: the rates of the models of that name in any case, of which
\* the first provider's is taken.
Match(n) == {r \in InEffect.rates : EqualFold(r.model, n)}
FirstMatch(n) == CHOOSE r \in Match(n) : \A s \in Match(n) : r.provider <= s.provider

-----------------------------------------------------------------------------
(* ParseAndValidate: the rules, each of which names every place it is broken at *)

Pairwise(S, Differ(_, _)) == \A a, b \in S : a # b => Differ(a, b)

ValidServers(S) ==
    /\ \A s \in S : /\ s.id \in ServerIds
                    /\ s.port \in 1..65535 /\ s.scheme \in {"", "http", "https"}
    /\ Pairwise(S, LAMBDA s, t : s.id # t.id /\ s.port # t.port)

AddressesOf(h) == {NormalizeAddress(a) : a \in ToSet(h.addrs)}

ValidHosts(H) ==
    /\ \A h \in H : /\ h.id \in Ids
                    /\ h.addrs # <<>> /\ "" \notin AddressesOf(h)
                    /\ Cardinality(AddressesOf(h)) = Len(h.addrs)
                    /\ ValidServers(h.servers)
    /\ Pairwise(H, LAMBDA h, g : /\ ~EqualFold(h.id, g.id)
                                 /\ AddressesOf(h) \cap AddressesOf(g) = {})

ValidRate(r) == \A n \in r : n >= 0

\* A model and every alias is a name of its own in the whole section.
ValidPrices(p) ==
    p # NoPrices =>
        /\ p.currency \in Iso
        /\ \A e \in p.models : /\ e.model \notin {""} \cup AtNames /\ e.aliases \subseteq Spellings
                               /\ e.model \notin e.aliases
                               /\ e.input # {} /\ ValidRate(e.input)
                               /\ e.output # {} /\ ValidRate(e.output)
        /\ Pairwise(p.models, LAMBDA e, f : Claims(e) \cap Claims(f) = {})

KnownServer(H, id) ==
    \E h \in H : h.id = id.host /\ \E s \in h.servers : s.id = SegmentOf(id)

\* Slip: only the host of a member is looked up.
ValidMemberByHost(H, m) ==
    /\ Splits(m.model) /\ \E h \in H : h.id = m.model.host
    /\ \A n \in m.cost : n > 0
\* routeMember.
ValidMember(H, m) ==
    /\ Splits(m.model) /\ KnownServer(H, m.model)
    /\ \A n \in m.cost : n > 0

ValidRoutes(R, H) ==
    /\ \A r \in R : /\ r.alias \in Aliases /\ r.members # <<>>
                    /\ \A i \in DOMAIN r.members : ValidMember(H, r.members[i])
                    /\ \A i, j \in DOMAIN r.members :
                           i # j => r.members[i].model # r.members[j].model
    /\ Pairwise(R, LAMBDA r, q : ~EqualFold(r.alias, q.alias))

Valid(t) ==
    /\ t.layout # "unreadable"
    /\ ValidHosts(t.doc.hosts) /\ ValidPrices(t.doc.prices)
    /\ ValidRoutes(t.doc.routes, t.doc.hosts)

\* What becomes of the document of a valid text.
ParsedPrices(p) == [p EXCEPT !.currency = Upper[p.currency]]
Parsed(d) == [d EXCEPT !.prices = ParsedPrices(d.prices)]

-----------------------------------------------------------------------------
(* Canonical: what is written, every default spelled out *)

SchemeOrDefault(s) == IF s.scheme = "" THEN "http" ELSE s.scheme
CostOrDefault(m) == IF \E n \in m.cost : n > 0 THEN m.cost ELSE {1}
OrZero(r) == IF r = {} THEN {0} ELSE r

WrittenServer(s) == [s EXCEPT !.scheme = SchemeOrDefault(s)]
WrittenHost(h) == [h EXCEPT !.servers = {WrittenServer(s) : s \in h.servers}]
WrittenMember(m) == [m EXCEPT !.cost = CostOrDefault(m)]
WrittenRoute(r) ==
    [r EXCEPT !.members = [i \in DOMAIN r.members |-> WrittenMember(r.members[i])]]
WrittenEntry(e) == [e EXCEPT !.input = OrZero(e.input), !.output = OrZero(e.output)]

\* A section without entries is left out.
WrittenPrices(p) ==
    IF p.models = {} THEN NoPrices
    ELSE [p EXCEPT !.models = {WrittenEntry(e) : e \in p.models}]

Written(d) == [hosts |-> {WrittenHost(h) : h \in d.hosts},
               prices |-> WrittenPrices(d.prices),
               routes |-> {WrittenRoute(r) : r \in d.routes}]

Canonical(d) == Text("canonical", Written(d))

\* Two entries that are written alike are two in the list that is written, and
\* break the rules.
Apart(d) ==
    /\ \A h, g \in d.hosts : WrittenHost(h) = WrittenHost(g) => h = g
    /\ \A h \in d.hosts : \A s, t \in h.servers : WrittenServer(s) = WrittenServer(t) => s = t
    /\ \A e, f \in d.prices.models : WrittenEntry(e) = WrittenEntry(f) => e = f
    /\ \A r, q \in d.routes : WrittenRoute(r) = WrittenRoute(q) => r = q

-----------------------------------------------------------------------------
(* What the rest of the program reads from a document *)

\* AmountTokens: without both rates an entry is worth nothing.
RatesOf(p, n) ==
    {IF e.input = {} \/ e.output = {} THEN <<{0}, {0}>> ELSE <<e.input, e.output>> : e \in Lookup(p, n)}

\* A currency means the same in any case; it is shown as it is kept.
Means(d) == [hosts |-> {WrittenHost(h) : h \in d.hosts},
             rates |-> [n \in Names |-> RatesOf(d.prices, n)],
             currency |-> Upper[d.prices.currency],
             routes |-> {WrittenRoute(r) : r \in d.routes}]

\* Nothing is lost or made up when the document is written: every price entry has
\* the rates an entry needs, and a price section has an entry.
Complete(d) ==
    /\ \A e \in d.prices.models : e.input # {} /\ e.output # {}
    /\ d.prices # NoPrices => d.prices.models # {}

-----------------------------------------------------------------------------
(* Forms of several rows *)

\* A button of a row acts on the row it sits in, a row moves one step and stays
\* at the ends; a position that names no row does nothing.
Swapped(rows, i, j) ==
    IF {i, j} \subseteq DOMAIN rows THEN [rows EXCEPT ![i] = rows[j], ![j] = rows[i]] ELSE rows
Clicked(rows, click) ==
    IF click.at \notin DOMAIN rows THEN rows
    ELSE CASE click.button = "delete_member" -> RemoveAt(rows, click.at)
           [] click.button = "move_up" -> Swapped(rows, click.at, click.at - 1)
           [] click.button = "move_down" -> Swapped(rows, click.at, click.at + 1)
           [] OTHER -> rows

\* parseRouteFields: blank rows count for the buttons and are dropped after.
RouteOf(f) ==
    [alias |-> f.alias,
     members |-> SelectSeq(Clicked(f.rows, f.click), LAMBDA m : m.model.head # <<>>)]

\* parsePriceSection: the JSON shape is taken as it is; of a form the blank rows
\* and the deleted model are dropped, and no rows mean no section.
SectionOf(f) ==
    IF f.json THEN f.section
    ELSE LET kept == {e \in f.section.models : e.model \notin {"", f.delete}}
         IN  IF kept = {} THEN NoPrices ELSE [f.section EXCEPT !.models = kept]

-----------------------------------------------------------------------------
(* The actions, as functions of a document *)

Replace(S, old, new) == (S \ old) \cup {new}

\* The host is found by the id it had, or by its own; the form of a host that
\* exists keeps its servers, a JSON body replaces them.
OldHosts(d, f) ==
    {h \in d.hosts : IF f.original # "" THEN h.id = f.original ELSE EqualFold(h.id, f.host.id)}
NewHost(d, f) ==
    [f.host EXCEPT !.servers = IF f.json \/ f.host.servers # {} THEN f.host.servers
                               ELSE UNION {h.servers : h \in OldHosts(d, f)}]
HostSaved(d, f) == [d EXCEPT !.hosts = Replace(d.hosts, OldHosts(d, f), NewHost(d, f))]

HostDeleted(d, f) == [d EXCEPT !.hosts = {h \in d.hosts : ~EqualFold(h.id, f.id)}]

OnHost(d, id, Servers(_)) ==
    [d EXCEPT !.hosts = {IF EqualFold(h.id, id) THEN [h EXCEPT !.servers = Servers(h)] ELSE h :
                         h \in d.hosts}]

OldServers(h, f) ==
    {s \in h.servers : s.id = IF f.original # <<>> THEN f.original ELSE f.server.id}
ServerSaved(d, f) ==
    OnHost(d, f.host, LAMBDA h : Replace(h.servers, OldServers(h, f), f.server))

ServerDeleted(d, f) == OnHost(d, f.host, LAMBDA h : {s \in h.servers : s.id # f.id})

PricesSaved(d, f) == [d EXCEPT !.prices = SectionOf(f)]

Before(e, g) ==
    \E i, j \in DOMAIN Order : i < j /\ Order[i] = e.model /\ Order[j] = g.model

\* The first entry that goes by one of the two names gets the rates and keeps
\* its names; without one there is a new entry.
CatalogApplied(d, f) ==
    LET rate == FirstMatch(f.model)
        p == IF d.prices = NoPrices THEN [NoPrices EXCEPT !.currency = "USD"] ELSE d.prices
        same == Lookup(p, f.model) \cup Lookup(p, rate.model)
        old == {e \in same : \A g \in same : ~Before(g, e)}
        Rated(e) == [e EXCEPT !.input = rate.input, !.output = rate.output]
        new == IF old # {} THEN {Rated(e) : e \in old}
               ELSE {[model |-> f.model, aliases |-> {}, input |-> rate.input, output |-> rate.output]}
    IN  [d EXCEPT !.prices = [p EXCEPT !.models = (p.models \ old) \cup new]]

OldRoutes(d, f) ==
    {r \in d.routes : EqualFold(r.alias, IF f.original # "" THEN f.original ELSE f.alias)}
RouteSaved(d, f) == [d EXCEPT !.routes = Replace(d.routes, OldRoutes(d, f), RouteOf(f))]

RouteDeleted(d, f) == [d EXCEPT !.routes = {r \in d.routes : ~EqualFold(r.alias, f.alias)}]

Applied(d, f) ==
    CASE f.act = "host/save" -> HostSaved(d, f)
      [] f.act = "host/delete" -> HostDeleted(d, f)
      [] f.act = "server/save" -> ServerSaved(d, f)
      [] f.act = "server/delete" -> ServerDeleted(d, f)
      [] f.act = "prices/save" -> PricesSaved(d, f)
      [] f.act = "catalog/apply" -> CatalogApplied(d, f)
      [] f.act = "route/save" -> RouteSaved(d, f)
      [] f.act = "route/delete" -> RouteDeleted(d, f)

\* What is put in stands there already, beside what it replaces: the list then has
\* it twice.
Doubles(d, f) ==
    CASE f.act = "host/save" -> NewHost(d, f) \in d.hosts \ OldHosts(d, f)
      [] f.act = "server/save" -> \E h \in d.hosts : /\ EqualFold(h.id, f.host)
                                                    /\ f.server \in h.servers \ OldServers(h, f)
      [] f.act = "route/save" -> RouteOf(f) \in d.routes \ OldRoutes(d, f)
      [] OTHER -> FALSE

\* What an action asks of the live document before it sets to work.
Answerable(d, f) ==
    CASE f.act = "host/delete" -> \E h \in d.hosts : EqualFold(h.id, f.id)
      [] f.act = "server/save" -> \E h \in d.hosts : EqualFold(h.id, f.host)
      [] f.act = "route/save" -> f.alias # ""
      [] f.act = "route/delete" -> \E r \in d.routes : EqualFold(r.alias, f.alias)
      [] f.act = "catalog/apply" ->
             /\ Match(f.model) # {}
             /\ Upper[d.prices.currency] \in {"none", "", "USD"}
             /\ f.overwrite \/ Lookup(d.prices, f.model) \cup Lookup(d.prices, FirstMatch(f.model).model) = {}
      [] OTHER -> TRUE

\* previewImport: hosts and routes by their exact names, compared as written.
Preview(live, next) ==
    LET HostsOf(d) == {WrittenHost(h) : h \in d.hosts}
        RoutesOf(d) == {WrittenRoute(r) : r \in d.routes}
        Lost(A, B, id(_)) == {id(x) : x \in A} \ {id(x) : x \in B}
        Both(A, B, id(_)) == {id(x) : x \in {y \in A \ B : \E z \in B : id(z) = id(y)}}
        Id(h) == h.id
        Alias(r) == r.alias
    IN  [added_hosts |-> Lost(HostsOf(next), HostsOf(live), Id),
         removed_hosts |-> Lost(HostsOf(live), HostsOf(next), Id),
         changed_hosts |-> Both(HostsOf(next), HostsOf(live), Id),
         added_routes |-> Lost(RoutesOf(next), RoutesOf(live), Alias),
         removed_routes |-> Lost(RoutesOf(live), RoutesOf(next), Alias),
         changed_routes |-> Both(RoutesOf(next), RoutesOf(live), Alias)]
==============================================================================
