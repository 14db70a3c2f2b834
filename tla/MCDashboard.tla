------------------------------ MODULE MCDashboard ------------------------------
(* An instance of Dashboard for TLC: two hosts that share neither an address  *)
(* nor a name in any case, one price with a second name, one route.           *)
EXTENDS Dashboard

CONSTANTS p1, p2

MCOrder == <<"", "big", "h1", "h2", "H1", "m", "m2", "R", "r", "s", "t">>
MCNames == ToSet(MCOrder)
MCFold == [n \in MCNames |-> CASE n = "H1" -> "h1" [] n = "R" -> "r" [] OTHER -> n]
MCIds == {"h1", "h2", "s", "t", "m", "r"}
MCAliases == MCNames \ {""}
MCServerIds == {<<"s">>, <<"t">>, <<"m">>}
MCUpper == [c \in {"none", "", "USD", "usd", "EUR"} |-> IF c = "usd" THEN "USD" ELSE c]
MCIso == {"USD", "usd", "EUR"}
Rate(provider, input) ==
    [provider |-> provider, model |-> "m", input |-> {input}, output |-> {4}, cached_input |-> {},
     reasoning_output |-> {}]
MCEmbedded == [parses |-> TRUE, currency |-> "USD", dated |-> TRUE, version |-> "1",
               rates |-> {Rate(1, 3), Rate(2, 5)}]
\* One that would be refused: a rate is below zero.
MCOverride == {[MCEmbedded EXCEPT !.rates = {Rate(1, -1)}]}

Server(id, port) == [id |-> <<id>>, port |-> port, scheme |-> ""]
Host(id, addr, servers) == [id |-> id, addrs |-> <<addr>>, servers |-> servers]
Member(base, server, host) == [model |-> PublishID(<<base>>, <<server>>, host), cost |-> {}]
Blank == [model |-> [head |-> <<>>, host |-> ""], cost |-> {}]
Price(model, aliases, in, out) == [model |-> model, aliases |-> aliases, input |-> in, output |-> out]
Usd(models) == [currency |-> "USD", models |-> models]
Route(alias, members) == [alias |-> alias, members |-> members]

Begun == [hosts |-> {Host("h1", "h1", {Server("s", 1), Server("t", 2)})},
          prices |-> Usd({Price("big", {"m2"}, {1}, {1})}),
          routes |-> {Route("r", <<Member("m", "s", "h1"), Member("m", "t", "h1")>>)}]
Other == [Begun EXCEPT !.routes = {}, !.hosts = {Host("h1", "h1", {Server("s", 3)})}]
MCFiles == {Text("hand", [Begun EXCEPT !.prices.currency = "usd"]), Unreadable}

MCPosts == {
    [act |-> "host/save", original |-> "", json |-> FALSE, host |-> Host("h2", "H1", {})],
    [act |-> "host/save", original |-> "h1", json |-> FALSE, host |-> Host("h2", "h2", {})],
    [act |-> "host/delete", id |-> "H1"],
    [act |-> "server/save", host |-> "h1", original |-> <<"s">>, server |-> Server("s", 2)],
    [act |-> "server/save", host |-> "h1", original |-> <<>>, server |-> Server("m", 3)],
    [act |-> "server/save", host |-> "h1", original |-> <<"t">>, server |-> Server("s", 1)],
    [act |-> "server/delete", host |-> "h1", id |-> <<"t">>],
    [act |-> "prices/save", json |-> FALSE, delete |-> "",
     section |-> [currency |-> "usd",
                  models |-> {Price("m2", {}, {2}, {2}), Price("big", {"m"}, {1}, {})}]],
    [act |-> "prices/save", json |-> TRUE, delete |-> "", section |-> [currency |-> "EUR", models |-> {}]],
    [act |-> "catalog/apply", model |-> "m", overwrite |-> FALSE],
    [act |-> "catalog/apply", model |-> "m2", overwrite |-> TRUE],
    [act |-> "route/save", original |-> "r", alias |-> "R",
     rows |-> <<Blank, Member("m", "s", "h1"), Member("m", "t", "h1")>>,
     click |-> [button |-> "delete_member", at |-> 3]],
    [act |-> "route/delete", alias |-> "R"],
    [act |-> "config/save", text |-> Text("posted", Other)],
    [act |-> "config/import", text |-> Text("posted", Other)],
    [act |-> "config/import/apply"]}

MCKnobs == {1, 2}
MCWindows == "15m" :> 1
Setting(act, knob, enabled, window) == [act |-> act, knob |-> knob, enabled |-> enabled, window |-> window]
MCForms == {Setting("settings/save", {2}, {}, ""), Setting("settings/save", {3}, {}, ""),
            Setting("debug/save", {}, {TRUE}, ""), Setting("debug/save", {}, {FALSE}, ""),
            Setting("debug/save", {}, {}, "15m"), Setting("debug/save", {}, {TRUE}, "never")}
==============================================================================
