------------------------------ MODULE MCAccounts ------------------------------
(* An instance of Accounts for TLC: two models, of which one goes by an alias *)
(* that has a price, answers in both dialects that report usage early, late,  *)
(* as null or not at all, a page and an export.                               *)
EXTENDS Accounts, TLC

CONSTANT r1

MCPublished == {"a@h", "b@h", "a@g"}
MCBase == "a@h" :> "a" @@ "b@h" :> "b" @@ "a@g" :> "a"
MCHost == "a@h" :> "h" @@ "b@h" :> "h" @@ "a@g" :> "g"
MCServer == [m \in MCPublished |-> "s"]
MCPrices == {[model |-> "p", aliases |-> {"a"}, input |-> 3, output |-> 5,
              cached_input |-> {1}, reasoning_output |-> {}]}
MCAsks == {[asked |-> "alias", id |-> "a@h", size |-> 5]}

Chat == [Unspelt EXCEPT !.prompt_tokens = {4}, !.completion_tokens = {2}, !.prompt_details = {3}]
Resp == [Unspelt EXCEPT !.input_tokens = {7}, !.output_tokens = {1}, !.output_details = {2}]
Interim == [Resp EXCEPT !.output_tokens = {0}]

Answer(endpoint, stream, frames) == [endpoint |-> endpoint, stream |-> stream, frames |-> frames]
Early == [Plain EXCEPT !.model = {"a"}, !.usage = {Chat}]
Text == [Plain EXCEPT !.model = {"a"}, !.usage = {Null}, !.text = 5]
Inside(u) == [Plain EXCEPT !.response = {[model |-> {"a"}, usage |-> u]}]
MCAnswers == {
    Answer("chat/completions", TRUE, <<Early, Text>>),
    Answer("chat/completions", FALSE, <<[Text EXCEPT !.usage = {Unspelt}]>>),
    Answer("responses", TRUE, <<[Inside({Interim}) EXCEPT !.text = 3], Inside({Resp})>>),
    Answer("responses", FALSE, <<[Inside({Resp}) EXCEPT !.model = {"a"}]>>)}

MCLatency == r1 :> 2
Row(req, ts, model, latency) ==
    [req |-> req, ts |-> ts, model |-> model, endpoint |-> "chat/completions", status |-> "ok",
     tokens |-> [in |-> 6, out |-> 2, cached |-> 1, reasoning |-> 2], estimated |-> FALSE, latency |-> latency]
MCStored == {Row(1, 1, "a@g", 1), Row(2, 1, "b@h", 4)}

MCReports == {[filter |-> Anything, groupings |-> <<"model">>],
              [filter |-> [Anything EXCEPT !.from = 1, !.to = 2, !.hosts = {"h"}, !.statuses = {"ok"}],
               groupings |-> <<"server", "day">>]}
==============================================================================
