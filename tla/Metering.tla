------------------------------- MODULE Metering -------------------------------
(***************************************************************************)
(* What the proxy (src/internal/proxy/proxy.go) makes of the answer of an  *)
(* upstream server: the names it puts back, and the tokens it reads or, if *)
(* the answer does not say, estimates.                                     *)
(*                                                                         *)
(* A frame of a stream and the document of a buffered answer have the same *)
(* shape: a model, a usage object and a response object that are there or  *)
(* not, as sets of at most one, and an amount of visible text. A line that *)
(* is no data frame, or does not parse, has none of them.                  *)
(***************************************************************************)
EXTENDS Naturals, Sequences, FiniteSets, SequencesExt

Endpoints == {"chat/completions", "responses"}

Plain == [model |-> {}, usage |-> {}, response |-> {}, text |-> 0]
IsFrame(f) ==
    /\ f = [model |-> f.model, usage |-> f.usage, response |-> f.response, text |-> f.text]
    /\ f.text \in Nat
    /\ \A x \in f.response : x = [model |-> x.model, usage |-> x.usage]

\* A usage object in any spelling; one that spells nothing is there and is zero.
Null == [null |-> TRUE]
Unspelt == [null |-> FALSE, prompt_tokens |-> {}, input_tokens |-> {},
            completion_tokens |-> {}, output_tokens |-> {},
            prompt_details |-> {}, input_details |-> {},
            completion_details |-> {}, output_details |-> {}]

\* What it spells is numbers.
IsUsage(u) ==
    ~u.null => UNION {u.prompt_tokens, u.input_tokens, u.completion_tokens, u.output_tokens,
                      u.prompt_details, u.input_details, u.completion_details, u.output_details} \subseteq Nat

-----------------------------------------------------------------------------
(* Usage *)

Pick(a, b) == CASE a # {} -> CHOOSE n \in a : TRUE
                [] a = {} /\ b # {} -> CHOOSE n \in b : TRUE
                [] OTHER -> 0

UsageFields(u) ==
    [in |-> Pick(u.prompt_tokens, u.input_tokens),
     out |-> Pick(u.completion_tokens, u.output_tokens),
     cached |-> Pick(u.prompt_details, u.input_details),
     reasoning |-> Pick(u.completion_details, u.output_details)]

\* What a place for a usage object says: null is no usage.
ParseUsage(place) == {UsageFields(u) : u \in {v \in place : ~v.null}}

\* A document's own usage hides that of its response object.
UsageFromDoc(doc) ==
    ParseUsage(IF doc.usage # {} THEN doc.usage ELSE UNION {x.usage : x \in doc.response})

EstimateTokens(chars) == (chars + 3) \div 4

-----------------------------------------------------------------------------
(* Names *)

Renamed(x, name) == [x EXCEPT !.model = {name : m \in x.model}]

\* Slip: the model of the response object is left as the upstream calls it.
RewriteOutside(endpoint, f, name) == Renamed(f, name)
\* Every model the dialect has a place for becomes the name that was asked for.
Rewrite(endpoint, f, name) ==
    [Renamed(f, name) EXCEPT
        !.response = IF endpoint = "responses" THEN {Renamed(x, name) : x \in f.response} ELSE f.response]

-----------------------------------------------------------------------------
(* The meter of an answer: the usage it reported last, the text it carried *)

Unread == [usage |-> {}, chars |-> 0]

\* Slip: what was said first stands.
Earlier(said, says) == IF said # {} THEN said ELSE says
Later(said, says) == IF says # {} THEN says ELSE said

\* rewriteFrame and rewriteResponsesFrame, as far as they read.
MeterFrame(endpoint, m, f) ==
    LET inside == IF endpoint = "responses" THEN UNION {x.usage : x \in f.response} ELSE {}
    IN  [usage |-> Later(Later(m.usage, ParseUsage(inside)), ParseUsage(f.usage)),
         chars |-> m.chars + f.text]

MeterDoc(doc) == [usage |-> UsageFromDoc(doc), chars |-> doc.text]

NoTokens == [in |-> 0, out |-> 0, cached |-> 0, reasoning |-> 0]

\* The counts of the row: as reported, or estimated from what went each way.
Counted(m, asked) ==
    IF m.usage # {}
    THEN [tokens |-> CHOOSE u \in m.usage : TRUE, estimated |-> FALSE]
    ELSE [tokens |-> [NoTokens EXCEPT !.in = EstimateTokens(asked), !.out = EstimateTokens(m.chars)],
          estimated |-> TRUE]
Uncounted == [tokens |-> NoTokens, estimated |-> FALSE]
==============================================================================
