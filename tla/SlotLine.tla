------------------------------ MODULE SlotLine ------------------------------
(***************************************************************************)
(* What a server's slot queue promises to the requests that use it:        *)
(* admission in order of arrival, no slot ever lost, and no slot ever made *)
(* except when the configuration changes max_concurrency.                  *)
(*                                                                         *)
(* A request is admitted in one step here; FairSem, which implements this  *)
(* specification, delivers the grant through a channel the request reads   *)
(* later, and lets a cancellation race it.                                 *)
(***************************************************************************)
EXTENDS Integers, Sequences, FiniteSets, SequencesExt

CONSTANTS
    Reqs,       \* the requests that compete for one server
    Caps        \* the values max_concurrency may take; 0 is unlimited

VARIABLES
    limit,      \* the cap in force
    slots,      \* slots in circulation (free or held) while there is a cap, else 0
    holders,    \* the requests admitted and not finished
    line        \* the requests queued, longest waiting first

vars == <<limit, slots, holders, line>>

InLine == ToSet(line)

Init ==
    /\ limit \in Caps
    /\ slots = limit
    /\ holders = {}
    /\ line = <<>>

Room == limit = 0 \/ Cardinality(holders) < slots

\* A newcomer is admitted when a slot is free, and never ahead of a queued request.
Enter(r) ==
    /\ r \notin holders \cup InLine
    /\ \/ /\ Room /\ line = <<>>
          /\ holders' = holders \cup {r}
          /\ line' = line
       \/ /\ ~Room
          /\ line' = Append(line, r)
          /\ holders' = holders
    /\ UNCHANGED <<limit, slots>>

\* A finished request hands its slot to the head of the line. With nobody in
\* line the slot is free again, or retired when the free ones would outnumber
\* the cap.
Finish(r) ==
    /\ r \in holders
    /\ IF line # <<>> 
       THEN /\ holders' = (holders \ {r}) \cup {Head(line)}
            /\ line' = Tail(line)
            /\ slots' = slots
       ELSE /\ holders' = holders \ {r}
            /\ line' = line
            /\ slots' = IF limit = 0 THEN 0
                        ELSE Min({slots, limit + Cardinality(holders')})
    /\ limit' = limit

\* A queued request gives up.
Quit(r) ==
    /\ r \in InLine
    /\ line' = RemoveFirst(line, r)
    /\ UNCHANGED <<limit, slots, holders>>

\* The slots in circulation follow the cap, but a held slot is not withdrawn,
\* and those held without a cap are on top of it.
Recount(c) ==
    IF limit = 0 THEN c + Cardinality(holders)
    ELSE Max({slots + c - limit, Cardinality(holders)})

\* The cap changes: the head of the line is admitted into whatever room that makes.
Resize(c) ==
    /\ c # limit
    /\ limit' = c
    /\ \E n \in 0 .. Len(line) :
         /\ holders' = holders \cup ToSet(SubSeq(line, 1, n))
         /\ line' = SubSeq(line, n + 1, Len(line))
         /\ \/ c = 0 /\ n = Len(line) /\ slots' = 0
            \/ /\ c > 0
               /\ slots' = Recount(c)
               /\ n = Min({Len(line), slots' - Cardinality(holders)})

Next ==
    \/ \E r \in Reqs : Enter(r) \/ Finish(r) \/ Quit(r)
    \/ \E c \in Caps : Resize(c)

Spec == Init /\ [][Next]_vars
=============================================================================
