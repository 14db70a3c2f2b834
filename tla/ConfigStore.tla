------------------------------ MODULE ConfigStore ------------------------------
(***************************************************************************)
(* The configuration file and the processes that share it                  *)
(* (src/internal/config/store.go): the startup load, the watcher that      *)
(* polls the file, the dashboard's saves, and the operator who edits the   *)
(* file by hand. Store.mu covers the fields of the store, not the file:    *)
(* the watcher reads the file before it takes the lock, and every apply    *)
(* calls the health manager after it has released it.                      *)
(*                                                                         *)
(* sha256 tells contents apart, so a hash is written as the contents it    *)
(* is the hash of; the hash "" is NoFile, for it stands both for "there    *)
(* is no file" and for the zero value of a hash.                           *)
(***************************************************************************)
EXTENDS TLC

CONSTANTS
    Configs,    \* the configurations a valid document may describe
    Empty,      \* the configuration without hosts
    Invalid,    \* a configuration that fails validation once written out
    Savers,     \* dashboard pages, each with the form it shows
    Edits       \* the contents an operator may leave the file with

\* Contents of the file: written by a save, or by hand (the same
\* configuration in another layout), or refused by validation.
Canonical(c) == [form |-> "canonical", cfg |-> c]
ByHand(c) == [form |-> "hand", cfg |-> c]
Broken == [form |-> "broken", cfg |-> Empty]
NoFile == [form |-> "none", cfg |-> Empty]

Contents ==
    {Canonical(c) : c \in Configs} \cup {ByHand(c) : c \in Configs} \cup {Broken, NoFile}

ASSUME ConfigsAssumption == Empty \in Configs /\ Invalid \notin Configs
ASSUME EditsAssumption == Edits \subseteq Contents

\* ParseAndValidate accepts d, and the configuration it then returns.
Valid(d) == d.form # "broken"
Parsed(d) == d.cfg

VARIABLES
    disk,       \* the contents of the file
    up,         \* the process is past Load
    cur,        \* Store.cur: the live configuration and the hash forms carry
    fileHash,   \* Store.fileHash
    lastErr,    \* whether Store.lastErr holds a message
    attempted,  \* Store.attempted
    mu,         \* who holds Store.mu across steps: a saver, or nobody
    poller,     \* where the watcher is in poll
    seen,       \* what poll read
    pc,         \* where each saver is
    form,       \* the hash in the form of each saver
    cfg,        \* the configuration each saver is saving
    running,    \* the configuration the health manager last applied
    overtaken   \* no code: the file has changed since the watcher read it, by hand or
                \* by a save that ran while a poll was on its way to the comparison

store == <<cur, fileHash, lastErr, attempted>>
watcher == <<poller, seen>>
savers == <<pc, form, cfg>>
vars == <<disk, up, store, mu, watcher, savers, running, overtaken>>

Nobody == "nobody"

ASSUME SaversAssumption == Nobody \notin Savers

PollStates == {"asleep", "compare", "record", "swap", "apply", "notify"}
SaveStates == {"browse", "form", "submit", "write", "commit", "notify"}

\* In Save, past its first check.
Saving(s) == pc[s] \in {"submit", "write", "commit", "notify"}

-----------------------------------------------------------------------------
(* Startup, crash, and the operator *)

\* NewStore.
Fresh ==
    /\ cur = [config |-> Empty, hash |-> NoFile]
    /\ fileHash = NoFile
    /\ lastErr = FALSE
    /\ attempted = NoFile

Init ==
    /\ disk \in Edits
    /\ up = FALSE
    /\ Fresh
    /\ mu = Nobody
    /\ poller = "asleep"
    /\ seen = NoFile
    /\ pc = [s \in Savers |-> "browse"]
    /\ form = [s \in Savers |-> NoFile]
    /\ cfg = [s \in Savers |-> Empty]
    /\ running = Empty
    /\ overtaken = FALSE

\* Load, run alone before the watcher and the dashboard exist. The message
\* of an invalid file is recorded, then cleared by the apply that follows.
Load ==
    /\ ~up
    /\ up' = TRUE
    /\ LET live == IF Valid(disk) THEN Parsed(disk) ELSE Empty
       IN /\ cur' = [config |-> live, hash |-> disk]
          /\ running' = live
    /\ fileHash' = disk
    /\ lastErr' = FALSE
    /\ overtaken' = FALSE
    /\ UNCHANGED <<disk, attempted, mu, watcher, savers>>

\* The process dies, between any two steps; a page stays open in its browser.
Crash ==
    /\ up
    /\ up' = FALSE
    /\ cur' = [config |-> Empty, hash |-> NoFile]
    /\ fileHash' = NoFile
    /\ lastErr' = FALSE
    /\ attempted' = NoFile
    /\ mu' = Nobody
    /\ poller' = "asleep"
    /\ seen' = NoFile
    /\ pc' = [s \in Savers |-> IF pc[s] = "browse" THEN "browse" ELSE "form"]
    /\ cfg' = [s \in Savers |-> Empty]
    /\ running' = Empty
    /\ UNCHANGED <<disk, form, overtaken>>

\* The operator writes, replaces or removes the file.
HandEdit(d) ==
    /\ d # disk
    /\ disk' = d
    /\ overtaken' = TRUE
    /\ UNCHANGED <<up, store, mu, watcher, savers, running>>

-----------------------------------------------------------------------------
(* The watcher: one poll a second, one at a time *)

\* read, outside the lock.
PollRead ==
    /\ up /\ poller = "asleep"
    /\ poller' = "compare"
    /\ seen' = disk
    /\ overtaken' = FALSE
    /\ UNCHANGED <<disk, up, store, mu, savers, running>>

\* The contents are the ones last observed.
PollSame ==
    /\ seen = fileHash
    /\ attempted' = NoFile
    /\ poller' = "asleep"
    /\ UNCHANGED fileHash

\* Slip: the hash of contents known to be broken is not kept.
PollDiffersBrokenForgotten ==
    /\ seen # fileHash
    /\ fileHash' = IF seen = attempted THEN fileHash ELSE seen
    /\ poller' = IF seen = attempted THEN "swap" ELSE IF Valid(seen) THEN "apply" ELSE "record"
    /\ UNCHANGED attempted

\* They are others: the known hash follows the file, whatever comes of it.
PollDiffers ==
    /\ seen # fileHash
    /\ fileHash' = seen
    /\ poller' = IF seen = attempted THEN "swap" ELSE IF Valid(seen) THEN "apply" ELSE "record"
    /\ UNCHANGED attempted

\* The first locked section of poll.
PollCompare ==
    /\ poller = "compare" /\ mu = Nobody
    /\ PollSame \/ PollDiffers
    /\ UNCHANGED <<disk, up, cur, lastErr, mu, seen, savers, running, overtaken>>

\* Invalid contents: remember them and show the message.
PollRecord ==
    /\ poller = "record" /\ mu = Nobody
    /\ attempted' = seen
    /\ lastErr' = TRUE
    /\ poller' = "swap"
    /\ UNCHANGED <<disk, up, cur, fileHash, mu, seen, savers, running, overtaken>>

\* swapHash: forms carry the new hash, the live configuration stays.
PollSwap ==
    /\ poller = "swap" /\ mu = Nobody
    /\ cur' = [cur EXCEPT !.hash = seen]
    /\ poller' = "asleep"
    /\ UNCHANGED <<disk, up, fileHash, lastErr, attempted, mu, seen, savers, running, overtaken>>

\* Slip: the hash of the file last observed, not of the one that was parsed.
PollApplyLatestHash ==
    /\ poller = "apply" /\ mu = Nobody
    /\ cur' = [config |-> Parsed(seen), hash |-> fileHash]
    /\ lastErr' = FALSE
    /\ poller' = "notify"
    /\ UNCHANGED <<disk, up, fileHash, attempted, mu, seen, savers, running, overtaken>>

\* Slip: contents that describe the live configuration are not applied.
PollApplyUnlessSame ==
    /\ poller = "apply" /\ mu = Nobody
    /\ cur' = IF cur.config = Parsed(seen) THEN cur ELSE [config |-> Parsed(seen), hash |-> seen]
    /\ lastErr' = FALSE
    /\ poller' = "notify"
    /\ UNCHANGED <<disk, up, fileHash, attempted, mu, seen, savers, running, overtaken>>

\* apply, its locked section, then its callbacks.
PollApply ==
    /\ poller = "apply" /\ mu = Nobody
    /\ cur' = [config |-> Parsed(seen), hash |-> seen]
    /\ lastErr' = FALSE
    /\ poller' = "notify"
    /\ UNCHANGED <<disk, up, fileHash, attempted, mu, seen, savers, running, overtaken>>

PollNotify ==
    /\ poller = "notify"
    /\ running' = Parsed(seen)
    /\ poller' = "asleep"
    /\ UNCHANGED <<disk, up, store, mu, seen, savers, overtaken>>

-----------------------------------------------------------------------------
(* Dashboard saves *)

\* A page is rendered, or rendered anew: its form carries the live hash.
OpenForm(s) ==
    /\ up /\ pc[s] \in {"browse", "form"} /\ mu = Nobody
    /\ pc' = [pc EXCEPT ![s] = "form"]
    /\ form' = [form EXCEPT ![s] = cur.hash]
    /\ UNCHANGED <<disk, up, store, mu, watcher, cfg, running, overtaken>>

\* A form is submitted. What saveCopy or an import makes of it may be any
\* configuration, one that validation refuses included.
Submit(s, c) ==
    /\ up /\ pc[s] = "form"
    /\ pc' = [pc EXCEPT ![s] = "submit"]
    /\ cfg' = [cfg EXCEPT ![s] = c]
    /\ UNCHANGED <<disk, up, store, mu, watcher, form, running, overtaken>>

\* Slip: an early return that leaves the lock held.
SaveRefusedLocked(s) ==
    /\ pc[s] = "submit" /\ mu = Nobody
    /\ form[s] # fileHash \/ cfg[s] = Invalid
    /\ pc' = [pc EXCEPT ![s] = "form"]
    /\ cfg' = [cfg EXCEPT ![s] = Empty]
    /\ mu' = s
    /\ UNCHANGED <<disk, up, store, watcher, form, running, overtaken>>

\* ErrStaleSave, or a ValidationError.
SaveRefused(s) ==
    /\ pc[s] = "submit" /\ mu = Nobody
    /\ form[s] # fileHash \/ cfg[s] = Invalid
    /\ pc' = [pc EXCEPT ![s] = "form"]
    /\ cfg' = [cfg EXCEPT ![s] = Empty]
    /\ UNCHANGED <<disk, up, store, mu, watcher, form, running, overtaken>>

\* Slip: the canonical document is not validated again.
SaveAcceptedUnvalidated(s) ==
    /\ pc[s] = "submit" /\ mu = Nobody
    /\ form[s] = fileHash
    /\ pc' = [pc EXCEPT ![s] = "write"]
    /\ mu' = s
    /\ UNCHANGED <<disk, up, store, watcher, form, cfg, running, overtaken>>

SaveAccepted(s) ==
    /\ pc[s] = "submit" /\ mu = Nobody
    /\ form[s] = fileHash
    /\ cfg[s] # Invalid
    /\ pc' = [pc EXCEPT ![s] = "write"]
    /\ mu' = s
    /\ UNCHANGED <<disk, up, store, watcher, form, cfg, running, overtaken>>

\* writeLocked returns an error: the file is untouched.
SaveWriteFails(s) ==
    /\ pc[s] = "write"
    /\ pc' = [pc EXCEPT ![s] = "form"]
    /\ cfg' = [cfg EXCEPT ![s] = Empty]
    /\ mu' = Nobody
    /\ UNCHANGED <<disk, up, store, watcher, form, running, overtaken>>

\* writeLocked renames its temporary file over the configuration. A watcher
\* that has read the former contents and not compared them is overtaken.
SaveWrite(s) ==
    /\ pc[s] = "write"
    /\ disk' = Canonical(cfg[s])
    /\ pc' = [pc EXCEPT ![s] = "commit"]
    /\ overtaken' = (overtaken \/ poller = "compare")
    /\ UNCHANGED <<up, store, mu, watcher, form, cfg, running>>

\* Slip: the known hash left for the watcher to find.
SaveCommitHashLeft(s) ==
    /\ pc[s] = "commit"
    /\ cur' = [config |-> cfg[s], hash |-> Canonical(cfg[s])]
    /\ lastErr' = FALSE
    /\ attempted' = NoFile
    /\ mu' = Nobody
    /\ pc' = [pc EXCEPT ![s] = "notify"]
    /\ UNCHANGED <<disk, up, fileHash, watcher, form, cfg, running, overtaken>>

SaveCommit(s) ==
    /\ pc[s] = "commit"
    /\ cur' = [config |-> cfg[s], hash |-> Canonical(cfg[s])]
    /\ fileHash' = Canonical(cfg[s])
    /\ lastErr' = FALSE
    /\ attempted' = NoFile
    /\ mu' = Nobody
    /\ pc' = [pc EXCEPT ![s] = "notify"]
    /\ UNCHANGED <<disk, up, watcher, form, cfg, running, overtaken>>

\* The callbacks, then the answer, which hands the page the new hash.
SaveNotify(s) ==
    /\ pc[s] = "notify"
    /\ running' = cfg[s]
    /\ form' = [form EXCEPT ![s] = Canonical(cfg[s])]
    /\ cfg' = [cfg EXCEPT ![s] = Empty]
    /\ pc' = [pc EXCEPT ![s] = "form"]
    /\ UNCHANGED <<disk, up, store, mu, watcher, overtaken>>

-----------------------------------------------------------------------------
Poll == PollRead \/ PollCompare \/ PollRecord \/ PollSwap \/ PollApply \/ PollNotify

\* Save from its lock to its answer.
Save(s) ==
    \/ SaveRefused(s) \/ SaveAccepted(s)
    \/ SaveWriteFails(s) \/ SaveWrite(s)
    \/ SaveCommit(s) \/ SaveNotify(s)

Next ==
    \/ Load \/ Crash \/ Poll
    \/ \E d \in Edits : HandEdit(d)
    \/ \E s \in Savers :
          \/ OpenForm(s) \/ Save(s)
          \/ \E c \in Configs \cup {Invalid} : Submit(s, c)

Spec == Init /\ [][Next]_vars

\* The ticker and the scheduler keep the watcher and every call of Save
\* going; sync.Mutex starves nobody that waits for it. The operator, the
\* pages and crashes owe nothing.
FairSpec ==
    /\ Spec
    /\ WF_vars(Load)
    /\ SF_vars(Poll)
    /\ \A s \in Savers : SF_vars(Save(s))

-----------------------------------------------------------------------------
(* Properties *)

\* Every variable stays in the range the code gives it.
TypeOK ==
    /\ disk \in Contents
    /\ up \in BOOLEAN
    /\ cur \in [config : Configs, hash : Contents]
    /\ fileHash \in Contents
    /\ lastErr \in BOOLEAN
    /\ attempted \in {Broken, NoFile}
    /\ mu \in Savers \cup {Nobody}
    /\ poller \in PollStates
    /\ seen \in Contents
    /\ pc \in [Savers -> SaveStates]
    /\ form \in [Savers -> Contents]
    /\ cfg \in [Savers -> Configs \cup {Invalid}]
    /\ running \in Configs
    /\ overtaken \in BOOLEAN

\* A form shows what its hash names: whatever the watcher and the saves did in
\* between, when the hash the live configuration carries is that of a valid
\* file, the live configuration is the one of that file. (swapHash gives the
\* live configuration the hash of a file it was not parsed from; it may do so
\* for a broken file, and for a file that is gone.)
FormShowsItsFile ==
    cur.hash.form \in {"canonical", "hand"} => cur.config = Parsed(cur.hash)

\* The stale-save guard compares with fileHash, so it is only as good as
\* fileHash is: outside the write of a save, the store knows the file's
\* contents, unless the file was edited, or a save overtook a poll, since the
\* watcher last read it.
GuardKnowsFile ==
    up /\ poller # "compare" /\ (\A s \in Savers : pc[s] # "commit") /\ ~overtaken
        => fileHash = disk

\* One saver is inside the write at a time, and it is the one that holds the
\* lock, so no early return of Save leaves it held.
OneWriter ==
    \A s \in Savers : pc[s] \in {"write", "commit"} <=> mu = s

\* Every submitted form gets an answer, whatever the watcher and the other
\* savers do with the lock.
SavesAnswered == \A s \in Savers : Saving(s) ~> ~Saving(s)

\* Once the file stops changing, the store knows what it holds for good, even
\* when the contents are broken or have been tried before.
FileBecomesKnown == \A d \in Contents : <>[](disk = d /\ up) => <>[](fileHash = d)

\* An edit the store has not observed yet, of contents it has not refused
\* before, is honoured if it is left alone and nobody saves: valid contents
\* end up live in the store and in the health manager, broken ones end up
\* with a message and leave the live configuration to the last valid file.
\* It holds whatever disagreement earlier races had left behind.
Alone(d) == disk = d /\ up /\ \A s \in Savers : ~Saving(s)
Honoured(d) ==
    IF Valid(d) THEN cur = [config |-> Parsed(d), hash |-> d] /\ running = Parsed(d)
                ELSE lastErr /\ cur.hash = d
HandEditsHonoured ==
    \A d \in Contents \ {NoFile} :
        [](fileHash # d /\ attempted # d /\ []Alone(d) => <>[]Honoured(d))

\* What the documentation says of the guard: a form opened before the file
\* changed on disk is refused, so a save writes over the contents it showed.
\* (It does not hold: see the README.)
SavesRaceNoEdit == [][\A s \in Savers : SaveWrite(s) => form[s] = disk]_vars

\* What the documentation says of the watcher: a save is never reported back
\* as a hand edit. Only saves write canonical contents here. (It does not hold.)
OwnWritesAreNotEdits == [][PollApply => seen.form # "canonical"]_vars
==============================================================================
