------------------------------- MODULE Dashboard -------------------------------
(***************************************************************************)
(* The dashboard at work: pages that post forms                            *)
(* (src/internal/dashboard/actions.go), the configuration the posts change *)
(* (src/internal/config/store.go), the settings, and the operator who      *)
(* edits the file by hand. Document says what a post makes of a            *)
(* configuration, Settings what it makes of the settings; here the posts   *)
(* of several pages, the polls of the file and restarts interleave.        *)
(*                                                                         *)
(* A post that edits one section checks the live configuration, then       *)
(* copies it and edits the copy, then saves the copy under the hash that   *)
(* was in its form. ConfigStore models the steps inside a save and a poll; *)
(* here each is one step.                                                  *)
(***************************************************************************)
EXTENDS Document, Settings

CONSTANTS
    Posts,      \* what the pages may post to the document
    Files,      \* the contents the operator may leave the file with
    MaxEdits    \* bound: edits by hand

ASSUME DashboardAssumption == Files # {} /\ MaxEdits \in Nat
\* What is parsed has the fields of the struct it is parsed into.
ASSUME ParsedAssumption ==
    /\ \A t \in Files : IsDocument(t.doc)
    /\ \A f \in Posts :
          CASE f.act = "host/save" -> IsHost(f.host)
            [] f.act = "server/save" -> IsServer(f.server)
            [] f.act = "prices/save" -> IsPrices(SectionOf(f))
            [] f.act = "route/save" -> IsRoute(RouteOf(f))
            [] f.act \in {"config/save", "config/import"} -> IsDocument(f.text.doc)
            [] OTHER -> TRUE

VARIABLES
    file,       \* the contents of the configuration file
    known,      \* Store.fileHash, and the hash new forms carry
    live,       \* Store.cur: the configuration in effect
    page,       \* the hash in the form of each page
    req,        \* the post of each page that is being answered
    staged,     \* imports: what each page has staged last, and its preview, if any
    edits,      \* edits by hand so far
    past        \* history: the contents known before

documentVars == <<file, known, live, page, req, staged, edits, past>>
vars == <<documentVars, settingsVars, posts, crashes>>

Request(pc, post, draft, from) == [pc |-> pc, post |-> post, draft |-> draft, from |-> from]
NoRequest == Request("idle", [act |-> "none"], Empty, {})
Sections == {"host/save", "host/delete", "server/save", "server/delete",
             "prices/save", "catalog/apply", "route/save", "route/delete"}

Idle(p) == req[p].pc = "idle" /\ upd[p].pc = "idle"

\* Load and poll: a text that is not valid leaves the configuration as it was.
Read(t, old) == IF Valid(t) THEN Parsed(t.doc) ELSE old

-----------------------------------------------------------------------------
(* Pages *)

\* A page shows the configuration and the hash that goes with it.
OpenPage(p) ==
    /\ Idle(p) /\ page[p] # known
    /\ page' = [page EXCEPT ![p] = known]
    /\ UNCHANGED <<file, known, live, req, staged, edits, past, settingsVars, posts, crashes>>

Posting(p, f) ==
    /\ Idle(p) /\ posts < MaxPosts
    /\ posts' = posts + 1
    /\ UNCHANGED <<file, known, live, page, edits, past, settingsVars, crashes>>

\* The post of one section is refused, or goes on to copy the configuration.
PostSection(p, f) ==
    /\ f.act \in Sections
    /\ Posting(p, f)
    /\ req' = IF Answerable(live, f)
              THEN [req EXCEPT ![p] = Request("checked", f, Empty, {})]
              ELSE req
    /\ UNCHANGED staged

\* config/save, and config/import/apply of a text: the whole document.
PostDocument(p, f) ==
    /\ f.act = "config/save"
    /\ Posting(p, f)
    /\ req' = IF Valid(f.text)
              THEN [req EXCEPT ![p] = Request("drafted", f, Parsed(f.text.doc), {})]
              ELSE req
    /\ UNCHANGED staged

\* config/import: nothing is staged of a document that is not valid.
PostImport(p, f) ==
    /\ f.act = "config/import"
    /\ Posting(p, f)
    /\ staged' = IF Valid(f.text)
                 THEN [staged EXCEPT ![p] = {[cfg |-> Parsed(f.text.doc), hash |-> known,
                                              preview |-> Preview(live, Parsed(f.text.doc))]}]
                 ELSE staged
    /\ UNCHANGED req

\* config/import/apply of what was staged, which is gone then, saved or not. The
\* hash it was staged under is not looked at.
PostApply(p, f) ==
    /\ f.act = "config/import/apply"
    /\ Posting(p, f)
    /\ staged' = [staged EXCEPT ![p] = {}]
    /\ \/ staged[p] = {} /\ UNCHANGED req
       \/ \E i \in staged[p] :
             req' = [req EXCEPT ![p] = Request("drafted", f, i.cfg, {i})]

Post(p) == \E f \in Posts : PostSection(p, f) \/ PostDocument(p, f) \/ PostImport(p, f) \/ PostApply(p, f)

-----------------------------------------------------------------------------
(* saveCopy and Save *)

\* A copy that has an entry twice breaks the rules, and Save refuses it.
Clone(p) ==
    /\ req[p].pc = "checked"
    /\ req' = IF Doubles(live, req[p].post)
              THEN [req EXCEPT ![p] = NoRequest]
              ELSE [req EXCEPT ![p] =
                      Request("drafted", req[p].post, Applied(live, req[p].post), req[p].from)]
    /\ UNCHANGED <<file, known, live, page, staged, edits, past, settingsVars, posts, crashes>>

Commit(text, d) ==
    /\ file' = text /\ known' = text /\ live' = d
    /\ past' = past \cup {known}

\* Slip: whichever form comes last wins.
SaveAnyForm(p) ==
    /\ req[p].pc = "drafted"
    /\ req' = [req EXCEPT ![p] = NoRequest]
    /\ LET text == Canonical(req[p].draft)
       IN  IF Apart(req[p].draft) /\ Valid(text) THEN Commit(text, req[p].draft)
           ELSE UNCHANGED <<file, known, live, past>>
    /\ UNCHANGED <<page, staged, edits, settingsVars, posts, crashes>>
\* The form is of this file, and what would be written is valid; the copy itself
\* becomes the configuration in effect.
SaveDraft(p) ==
    /\ req[p].pc = "drafted"
    /\ req' = [req EXCEPT ![p] = NoRequest]
    /\ LET text == Canonical(req[p].draft)
       IN  IF page[p] = known /\ Apart(req[p].draft) /\ Valid(text)
           THEN Commit(text, req[p].draft)
           ELSE UNCHANGED <<file, known, live, past>>
    /\ UNCHANGED <<page, staged, edits, settingsVars, posts, crashes>>

-----------------------------------------------------------------------------
(* The operator, the watcher and restarts *)

HandEdit ==
    /\ edits < MaxEdits
    /\ edits' = edits + 1
    /\ file' \in Files \ {file}
    /\ UNCHANGED <<known, live, page, req, staged, past, settingsVars, posts, crashes>>

\* Slip: a file whose hash is new is taken note of and then forgotten.
PollNotes ==
    /\ file # known
    /\ known' = file
    /\ past' = past \cup {known}
    /\ UNCHANGED <<file, live, page, req, staged, edits, settingsVars, posts, crashes>>
Poll ==
    /\ file # known
    /\ known' = file
    /\ live' = Read(file, live)
    /\ past' = past \cup {known}
    /\ UNCHANGED <<file, page, req, staged, edits, settingsVars, posts, crashes>>

\* The process dies and starts again; pages stay open in their browsers.
Restart ==
    /\ crashes < MaxCrashes
    /\ crashes' = crashes + 1
    /\ known' = file
    /\ live' = Read(file, Empty)
    /\ past' = past \cup ({known} \ {file})
    /\ req' = [p \in Pages |-> NoRequest]
    /\ staged' = [p \in Pages |-> {}]
    /\ Reload
    /\ UNCHANGED <<file, page, edits, posts>>

-----------------------------------------------------------------------------
(* Specification *)

Init ==
    /\ file \in Files
    /\ known = file
    /\ live = Read(file, Empty)
    /\ page = [p \in Pages |-> known]
    /\ req = [p \in Pages |-> NoRequest]
    /\ staged = [p \in Pages |-> {}]
    /\ edits = 0 /\ past = {}
    /\ SettingsInit

Next ==
    \/ \E p \in Pages : OpenPage(p) \/ Post(p) \/ Clone(p) \/ SaveDraft(p)
    \/ HandEdit \/ Poll \/ Restart
    \/ \E p \in Pages : Idle(p) /\ SettingsPost(p) /\ UNCHANGED documentVars
    \/ (\E u \in Updaters : Update(u)) /\ UNCHANGED documentVars
    \/ (Expire \/ Tick) /\ UNCHANGED documentVars

\* The loop of the settings looks again every five seconds, and an update that
\* began goes on to its end: its only wait is for a transaction.
Fairness ==
    /\ WF_vars(Expire /\ UNCHANGED documentVars)
    /\ \A u \in Updaters : WF_vars(Update(u) /\ UNCHANGED documentVars)

Spec == Init /\ [][Next]_vars /\ Fairness

-----------------------------------------------------------------------------
(* Properties *)

\* Forms are of one piece with the file they were made from: whatever is saved,
\* edited, polled or restarted, the configuration in effect means what reading the
\* file of the known hash would put in effect, unless that file is not valid. A save
\* keeps what was posted in effect, and a read of what it wrote gives something else
\* in three ways. A currency in lower case is read in upper case, which only shows.
\* A price without a rate is written as free, and a price section without entries is
\* left out, so that catalog/apply, which asks for its currency, may refuse now what
\* it allows after a restart: Complete sets these two aside.
LiveMatchesFile ==
    Valid(known) /\ Complete(live) => Means(live) = Means(Parsed(known.doc))

\* The names of the configuration in effect are clear, whatever was saved one
\* section at a time: a name has one price, an address is of one host, an alias
\* names one route in any case, and each member of a route is on a server that
\* is still there.
ClearNames(d) ==
    /\ \A n \in Names : Cardinality(Lookup(d.prices, n)) <= 1
    /\ \A h, g \in d.hosts :
           h = g \/ (AddressesOf(h) \cap AddressesOf(g) = {} /\ ~EqualFold(h.id, g.id))
    /\ \A r, q \in d.routes : EqualFold(r.alias, q.alias) => r = q
    /\ \A r \in d.routes : \A i \in DOMAIN r.members :
           LET id == r.members[i].model
           IN  \E h \in d.hosts : \E s \in h.servers : PublishID(BaseModelOf(id), s.id, h.id) = id
NamesAreClear == ClearNames(live)

\* Page p is about to save, under the hash of a file that has not come back after
\* a change: the hash then says what is in effect.
Saves(p) ==
    /\ req[p].pc = "drafted" /\ req'[p].pc = "idle" /\ known' # known /\ UNCHANGED crashes
    /\ known \notin past

\* A save of one section changes what its post asks for and keeps the rest as it
\* is at that moment, though the copy was made earlier, from a configuration
\* others may have changed since. A rate of the catalogue never replaces an entry
\* nobody agreed to replace.
KeepsTheRest(f) ==
    /\ Means(live') = Means(Applied(live, f))
    /\ f.act = "catalog/apply" /\ ~f.overwrite =>
           \A n \in Names : Lookup(live.prices, n) \subseteq Lookup(live'.prices, n)

\* An import that is applied to the file it was staged under changes the hosts and
\* routes its preview named.
AsPreviewed(i) == i.hash = known => Preview(live, live') = i.preview

\* No save loses another one, and none does what nobody was shown.
SavesKeepTheRest ==
    [][\A p \in Pages : Saves(p) =>
           /\ req[p].post.act \in Sections => KeepsTheRest(req[p].post)
           /\ \A i \in req[p].from : AsPreviewed(i)]_vars
==============================================================================
