------------------------------- MODULE Settings -------------------------------
(***************************************************************************)
(* The settings manager (src/internal/config/settings.go), the form of the *)
(* debug screen that turns recording on for a while                        *)
(* (src/internal/dashboard/debug.go) and the loop that turns it off again  *)
(* (src/internal/app/app.go). Update reads the live settings, persists the *)
(* fields of its patch and swaps its own copy of all the fields in, under  *)
(* no lock, so updates overlap.                                            *)
(*                                                                         *)
(* One knob stands for the settings that only have a range. A field that a *)
(* patch leaves out, or leaves blank, is the empty set.                    *)
(***************************************************************************)
EXTENDS Naturals, FiniteSets

CONSTANTS
    Pages,          \* dashboard pages, each with at most one post on its way
    Knobs,          \* the range of the knob
    DefaultKnob,    \* what it is set to when nothing is stored
    Forms,          \* what a page may post to settings/save and debug/save
    Windows,        \* debugDurations: the length of a window, by choice
    Horizon,        \* bound: the clock
    MaxPosts,       \* bound: posts of all pages
    MaxCrashes,     \* bound
    MaxFaults       \* bound: writes to the database that fail

Loop == "loop"      \* debugExpireLoop
Updaters == Pages \cup {Loop}

ASSUME SettingsAssumption ==
    /\ Loop \notin Pages /\ Horizon \in Nat /\ DefaultKnob \in Knobs
    /\ DOMAIN Windows \subseteq STRING /\ \A w \in DOMAIN Windows : Windows[w] \in Nat \ {0}
    /\ MaxPosts \in Nat /\ MaxCrashes \in Nat /\ MaxFaults \in Nat

VARIABLES
    set,        \* SettingsManager.cur
    kv,         \* what Load would make of the table settings
    upd,        \* the update of each updater
    now,        \* the clock; a deadline of 0 is no deadline
    posts,      \* posts so far, of the whole dashboard
    crashes,    \* crashes so far
    faults,     \* failed writes so far
    overlapped  \* history: two updates have overlapped since the start

settingsVars == <<set, kv, upd, now, faults, overlapped>>

NoPatch == [knob |-> {}, enabled |-> {}, until |-> {}]

DefaultSettings == [knob |-> DefaultKnob, enabled |-> FALSE, until |-> 0]

NoUpdate == [pc |-> "idle", patch |-> NoPatch, to |-> DefaultSettings]

-----------------------------------------------------------------------------
(* State functions *)

\* DebugOn.
DebugOn(s) == s.enabled /\ (s.until = 0 \/ now < s.until)

Field(v, p) == IF p = {} THEN v ELSE CHOOSE x \in p : TRUE

\* applySettingField, field by field. A value out of range is refused.
Patched(s, p) == [knob |-> Field(s.knob, p.knob),
                  enabled |-> Field(s.enabled, p.enabled),
                  until |-> Field(s.until, p.until)]
InRange(p) == p.knob \subseteq Knobs

\* An update between its read of the settings and the swap of its own.
Updating(u) == upd[u].pc \in {"persist", "swap"}

-----------------------------------------------------------------------------
(* Posts *)

Begin(u, p) ==
    /\ upd[u].pc = "idle"
    /\ upd' = [upd EXCEPT ![u] = [NoUpdate EXCEPT !.pc = "read", !.patch = p]]

SettingsSave(u, f) ==
    /\ f.act = "settings/save" /\ posts < MaxPosts
    /\ posts' = posts + 1
    /\ Begin(u, [NoPatch EXCEPT !.knob = f.knob])
    /\ UNCHANGED <<set, kv, now, crashes, faults, overlapped>>

\* debug_for, or what stands for it: an absent one is 15 minutes if the switch is
\* named, and so is a blank one.
Choice(f) == IF f.window # "" THEN f.window ELSE "15m"
Deadline(f) == IF Choice(f) \in DOMAIN Windows THEN now + Windows[Choice(f)] ELSE 0

\* The post says on or off, or asks for a window only and takes the switch as
\* it is by now.
DebugSave(u, f) ==
    /\ f.act = "debug/save" /\ posts < MaxPosts
    /\ posts' = posts + 1
    /\ IF Choice(f) \in DOMAIN Windows \cup {"never"}
       THEN LET on == Field(DebugOn(set), f.enabled)
            IN  Begin(u, [NoPatch EXCEPT !.enabled = f.enabled,
                                         !.until = {IF on THEN Deadline(f) ELSE 0}])
       ELSE upd[u].pc = "idle" /\ UNCHANGED upd
    /\ UNCHANGED <<set, kv, now, crashes, faults, overlapped>>

\* Slip: the loop closes the window by its deadline alone.
ExpireForgetsSwitch ==
    /\ set.enabled /\ set.until # 0 /\ now >= set.until
    /\ Begin(Loop, [NoPatch EXCEPT !.until = {now}])
    /\ UNCHANGED <<set, kv, now, posts, crashes, faults, overlapped>>
\* debugExpireLoop, every five seconds.
Expire ==
    /\ set.enabled /\ set.until # 0 /\ now >= set.until
    /\ Begin(Loop, [NoPatch EXCEPT !.enabled = {FALSE}, !.until = {0}])
    /\ UNCHANGED <<set, kv, now, posts, crashes, faults, overlapped>>

-----------------------------------------------------------------------------
(* Update *)

UpdateRead(u) ==
    /\ upd[u].pc = "read"
    /\ upd' = [upd EXCEPT ![u] =
                 IF InRange(upd[u].patch)
                 THEN [@ EXCEPT !.pc = "persist", !.to = Patched(set, upd[u].patch)]
                 ELSE NoUpdate]
    /\ overlapped' = (overlapped \/ (InRange(upd[u].patch) /\ \E v \in Updaters : Updating(v)))
    /\ UNCHANGED <<set, kv, now, posts, crashes, faults>>

UpdatePersist(u) ==
    /\ upd[u].pc = "persist"
    /\ kv' = Patched(kv, upd[u].patch)
    /\ upd' = [upd EXCEPT ![u].pc = "swap"]
    /\ UNCHANGED <<set, now, posts, crashes, faults, overlapped>>

\* Slip: the failure is noticed once the settings are swapped.
UpdateFailsLate(u) ==
    /\ upd[u].pc = "persist" /\ faults < MaxFaults
    /\ faults' = faults + 1
    /\ set' = upd[u].to
    /\ upd' = [upd EXCEPT ![u] = NoUpdate]
    /\ UNCHANGED <<kv, now, posts, crashes, overlapped>>
\* The write fails, and nothing is changed.
UpdateFails(u) ==
    /\ upd[u].pc = "persist" /\ faults < MaxFaults
    /\ faults' = faults + 1
    /\ upd' = [upd EXCEPT ![u] = NoUpdate]
    /\ UNCHANGED <<set, kv, now, posts, crashes, overlapped>>

\* The swap, and the callbacks, that Health models.
UpdateSwap(u) ==
    /\ upd[u].pc = "swap"
    /\ set' = upd[u].to
    /\ upd' = [upd EXCEPT ![u] = NoUpdate]
    /\ UNCHANGED <<kv, now, posts, crashes, faults, overlapped>>

Update(u) == UpdateRead(u) \/ UpdatePersist(u) \/ UpdateFails(u) \/ UpdateSwap(u)

\* The process dies and starts again: Load reads what was persisted.
Reload ==
    /\ set' = kv
    /\ upd' = [u \in Updaters |-> NoUpdate]
    /\ overlapped' = FALSE
    /\ UNCHANGED <<kv, now, faults>>

Tick ==
    /\ now < Horizon
    /\ now' = now + 1
    /\ UNCHANGED <<set, kv, upd, posts, crashes, faults, overlapped>>

-----------------------------------------------------------------------------
(* Startup, and what a page may do *)

SettingsInit ==
    /\ set = DefaultSettings /\ kv = set
    /\ upd = [u \in Updaters |-> NoUpdate]
    /\ now = 1 /\ posts = 0 /\ crashes = 0 /\ faults = 0
    /\ overlapped = FALSE

SettingsPost(u) == \E f \in Forms : SettingsSave(u, f) \/ DebugSave(u, f)

-----------------------------------------------------------------------------
(* Properties *)

\* While no two updates overlap, the program runs on what a restart would bring
\* back, but for an update that is about to swap its copy in.
SettingsKept ==
    ~overlapped /\ (\A u \in Updaters : upd[u].pc # "swap") => set = kv

\* A window that is past its deadline is shown as closed in the end, whatever
\* updates, failures and restarts come between, or it has another deadline.
WindowsClose ==
    set.enabled /\ set.until # 0 /\ now >= set.until
        ~> ~set.enabled \/ set.until = 0 \/ now < set.until
==============================================================================
