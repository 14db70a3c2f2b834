----------------------------- MODULE MCConfigStore -----------------------------
(* Instances of ConfigStore for TLC. *)
EXTENDS ConfigStore

CONSTANTS c0, c1, bad, s1, s2

\* A hand-written configuration, a broken file, and no file.
MCEdits == {ByHand(c1), Broken, NoFile}
==============================================================================
