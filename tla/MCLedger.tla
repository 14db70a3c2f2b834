-------------------------------- MODULE MCLedger --------------------------------
(* An instance of Ledger for TLC: the second life is a release with one more   *)
(* migration.                                                                  *)
EXTENDS Ledger

MCReleases == <<1, 2>>
==============================================================================
