---------------------------- MODULE MCLoginStore ----------------------------
(* A small database for TLC. *)
EXTENDS LoginStore

CONSTANTS nas, nightly

OneDest == {nas}
OneLink == {<<nightly, nas>>}
=============================================================================
