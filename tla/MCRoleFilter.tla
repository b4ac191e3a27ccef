---------------------------- MODULE MCRoleFilter ----------------------------
(* The characters of RoleFilter that a configuration file cannot spell. *)
EXTENDS RoleFilter

AllLetters == {"i", "I", "%", "_", ",", Quote, Backslash}
==============================================================================
