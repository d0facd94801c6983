---------------------------- MODULE MCConfText ----------------------------
(***************************************************************************)
(* ConfText for TLC.  Every pair of files with up to four lines between   *)
(* them, so that robot.conf may have an assignment before, between and     *)
(* after others of its kind, and each file a second entry to replace.      *)
(***************************************************************************)
EXTENDS ConfText

=============================================================================
