---------------------------- MODULE MCLiveSession ----------------------------
(* LiveSession with three drags, without a limit and with limits that end it  *)
(* in the middle of one.                                                    *)
EXTENDS LiveSession
=============================================================================
