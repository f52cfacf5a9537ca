---------------------------- MODULE MCIOManager ----------------------------
(* IOManager with two threads and two jobs, and the bugs its properties    *)
(* are to find.                                                            *)
EXTENDS IOManager
=============================================================================
