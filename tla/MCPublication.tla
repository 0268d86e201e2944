---------------------------- MODULE MCPublication ----------------------------
(***************************************************************************)
(* The concurrent publication under do_send for TLC: its inductive         *)
(* invariant, the refinement of the single-threaded publication and the    *)
(* frames of a flush in one state space.                                   *)
(***************************************************************************)
EXTENDS PublicationInvariant, PublicationRefinement, SenderFlush
=============================================================================
