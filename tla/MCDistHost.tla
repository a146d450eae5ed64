----------------------------- MODULE MCDistHost -----------------------------
(***************************************************************************)
(* Two jobs that share a source.                                           *)
(***************************************************************************)
EXTENDS DistHost

SharedDigests == {"src", "o1", "o2"}
SharedInputs == <<{"src"}, {"src"}>>
SharedOutput == <<"o1", "o2">>

=============================================================================
