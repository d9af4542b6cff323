---------------------------- MODULE MCProcessors ----------------------------
(* Values of the constants of Processors for model checking. *)
EXTENDS Processors

MCUploads == {<<>>, <<1>>, <<2, 3>>}
MCFilters == {{}, {FilterOf[i] : i \in DOMAIN Passes}}
=============================================================================
