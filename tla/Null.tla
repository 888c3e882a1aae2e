--------------------------------- MODULE Null ---------------------------------
(* The null pointer and the invalid socket id -1, in every component. *)
CONSTANT None
=============================================================================
