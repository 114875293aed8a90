-------------------------------- MODULE MCThunk --------------------------------
(***************************************************************************)
(* Model-checking instance of Thunk.  The .cfg files give two argument     *)
(* values as model values (the slice's constant K = v0, the caller's      *)
(* argument v1), the thunk pointer as a model value, and up to four uses. *)
(***************************************************************************)
EXTENDS Thunk
=============================================================================
