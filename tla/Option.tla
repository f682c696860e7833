-------------------------------- MODULE Option --------------------------------
(* Rust's Option, as a sequence of at most one element. *)
None == << >>
Some(x) == <<x>>
=============================================================================
