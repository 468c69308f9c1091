---------------------------- MODULE MCTaggedCache ----------------------------
(* A small instance of TaggedCache. *)
EXTENDS TaggedCache
MCPopular == Keys
=============================================================================
