-------------------------- MODULE MCHostnameField --------------------------
(***************************************************************************)
(* A field of three bytes and all names of up to four bytes: shorter than  *)
(* the field, exactly as long, and longer.                                 *)
(***************************************************************************)
EXTENDS HostnameField

MCHosts == UNION {[1..n -> {97, 98}] : n \in 0..4}
=============================================================================
