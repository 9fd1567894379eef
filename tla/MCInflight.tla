----------------------------- MODULE MCInflight -----------------------------
(***************************************************************************)
(* Model-checking instance of Inflight: a leader and two followers, or     *)
(* successive leaders of one key, beside a second key.                     *)
(***************************************************************************)
EXTENDS Inflight
=============================================================================
