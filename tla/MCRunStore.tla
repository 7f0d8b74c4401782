----------------------------- MODULE MCRunStore -----------------------------
(***************************************************************************)
(* TLC instance of RunStore: two calls competing for two slots under a cap *)
(* that fits one dear reservation and one cheap one, never two dear ones.  *)
(***************************************************************************)
EXTENDS RunStore
=============================================================================
