---------------------------- MODULE MCFallbackStore ----------------------------
(* Model checking of FallbackStore: a tenant and the default, two uploads and   *)
(* a deletion over two slots, and one caller that asks again and again.  The   *)
(* uploads are told apart by nothing but their names.                          *)
EXTENDS FallbackStore, TLC
MCSlots == {<<"t1", "timeout">>, <<"_default", "generic">>}
AnyUpload == Permutations(Puts)
=============================================================================
