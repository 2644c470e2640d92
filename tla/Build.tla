------------------------------- MODULE Build --------------------------------
(***************************************************************************)
(* What differs between the builds of CMakePresets.json.  With asserts an  *)
(* Assert that fails ends the program; without them it is not there.       *)
(***************************************************************************)
CONSTANT ASSERT_ENABLED     \* CORE_ASSERT_ENABLED: is Assert compiled in?

ASSUME BuildConstants == ASSERT_ENABLED \in BOOLEAN
=============================================================================
