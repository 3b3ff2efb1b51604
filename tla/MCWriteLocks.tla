---------------------------- MODULE MCWriteLocks ----------------------------
(* TLC instances of WriteLocks: callers and objects are interchangeable.   *)
EXTENDS WriteLocks, TLC

LockSymmetry == Permutations(Callers) \cup Permutations(Objects)
LockTools == AllTools \ {"activate_objects", "select_system"}
EccTools == AllTools \ {"create_test_include", "set_text_elements"}
=============================================================================
