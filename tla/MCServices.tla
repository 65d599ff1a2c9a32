----------------------------- MODULE MCServices -----------------------------
(* Services for TLC: message bodies and interchangeable users. *)
EXTENDS Services, TLC

MCBodies == [type : BodyTypes, proc : Users \cup {NO_TASK}]
MCHwInt == Body("HW_INT", NO_TASK)
UserSymmetry == Permutations(Users)
=============================================================================
