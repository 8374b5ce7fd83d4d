-------------------------------- MODULE Fake --------------------------------
(***************************************************************************)
(* The factor `fake' of the configuration: RealTimeInfo::build multiplies  *)
(* the totals by it, as floating-point numbers, and casts the products to  *)
(* u64.  It is a fraction here, and a product is cut off to the integer    *)
(* below it; rounding (totals above 2^53) and factors below zero, which    *)
(* the cast makes 0, are left out.  main reads the factor once.            *)
(***************************************************************************)
EXTENDS Integers

CONSTANTS FakeNum, FakeDen  \* fake = FakeNum / FakeDen, 1.0 by default

ASSUME FakeAssumption == FakeNum \in Nat /\ FakeDen \in Nat \ {0}

Faked(n) == (n * FakeNum) \div FakeDen
=============================================================================
