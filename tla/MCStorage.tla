----------------------------- MODULE MCStorage -----------------------------
(***************************************************************************)
(* The instance TLC checks: two batches for two destinations; two          *)
(* instances, whose inputs store up to two messages, one of them none.     *)
(***************************************************************************)
EXTENDS StorageAdapters

TwoBatches == <<<<1, 2>>, <<3, 4, 5>>>>
TwoDestinations == <<"a", "a", "a", "b", "a">>
TwoInputs == <<<<2, 1>>, <<0, 1>>>>
TwoVerifications == {<<1, 2, "last">>, <<2, 2, "first">>}
============================================================================
