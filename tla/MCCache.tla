-------------------------------- MODULE MCCache --------------------------------
(***************************************************************************)
(* TLC instances of Cache.                                                 *)
(***************************************************************************)
EXTENDS Cache

CONSTANTS good, flaky  \* refreshers

Option(solid, src, lazy, stale) ==
  [solid |-> solid, src |-> src, ttl |-> 1, lazy |-> lazy, stale |-> stale]

MCOptions == {
  Option(TRUE, NoSource, TRUE, FALSE),
  Option(FALSE, good, FALSE, FALSE),
  Option(FALSE, flaky, FALSE, TRUE),
  Option(FALSE, NoSource, FALSE, TRUE) }  \* refused by Set
===============================================================================
