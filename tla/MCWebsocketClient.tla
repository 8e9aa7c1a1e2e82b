------------------------- MODULE MCWebsocketClient -------------------------
(* Instances of WebsocketClient for TLC: two or three calls of            *)
(* HandleRequest, whose requests have identifiers of their own, as drawn  *)
(* by NewMessage, or share one, as when an application sends the same     *)
(* request object again.                                                  *)
EXTENDS WebsocketClient, TLC

CONSTANTS c1, c2, c3, r1, r2

DistinctTwo == c1 :> r1 @@ c2 :> r2
SharedTwo   == c1 :> r1 @@ c2 :> r1
SharedThree == c1 :> r1 @@ c2 :> r1 @@ c3 :> r2
=============================================================================
