---------------------------- MODULE MCGatewayRpc ----------------------------
(* GatewayRpc with one call, three texts and integers of two small widths. *)
EXTENDS GatewayRpc, TLC

MCText == {"", "SUCCESS", "\\xff"}
MCUtf8 == {"", "SUCCESS"}
MCInt32 == {0, 1, 2}
MCInt64 == {0, 1, 2, 9}
MCValue == ("" :> Junk) @@ ("0" :> 0) @@ ("2" :> 2) @@ ("9" :> 9) @@ ("99" :> 99)
============================================================================
