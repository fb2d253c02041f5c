------------------------------ MODULE MCDevices ------------------------------
(* A small instance of Devices for TLC: a position that moves in one       *)
(* coordinate, in both, to "0" and to nothing, with and without a status.  *)
EXTENDS Devices

MCReports == { [strStatus |-> s, strLatitude |-> p[1], strLongitude |-> p[2]] :
               s \in {"", "ON", "OFF"},
               p \in { <<"", "">>, <<"0", "0">>, <<"31", "120">>, <<"31", "121">>, <<"32", "122">> } }
=============================================================================
