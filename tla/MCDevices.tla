----------------------------- MODULE MCDevices -----------------------------
(* A screen of two lines, with one more in the map; a palette of two       *)
(* colours, whose components all differ, loaded over the default one.      *)
EXTENDS Devices

MCDefault  == [e \in 0 .. 1 |-> [k \in 0 .. 2 |-> 4 * (3 * e + k)]]
MCPalettes == {[e \in 0 .. 1 |-> [k \in 0 .. 2 |-> first - (3 * e + k)]] : first \in {255}}
=============================================================================
