---------------------------- MODULE MCUDPServer -----------------------------
(* Model-checking instance of UDPServer: a message of two samples, shorter *)
(* ones behind it, extreme values, a type the server does not know, and    *)
(* one that no buffer can hold.  The first just fits: what is padded to it *)
(* is cut off again.                                                       *)
EXTENDS UDPServer

Value(type, value) == [SensorType |-> type, Value |-> value]

MCSent == <<[MAC |-> "m1", Sensors |-> <<Value(1, -1), Value(0, 8388607)>>],
            [MAC |-> "m2", Sensors |-> <<Value(200, -8388608)>>],
            [MAC |-> "m1", Sensors |-> <<>>],
            [MAC |-> "m2", Sensors |-> <<Value(0, 1), Value(1, 256), Value(1, 65536)>>]>>

MCDamage == <<{"flipped", "cut", "padded"}, {"cut", "padded"}, {"padded"}, {}>>
=============================================================================
