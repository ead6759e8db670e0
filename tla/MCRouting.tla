------------------------------ MODULE MCRouting -----------------------------
(***************************************************************************)
(* Model-checking instance of Routing: a device with two spellings of its  *)
(* MAC, two locations, and files that move, drop or duplicate it, spell    *)
(* out a default, change a setting or the sensors and the rest, or do not  *)
(* validate.                                                               *)
(***************************************************************************)
EXTENDS Routing, TLC

MCMACOf == ("aa" :> "mac") @@ ("AA" :> "mac")
MCLocations == {"kitchen", "attic"}
MCSensorTypeOf == ("t" :> "temperature") @@ ("h" :> "humidity")
MCUnits == {"unit"}
MCValidRest == {"rest", "other"}

Empty == [f \in DOMAIN Limits |-> 0]
Entry(mac, location) == [mac |-> mac, location |-> location]
Sensor(id) == [id |-> id, type |-> MCSensorTypeOf[id], unit |-> "unit"]
Content(devices, settings) ==
    [decodes |-> TRUE, devices |-> devices, settings |-> settings, rest |-> "rest", sensors |-> <<Sensor("t")>>]

MCContents == [
    kitchen   |-> Content(<<Entry("aa", "kitchen")>>, Empty),
    attic     |-> Content(<<Entry("AA", "attic")>>, [Empty EXCEPT !.queue_capacity = 512]),
    nobody    |-> Content(<<>>, Empty),
    duplicate |-> Content(<<Entry("aa", "kitchen"), Entry("AA", "attic")>>, Empty),
    restart   |-> Content(<<Entry("aa", "attic")>>, [Empty EXCEPT !.queue_capacity = 1]),
    humid     |-> [Content(<<Entry("aa", "attic")>>, Empty) EXCEPT !.sensors = @ \o <<Sensor("h")>>, !.rest = "other"],
    hectic    |-> Content(<<>>, [Empty EXCEPT !.flush_interval = 99])]

MCMessages == {[mac |-> "mac", sensors |-> <<>>], [mac |-> "mac", sensors |-> <<"t", "h", "t">>]}
=============================================================================
