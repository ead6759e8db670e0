------------------------------- MODULE Config --------------------------------
(***************************************************************************)
(* Loading a configuration file (config.go): decoding, defaults,           *)
(* validation, and what a live reload may change.                          *)
(*                                                                         *)
(* The contents of a file are a record: whether it decodes, its device and *)
(* sensor entries, its numeric settings (0 when absent; durations in       *)
(* milliseconds) and everything else as one value.  A function that        *)
(* returns a snapshot or an error returns a set, empty for the error.      *)
(***************************************************************************)
EXTENDS Integers, Sequences, SequencesExt

CONSTANTS
    MACOf,          \* spelling of a MAC -> the address, for those that parse
    Locations,      \* floor and room names that exist, as one value
    SensorTypeOf,   \* sensor ID -> its type name (SensorTypeNames)
    Units,          \* unit names that exist
    ValidRest       \* addresses, roots and logging settings that validate

NoLimit == 2147483647

(* Default, smallest and largest value of every numeric setting.           *)
Limits == [
    queue_capacity          |-> <<512, 1, NoLimit>>,
    enqueue_wait            |-> <<100, 0, NoLimit>>,
    retry_count             |-> <<5, 0, NoLimit>>,
    initial_backoff         |-> <<50, 1, NoLimit>>,
    maximum_backoff         |-> <<1000, 1, NoLimit>>,
    write_buffer_size       |-> <<65536, 4096, 1048576>>,
    flush_interval          |-> <<1000, 100, 60000>>,
    rotation_size           |-> <<67108864, 12, NoLimit>>,
    maximum_tcp_connections |-> <<100, 1, NoLimit>>,
    payload_deadline        |-> <<5000, 1000, 60000>>,
    shutdown_deadline       |-> <<30000, 1000, 300000>>]

applyConfigDefaults(c) ==
    [c EXCEPT !.settings = [f \in DOMAIN Limits |-> IF @[f] = 0 THEN Limits[f][1] ELSE @[f]]]

ParseMACAddress(text) == IF text \in DOMAIN MACOf THEN {MACOf[text]} ELSE {}

Distinct(seq, key(_)) == \A i, j \in DOMAIN seq : key(seq[i]) = key(seq[j]) => i = j

ValidDevices(devices) ==
    /\ \A i \in DOMAIN devices :
        ParseMACAddress(devices[i].mac) # {} /\ devices[i].location \in Locations
    /\ Distinct(devices, LAMBDA d : ParseMACAddress(d.mac))

ValidSensors(sensors) ==
    /\ \A i \in DOMAIN sensors :
        /\ sensors[i].id \in DOMAIN SensorTypeOf
        /\ sensors[i].type = SensorTypeOf[sensors[i].id]
        /\ sensors[i].unit \in Units
    /\ Distinct(sensors, LAMBDA s : s.id)

ValidSettings(s) ==
    /\ \A f \in DOMAIN Limits : Limits[f][2] <= s[f] /\ s[f] <= Limits[f][3]
    /\ s.initial_backoff <= s.maximum_backoff

(* validateListenAddress and validateRoot, of the two listeners and roots. *)
ValidAddresses(rest) == rest \in ValidRest

validateConfig(c) ==
    /\ ValidAddresses(c.rest)
    /\ ValidDevices(c.devices) /\ ValidSensors(c.sensors) /\ ValidSettings(c.settings)

(* The lookups are built in file order: a later entry replaces an earlier. *)
Devices(c) ==
    LET entry(mac) == SelectLastInSeq(c.devices, LAMBDA d : ParseMACAddress(d.mac) = {mac})
        macs == {MACOf[c.devices[i].mac] : i \in DOMAIN c.devices}
    IN  [mac \in macs |-> c.devices[entry(mac)].location]

Sensors(c) == {c.sensors[i].id : i \in DOMAIN c.sensors}

NewConfigSnapshot(config) ==
    LET c == applyConfigDefaults(config)
    IN  IF validateConfig(c)
        THEN {[config |-> c, devices |-> Devices(c), sensors |-> Sensors(c)]}
        ELSE {}

LoadConfig(content) ==
    IF content.decodes THEN NewConfigSnapshot(applyConfigDefaults(content)) ELSE {}

(* Both are compared in their JSON form, after defaults.                   *)
configsEqual(left, right) == left = right

(* Mutant: the settings are not compared.                                  *)
ValidateReload_IgnoresSettings(snapshot, candidate) ==
    configsEqual([snapshot.config EXCEPT !.devices = <<>>, !.settings = 0],
                 [candidate.config EXCEPT !.devices = <<>>, !.settings = 0])

(* Permits only the device registry to change at runtime.                  *)
ValidateReload(snapshot, candidate) ==
    configsEqual([snapshot.config EXCEPT !.devices = <<>>], [candidate.config EXCEPT !.devices = <<>>])
=============================================================================
