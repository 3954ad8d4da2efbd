---------------------------- MODULE MCNetManager ----------------------------
(* The network manager of a device with wifi and a modem, as most have.     *)
EXTENDS NetManager

MCCapacity == {"WIFI", "WIFI_AP", "MODEM"}
MCInitModes == {{}, {"WIFI_AP"}}
=============================================================================
