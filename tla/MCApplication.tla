---------------------------- MODULE MCApplication ---------------------------
(* Application with two windows, two devices and two profiles.             *)
EXTENDS Application

MCWindows  == {"w1", "w2"}
MCDevices  == {"ttyS0", "ttyUSB0"}
MCStandard == "Standard"
MCCustoms  == {"custom"}
MCNames    == {"Default", "Cisco"}
MCOrder    == [name \in MCNames |-> IF name = "Cisco" THEN 1 ELSE 2]
MCDefault  == "Default"
MCBuiltins == {"Cisco"}
MCMissing  == ""
MCLegacy   == [device |-> "ttyS0", charset |-> "custom"]
MCPreset   == [device |-> "ttyUSB0", charset |-> "Standard"]
=============================================================================
