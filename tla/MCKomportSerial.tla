-------------------------- MODULE MCKomportSerial --------------------------
(* KomportSerial on a small device.                                        *)
EXTENDS KomportSerial

\* Two of everything that can be confused; a size of 0 has to be clamped.
MCEndpoints == {"ttyS0", "ttyS1"}
MCBauds     == 1 .. 2
MCFramings  == {"8N1", "7E1"}
MCRxQueues  == 0 .. 1

MCDefaults == [endpoint |-> "ttyS0", baud |-> 1, framing |-> "8N1", rxQueue |-> 1]
=============================================================================
