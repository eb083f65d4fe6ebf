---------------------------- MODULE MCInterrupts ----------------------------
(* The lines of a PC that matter to the order of service, for TLC. *)
EXTENDS Interrupts

(* The timer, a serial port, the real-time clock. *)
SomeDevices == {0, 4, 8}
(* Drivers for the serial port and for the real-time clock. *)
SomeDrivers == {4, 8}
=============================================================================
