---------------------------- MODULE MCHidDevice -----------------------------
(* Every build of the library.                                             *)
EXTENDS HidDevice

AllBackends == {"mac", "libusb", "hidraw", "windows"}
=============================================================================
