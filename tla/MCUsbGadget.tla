---------------------------- MODULE MCUsbGadget ----------------------------
(* UsbGadget has no constants: its state is finite. *)
EXTENDS UsbGadget
=============================================================================
