------------------------------ MODULE MCUsbCdc ------------------------------
EXTENDS UsbCdc

(* A status reply, and a longer one.                                       *)
Lengths == {2, 3}
=============================================================================
