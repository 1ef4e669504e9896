-------------------------- MODULE MCControlEndpoint --------------------------
(* Requests for TLC.  A packet has two bytes and the line coding three, so *)
(* that both data stages take more than one packet.  The descriptors are a *)
(* short packet, a full one, and one and a half, read in full and in part. *)
EXTENDS ControlEndpoint

Ask(kind, dir, value, wLength) ==
  [kind |-> kind, dir |-> dir, value |-> value, wLength |-> wLength]

SomeRequests ==
  {Ask("get_descriptor", "in", 1, 2), Ask("get_descriptor", "in", 2, 4),
   Ask("get_descriptor", "in", 3, 4), Ask("get_descriptor", "in", 3, 2),
   Ask("set_address", "out", 1, 0), Ask("set_configuration", "out", 1, 0),
   Ask("set_line_coding", "out", 1, 3), Ask("get_line_coding", "in", 0, 3),
   Ask("other", "out", 0, 0), Ask("other", "in", 0, 2), Ask("other", "out", 0, 1)}
=============================================================================
