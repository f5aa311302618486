---------------------------- MODULE MCFramAtomic ----------------------------
(***************************************************************************)
(* Buffers of two bytes for FramAtomic, and a stand-in for the CRC that     *)
(* tells all contents apart.  One content, a mix that a torn write leaves,   *)
(* has the CRC zero, as among the contents of the code one in 2^32 has.      *)
(***************************************************************************)
EXTENDS FramAtomic

TestBuffers == {<<1, 1>>, <<2, 2>>, <<1, 3>>}

TestCrc == [d \in Contents |->
  IF d = <<2, 1>> THEN <<0, 0, 0, 0>>
                  ELSE <<d[1], d[2], 255 - d[1], 255 - d[2]>>]
=============================================================================
