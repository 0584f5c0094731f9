------------------------------ MODULE MCCodec -------------------------------
(* Numbers for the runs of Codec: around the limits of a byte, of a char and of what
   the modules take.  65538 is 2 in 16 bits. *)
EXTENDS Codec

Wide == <<2, 0, 1, 0, 0, 0, 0, 0>>
SomeValues ==
    [vanilla |-> {Bytes(1000, 8), Wide},
     scubic |-> {Bytes(1, 8), Bytes(1000, 8), Wide},
     neo |-> {Bytes(0, 8), Bytes(1, 8), Bytes(2, 8), Wide}]
SomeIds == {Bytes(5, 4), Bytes(127, 4), Bytes(200, 4), Bytes(300, 4)}
SomeMeasurements ==
    {<<Bytes(7, 8), <<1, 2, 3, 4, 5, 6, 7, 8>> >>, <<Bytes(258, 8), Bytes(7, 8)>>}
SomeSids == {Bytes(513, 4)}
SomePorts == {<<0, 255>>, <<200, 1>>}

=============================================================================
