----------------------------- MODULE MCObReplay -----------------------------
(* Bounds for ObReplay: the records of which a file is made.  Among them are an
   order with a printed price that is complete or short, trades whose timestamps
   go back, a cross trade (which has no shares for the tape), a type that decode
   does not handle, a message shorter than its header, and end-of-file padding. *)
EXTENDS ObReplay

MCN == [itch |-> 4, multi |-> 5, book |-> 5]

Add(t, side, price) ==
    << <<8, t>>, <<1, side>>, <<4, 2>>, <<8, "SYNTH">>, <<4, price>> >>
Printed(price) == Add(0, "B", price) \o << <<8, 7>> >>
Executed == << <<8, 1>>, <<4, 1>>, <<8, 7>>, <<1, "Y">>, <<4, 3>> >>

MCFileRecords ==
    {Encode("A", 1, 0, Add(1, "B", 3)), Encode("F", 0, 0, Add(2, "S", 4) \o << <<4, "MPID">> >>),
     Encode("C", 1, 1, Executed), Shortened(Encode("C", 1, 1, Executed), 31),
     Encode("P", 1, 1, Printed(3)), Encode("P", 1, 4, Printed(5)),
     Encode("Q", 1, 5, << <<8, 2>>, <<8, "SYNTH">>, <<4, 4>>, <<8, 7>>, <<1, "O">> >>),
     Encode("S", 0, 0, << <<1, "O">> >>), Encode("H", 1, 0, << <<14, 0>> >>),
     Shortened(Encode("S", 0, 0, << <<1, "O">> >>), 10), Padding}
=============================================================================
