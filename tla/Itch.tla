-------------------------------- MODULE Itch --------------------------------
(***************************************************************************)
(* ITCH 5.0 messages as bytes: the framed records of a capture             *)
(* (include/feed/framing.hpp), the writers of include/feed/synthetic.hpp   *)
(* and the decoder (src/itch/decoder.cpp).                                 *)
(*                                                                         *)
(* A record is one message behind its 2-byte length: its type, the header  *)
(* fields and a body, which maps the offset of a field to its width and    *)
(* value.  A reader that asks for another offset or width gets Garbage.    *)
(***************************************************************************)
EXTENDS Integers, Sequences

Header == 11           \* type, locate, tracking number, timestamp
Prefix == 2            \* the big-endian length before a message
Garbage == -1

-----------------------------------------------------------------------------
(* Writing. *)

\* Where the i-th field of a message starts; a field is <<width, value>>.
Offset(fields, i) ==
    LET at[k \in 0 .. i - 1] == IF k = 0 THEN Header ELSE at[k - 1] + fields[k][1]
    IN  at[i - 1]

Encode(type, locate, ts, fields) ==
    LET index(o) == CHOOSE i \in DOMAIN fields : Offset(fields, i) = o
    IN  [type |-> type, locate |-> locate, ts |-> ts,
         len  |-> Offset(fields, Len(fields) + 1),
         body |-> [o \in {Offset(fields, i) : i \in DOMAIN fields} |-> fields[index(o)]]]

\* A record with a length of zero, and a copy whose length says less.
Padding == [type |-> "0", locate |-> 0, ts |-> 0, len |-> 0, body |-> <<>>]
Shortened(r, len) == [r EXCEPT !.len = len]

-----------------------------------------------------------------------------
(* decode(). *)

MinLength == [S |-> 12, R |-> 39, A |-> 36, F |-> 40, E |-> 31, C |-> 36,
              X |-> 23, D |-> 19, U |-> 35, P |-> 44, Q |-> 40]

\* Mutant: the print price of 'C' is read without having been waited for.
decodes_short(r) ==
    /\ r.len >= Header
    /\ r.type \in DOMAIN MinLength
    /\ r.len >= IF r.type = "C" THEN 31 ELSE MinLength[r.type]

decodes(r) ==
    /\ r.len >= Header
    /\ r.type \in DOMAIN MinLength
    /\ r.len >= MinLength[r.type]

\* The fields decode() takes from each type, by offset and width.
Reads ==
    LET ref  == [ref |-> <<11, 8>>]
        add  == [ref |-> <<11, 8>>, side |-> <<19, 1>>, shares |-> <<20, 4>>,
                 stock |-> <<24, 8>>, price |-> <<32, 4>>]
        exec == [ref |-> <<11, 8>>, shares |-> <<19, 4>>, match |-> <<23, 8>>]
    IN  [S |-> [event |-> <<11, 1>>], R |-> [stock |-> <<11, 8>>], A |-> add, F |-> add,
         E |-> exec,
         C |-> [ref |-> <<11, 8>>, shares |-> <<19, 4>>, match |-> <<23, 8>>,
                price |-> <<32, 4>>],
         X |-> [ref |-> <<11, 8>>, shares |-> <<19, 4>>],
         D |-> ref,
         U |-> [ref |-> <<11, 8>>, new |-> <<19, 8>>, shares |-> <<27, 4>>,
                price |-> <<31, 4>>],
         P |-> [ref |-> <<11, 8>>, side |-> <<19, 1>>, shares |-> <<20, 4>>,
                stock |-> <<24, 8>>, price |-> <<32, 4>>, match |-> <<36, 8>>],
         Q |-> [stock |-> <<19, 8>>, price |-> <<27, 4>>, match |-> <<31, 8>>]]

Holds(r, at) == at[1] \in DOMAIN r.body /\ r.body[at[1]][1] = at[2]

rd(r, at) == IF Holds(r, at) THEN r.body[at[1]][2] ELSE Garbage

\* The message of a record that decodes; a field its type does not have is 0.
decode(r) ==
    LET field(f) == IF f \in DOMAIN Reads[r.type] THEN rd(r, Reads[r.type][f]) ELSE 0
    IN  [type |-> r.type, locate |-> r.locate, ts |-> r.ts, ref |-> field("ref"),
         new |-> field("new"), side |-> field("side"), shares |-> field("shares"),
         stock |-> field("stock"), price |-> field("price")]

\* The bytes decode() looks at all belong to the record.
InBounds(r) == \A f \in DOMAIN Reads[r.type] :
                   Reads[r.type][f][1] + Reads[r.type][f][2] <= r.len

\* Every field decode() reads was written there.
FieldsFound(r) == \A f \in DOMAIN Reads[r.type] : Holds(r, Reads[r.type][f])

-----------------------------------------------------------------------------
(* for_each_framed_message() over the first size bytes of a capture. *)

\* The offset behind the k-th record.
End(capture, k) ==
    LET at[i \in 0 .. k] == IF i = 0 THEN 0 ELSE at[i - 1] + Prefix + capture[i].len
    IN  at[k]

\* The walk, behind k records, goes no further.
Stops(capture, size, k) ==
    \/ End(capture, k) + Prefix > size
    \/ capture[k + 1].len = 0
    \/ End(capture, k + 1) > size

\* How many records the walk visits.
Framed(capture, size) ==
    CHOOSE k \in 0 .. Len(capture) :
        /\ k = Len(capture) \/ Stops(capture, size, k)
        /\ \A i \in 0 .. k - 1 : ~Stops(capture, size, i)

\* What decode() makes of the first k records, for the sink.
Decoded(capture, k) ==
    LET sunk[i \in 0 .. k] ==
            IF i = 0 THEN <<>>
            ELSE IF decodes(capture[i]) THEN Append(sunk[i - 1], decode(capture[i]))
            ELSE sunk[i - 1]
    IN  sunk[k]

for_each_framed_message(capture, size) == Decoded(capture, Framed(capture, size))
=============================================================================
