----------------------------- MODULE MCFraming -----------------------------
(***************************************************************************)
(* A small instance of Framing for TLC.                                    *)
(***************************************************************************)
EXTENDS Framing

\* With packets of 8 bytes, a header of 2 and block headers of 2: no payload;
\* one, two and three blocks, with empty ones first, in the middle and last;
\* replies of less than a packet, exactly one, two and three, and one byte
\* more.
SomeReplies ==
    {<< >>, <<4>>, <<2, 6>>, <<3, 5, 7>>, <<4, 14>>, <<15>>, <<2, 9, 18>>,
     <<7, 20, 22>>, <<10, 23>>}

=============================================================================
