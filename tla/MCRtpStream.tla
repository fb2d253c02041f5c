----------------------------- MODULE MCRtpStream -----------------------------
(* A small instance of RtpStream for TLC: a frame before the first key     *)
(* frame, frames longer and shorter than a read, two of them in a row.     *)
EXTENDS RtpStream

MCFrames == << [len |-> 1, key |-> FALSE], [len |-> 3, key |-> TRUE], [len |-> 3, key |-> FALSE],
               [len |-> 1, key |-> FALSE], [len |-> 3, key |-> TRUE] >>
=============================================================================
