------------------------------ MODULE MCScubic ------------------------------
(* Small numbers for the runs of Scubic: half a second is the unit of time. *)
EXTENDS Scubic

\* No update, the defaults, a steep curve that gives up most of the window, and a
\* vector with a zero.
Vectors == {<<>>, <<41, 717>>, <<1023, 150>>, <<0, 717>>}

\* Without a timestamp, too short for the unit of a delay, and a usual one.
Samples == {-1, 50, 400000}

=============================================================================
