-------------------------- MODULE MCDesktopEnrollment --------------------------
(* Three codes and four registrations: a registration of each code that    *)
(* overlaps the announcement of the next, with two retries.                *)
EXTENDS DesktopEnrollment
=============================================================================
