--------------------------- MODULE MCBufferedHci ---------------------------
(* BufferedHci on a small instance: PDUs of one, two, three and six          *)
(* fragments, a buffer of six units, which the longest of them overflows, as *)
(* do events behind a shorter one, and room for two strays.                  *)
EXTENDS BufferedHci

MCWants == {1, 2, 3, 6}
=============================================================================
