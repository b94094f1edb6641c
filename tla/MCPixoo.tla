------------------------------ MODULE MCPixoo ------------------------------
(* PixooExporter with two badges.                                          *)
EXTENDS PixooExporter

TwoBadges == <<"fleet", "gpu">>

=============================================================================
