------------------------------ MODULE MCMakit ------------------------------
(* MakitExporter with three badges, two of which set a brightness.         *)
EXTENDS MakitExporter

Plain == [badge |-> "gpu", level |-> NoLevel]
Dim   == [badge |-> "fleet", level |-> 0]
Full  == [badge |-> "host", level |-> 255]

ThreeExports == <<Plain, Dim, Full>>

=============================================================================
