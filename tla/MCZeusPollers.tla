---------------------------- MODULE MCZeusPollers ----------------------------
EXTENDS ZeusPollers
GpusValue == <<"g1", "g2">>
=============================================================================
