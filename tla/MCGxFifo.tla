------------------------------ MODULE MCGxFifo ------------------------------
(* Two display lists for GxFifo: one sets the vertex size, asks for the     *)
(* finish interrupt and calls itself; the other draws and ends within a    *)
(* command.                                                                *)
EXTENDS GxFifo, TLC

MCListAt == 1 :> <<Cp, 2, Bp, DrawDoneToken, Call, 1>> @@ 2 :> <<Draw, 1, 4, Draw>>
=============================================================================
