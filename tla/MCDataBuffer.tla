---------------------------- MODULE MCDataBuffer ----------------------------
(* Constants for model-checking DataBuffer: every length of the code is     *)
(* scaled down, keeping their order (header < extra < first growth step).   *)
EXTENDS DataBuffer

MCByte == {0, 1, 2}
MCSizeSteps == <<9, 11, 13, 16>>
MCInitSizes == {1, 4, 7, 9}
MCInputs == {<<1>>, <<1, 2>>, <<2, 2, 1>>}
MCConsumeLens == {-2, -1, 1, 2, 3}
==============================================================================
