-------------------------------- MODULE MCDoWork --------------------------------
EXTENDS DoWork

\* 2^64 scaled down: every slot of the model is far below it
MCU64Modulus == 2^20

=============================================================================
