------------------------------ MODULE MCKernel ------------------------------
(* The start of the kernel with few lines, masks and delays.               *)
EXTENDS Kernel

FirmwareMasks == {{}, Irqs, Irqs \ {1}, Irqs \ {2, 8}}

TransmitterDelays == {-1, 0, 2, 3}

============================================================================
