---------------------------- MODULE MCCudaBackend ----------------------------
EXTENDS CudaBackend
==============================================================================
