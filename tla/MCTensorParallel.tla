-------------------------- MODULE MCTensorParallel --------------------------
EXTENDS TensorParallel

\* Two calls in a row of the same kernel, so that a fast rank can be a call
\* ahead of a slow one; two iterations mix the kernels and wrap the epochs.
DecodeStep == <<[low |-> TRUE, blocks |-> 1], [low |-> TRUE, blocks |-> 1]>>
PromptStep == <<[low |-> FALSE, blocks |-> 1], [low |-> FALSE, blocks |-> 1]>>
Steps == {DecodeStep, PromptStep}

=============================================================================
