CONSTANT Jobs <- MCJobs
SPECIFICATION KernelSpec
INVARIANTS WithinBuffers CombinedFilled ContractedFilled StreamedFilled
CHECK_DEADLOCK FALSE
