SPECIFICATION SamplingSpec
CONSTANTS
  Apps = {"AdcHsdinSimul"}
  NumBuffers = 2
  Amount <- MCAmount
  MaxChunks <- MCMaxChunks
  MaxFaults <- MCMaxFaults
\* the program ends
CHECK_DEADLOCK FALSE
PROPERTIES SamplesArePrinted
