\* Reads by the block's own client return under a fair RTC interrupt;
\* rtc_write's rate chain matches its reference.
CONSTANTS
  MAX_DEPTH = 2
  FDT_SIZE = 4
  Freqs <- MCFreqs
  RateSweep <- MCRateFreqs

SPECIFICATION Spec

INVARIANT TypeOK RateOfMatchesReference
PROPERTY ClientReadReturns
