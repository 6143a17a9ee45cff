\* Does rtc_read on an open RTC descriptor always return?
CONSTANTS
  MAX_DEPTH = 2
  FDT_SIZE = 4
  Freqs <- MCFreqs
  RateSweep <- MCRateFreqs

SPECIFICATION Spec


PROPERTY RtcReadReturns
