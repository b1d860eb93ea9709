CONSTANTS
  Chars <- MCChars
  MaxPathLen <- MCMaxPathLen
SPECIFICATION Spec
INVARIANT QuoteRoundTrip
