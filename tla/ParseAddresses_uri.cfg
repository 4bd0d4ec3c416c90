CONSTANTS
  Native <- MCEndsInZeros
  Answer <- MCAnswer
  Listing <- MCListing
  ResultsSize = 2
  Port = {80}
SPECIFICATION AddressSpec
INVARIANT EveryURIReadsBack
