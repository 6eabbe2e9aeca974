SPECIFICATION Spec
CONSTANTS
  a = a
  b = b
  raw = raw
  bad = bad
  refused = refused
  None = None
  Configs <- MCConfigs
  Encodable <- MCEncodable
  Decoded <- MCDecoded
  Half = 3
PROPERTIES LoadIsOldOrNew SavedIsLoaded StoreSpec
