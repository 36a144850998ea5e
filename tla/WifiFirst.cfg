SPECIFICATION WifiSpec
CONSTANTS
  s0 = s0
  s1 = s1
  k0 = k0
  k1 = k1
  Names = {"wifi_ssid", "wifi_key", "wifi_seq"}
  Values <- MCValues
  EntryLen <- MCLen
  ENV_SIZE = 10
  DefaultEnv <- MCDefault
  OnceNames = {}
  Unsupported = {}
  EnvPages = 1
  Ssids <- MCSsids
  Keys <- MCKeys
  MaxSeq = 2
  ImageUci <- MCImageUci
  DefaultSsid = s0
  Failures = FALSE
INVARIANTS
  ConfigApplied
