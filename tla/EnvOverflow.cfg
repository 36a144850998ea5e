SPECIFICATION Spec
CONSTANTS
  Names = {"ethaddr", "a", "b"}
  Values = {"short", "long", "bad"}
  EntryLen <- MCLen
  ENV_SIZE = 8
  DefaultEnv <- MCDefault
  OnceNames = {"ethaddr"}
  Unsupported <- MCUnsupported
  EnvPages = 2
INVARIANTS
  SaveenvPersists
