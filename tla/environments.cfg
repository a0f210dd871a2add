\* Two people editing, with renamed keys, toggled secrets and overlaps.
SPECIFICATION EnvSpec
CONSTANTS
  c1 = c1
  c2 = c2
  dev = dev
  staging = staging
  k1 = k1
  k2 = k2
  Clients <- TwoClients
  Names <- TwoNames
  Keys <- TwoKeys
  Encrypts = TRUE
  MaxSaves = 2
SYMMETRY Alike
INVARIANTS EnvTypeOK SecretsAreTyped SecretsStayHidden
CHECK_DEADLOCK FALSE
