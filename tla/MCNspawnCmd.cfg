CONSTANTS
  EnvKeys <- MCEnvKeys
  TlsKeys <- MCTlsKeys
  ReservedKeys <- MCReservedKeys
  EnvValues <- MCEnvValues
  SetenvKeys <- MCSetenvKeys
  SetenvValues <- MCSetenvValues
  BindPairs <- MCBindPairs
  Machines <- MCMachines
  Unset = Unset
SPECIFICATION Spec
INVARIANT EnvPrecedence MountsAsConfigured
