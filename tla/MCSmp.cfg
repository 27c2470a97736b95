SPECIFICATION FairSpec
CONSTANTS
  N = 3
  MaxInvocations = 2
INVARIANTS
  IInv
  MailboxIntegrity
  NoLostIpi
  SyncCompletes
  AtMostOnce
  ActiveExact
PROPERTIES
  OnCpusCompletes
  ImplementsRemoteCall
  CallsReturn
