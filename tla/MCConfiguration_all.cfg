SPECIFICATION Spec
CONSTANTS
  e1 = e1
  e2 = e2
  k1 = k1
  k2 = k2
  Nobody = Nobody
  Environment <- MCEnvironment
  Key <- MCKey
  Declaration <- MCDeclaration
  Vault <- MCVault
  Document <- MCDocument
  KeyOf <- MCKeyOf
  MaxVersion = 2
SYMMETRY Symmetric
INVARIANTS
  EnvironmentsAgree
  SignsWhatItPublishes
  OperatorIsTold
PROPERTY SeedsKeepWhatTheySaw
