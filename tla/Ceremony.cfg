CONSTANTS
  ann = ann
  bob = bob
  eve = eve
  Identities = {ann, bob, eve}
  Digests = {n1, n2, n3}
  MemberLists <- MCMemberLists
  Thresholds = {0, 2}
  RecipientLists <- MCRecipientLists
  WitnessLists <- MCWitnessLists
  Artifacts = {image}
  Patches = {patch}
  MaxGroups = 2
  MaxEnvelopes = 1
  MaxRebound = 1
  MaxCollected = 3
SPECIFICATION Spec
INVARIANTS TypeOK StatusAgrees SignedIsEnough EnvelopesStayOpenable
PROPERTIES Implements
SYMMETRY Permuted
CHECK_DEADLOCK FALSE
