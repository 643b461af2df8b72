CONSTANTS
  Radix = 4
  PacketIdBytes = 2
  Texts <- MCTexts
  Lists <- MCLists
  Payloads <- MCPayloads
  Wills <- MCWills
  Octets <- MCOctets
  Words <- MCWords
  MaxChanges = 2
SPECIFICATION Spec
CHECK_DEADLOCK FALSE
INVARIANTS LengthsAgree RoundTrip AcceptedWhole TextsAreUtf8
