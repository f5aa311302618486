\* Any requests, resets of the bus and refused packets; any typing, lost
\* connections and a reset, with keys of two characters.
SPECIFICATION UsbSpec
CONSTANTS
  CtrlSize = 2
  Descriptor = 4
  Addresses = {1, 2}
  Codings = {c0, c1}
  Default = c0
  MaxRequests = 4
  Chars = {1, 2}
  Zero = 0
  Erased = 5
  KeyWord <- TestKeyWord
  SaveWord <- TestSaveWord
  KeyLength = 2
  Blocks <- TestBlocks
  ZeroBlock = 0
  Encrypt <- TestEncrypt
  Decrypt <- TestDecrypt
  LastSubkey <- TestLastSubkey
  Xor <- TestXor
  BlockPart <- TestPart
  Plain <- TestPlain
  QueueSize = 1
  MaxTyped = 8
  MaxConnections = 2
  MaxResets = 1
  MaxBuffers = 1
INVARIANTS TypeOK Answered Agreement AddressKnown LineCodingStored
  TerminalTypeOK FirstBlockBack
PROPERTIES TransferEnds SavedAsTyped
CHECK_DEADLOCK FALSE
