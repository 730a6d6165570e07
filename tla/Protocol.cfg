CONSTANTS
  Packets <- MCPackets
  NoPacket = NoPacket
  MaxPayload = 64
  CrcInit = 65535
  CrcByte <- crc16_ccitt_byte
  Damaged <- Flipped
  MaxDamage = 1
  MaxMissed = 16
  LossLimit = 12
SPECIFICATION Spec
INVARIANTS
  DamageIsLocal
PROPERTIES
  LineSpec
