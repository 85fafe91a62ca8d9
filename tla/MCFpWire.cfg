\* Payload type nibbles from spec.md 6.
CONSTANTS
  FASTPASS_PTYPE_RESET = 0
  FASTPASS_PTYPE_ALLOC = 1
  FASTPASS_PTYPE_ACK = 2
  FASTPASS_PTYPE_RSTREQ = 0
  FASTPASS_PTYPE_AREQ = 4
  Packets <- MCPackets
  Descs <- TestDescs
SPECIFICATION Spec
INVARIANT ParseMatchesPayloads
INVARIANT EmitMatchesWireFormat
