SPECIFICATION Spec
CONSTANTS
  TxTimeout = 20
  MaxLate = 1
INVARIANTS TypeOK CarrierBounded SwrTripInTime
PROPERTIES TripWithinOneTransmission
