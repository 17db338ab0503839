\* Three purchases, pages of two.
CONSTANTS
  k1 = k1  k2 = k2  k3 = k3
  Keys = {k1, k2, k3}
  Limit = 2
  EntryOf <- PriceLate
  Packages <- Uploads
  Uploaded = Uploaded
  MaxChanges = 4
  MaxManual = 1
  MaxDeaths = 1
SPECIFICATION Spec
PROPERTIES StaysInReach StoreCatchesUp AlertsCatchUp StopEnds
CHECK_DEADLOCK FALSE
