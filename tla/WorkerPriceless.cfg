\* Three purchases, pages of two; nothing else fails.
CONSTANTS
  k1 = k1  k2 = k2  k3 = k3
  Keys = {k1, k2, k3}
  Limit = 2
  EntryOf <- PriceLate
  Packages <- Uploads
  Uploaded = Uploaded
  MaxChanges = 2
  MaxManual = 0
  MaxDeaths = 0
SPECIFICATION Spec
PROPERTIES PricelessIsStored
CHECK_DEADLOCK FALSE
