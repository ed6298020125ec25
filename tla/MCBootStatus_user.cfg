\* The application uses the registers ext_pm.h offers it.
CONSTANT Disturbances = 1
SPECIFICATION BootSpec
INVARIANTS
  UserDataHarmless
