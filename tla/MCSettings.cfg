SPECIFICATION Spec
CONSTANTS
  Knob = {"DATA_DIR", "WIFI_INTERFACE", "MDNS_UNIT", "DEFAULT_ROBOT_ID", "DEFAULT_ROS_DOMAIN_ID", "WIFI_RETRY_SEC", "WIFI_LINK_POLL_SEC"}
  Kind <- MCKind
  BuiltIn <- MCBuiltIn
  Values <- MCValues
  Environments <- MCEnvironments
  Names <- MCNames
  Unset = Unset
  NaN = NaN
  Panic = Panic
  IdMax = 3
  U32 = 100000
  MaxLines = 2
INVARIANTS
  TypeOK
  StartsWorkable
  Layered
