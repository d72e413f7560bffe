\* One host: an endpoint with a scheme and no override.
SPECIFICATION SettingsSpec
CONSTANTS
  Hosts = {"h"}
  Ports = {"80"}
INVARIANT
  UrlEndpointHasBase
CHECK_DEADLOCK FALSE
