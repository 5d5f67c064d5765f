\* One client with one surface: does wl_surface.destroy remove it?
SPECIFICATION DestroySpec
CONSTANTS
  c1 = c1
  NoClient = NoClient
  Clients <- OneClient
  MaxBindings <- OneBinding
  MaxSurfaces = 1
  MaxId = 3
PROPERTIES
  DestroyedSurfaceGoes
CHECK_DEADLOCK FALSE
