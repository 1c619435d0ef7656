CONSTANT N = 3
SPECIFICATION ControlSpec
PROPERTY StopStops
