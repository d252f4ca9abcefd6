SPECIFICATION Spec
CONSTANTS
  WordBits = 4
  DataWords = 2
  BaudRates = {115200}
  MaxMishaps = 1
  Calls = {"uart_init", "accel_init", "touch_init", "spi_init", "usb_init"}
INVARIANTS Inv ClocksInLimits DriversConfigured
PROPERTIES ModesInOrder MainStartsClean BootReachesMain FaultIsShown
