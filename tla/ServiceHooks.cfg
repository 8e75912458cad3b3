CONSTANTS
  a1 = a1
  a2 = a2
  disk = disk
  usb = usb
  sd = sd
  Apps = {a1, a2}
  Hooked <- MCHooked
  Output = "AllocatePages"
  Devices = {disk, usb, sd}
  SdCards = {sd}
  UsbDevices = {usb}
  UsbBoot = "off"
  MaxCalls = 1
SPECIFICATION FairSpec
INVARIANTS CallsLand PolicyEnforced DepthBounded
PROPERTIES CallReturns ImplementsChain
CHECK_DEADLOCK FALSE
