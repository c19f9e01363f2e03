SPECIFICATION UsbSpec
INVARIANT CardHandedOver
