SPECIFICATION FairSpec
CONSTANTS
  UsbByte = {"a", "$", "%", "&", "LF"}
  SensorByte = {"b", " ", "LF"}
  MaxBytes = 4
INVARIANT TypeOK
PROPERTIES UsbLinesArriveWhole SensorLinesArriveWhole LinesLeave
