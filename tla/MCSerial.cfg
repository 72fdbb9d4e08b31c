CONSTANTS
  N = 2
  Worker = {w}
  Shell = shell
  Isr = isr
  NoCtx = none
  Size = 3
  MsgLen = 2
  MaxMsgs <- MCOneMsg
  CanPanic = {w, shell}
  Marker = marker
  Silence = silence
SPECIFICATION FairSpec
INVARIANTS Accounted OneFlusher
PROPERTIES RingsAreFifos Drained
CHECK_DEADLOCK FALSE
