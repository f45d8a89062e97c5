SPECIFICATION FairPackets
CONSTANTS
  Base = 16
  Escape = 7
  WordSize = 2
  Payloads <- ThePayloads
  PieceSizes = {3}
  MaxFrames = 2
  MaxConnects = 1
  WholeHeaders = TRUE
  TL_MsgContainer = 40
  TL_RpcResult = 41
  TL_GZipPacked = 42
  TL_RpcError = 43
  TL_Vector = 44
  TL_NewSessionCreated = 45
  TL_UpdateShortMessage = 46
  TL_Updates = 47
  TL_UpdatesCombined = 48
  Constructors = {50, 51}
  Queries <- TheQueries
  Messages <- TheMessages
  Noise = 5
CHECK_DEADLOCK FALSE
INVARIANTS PacketsTypeOK MessagesIntact ReadToTheEnd WritersAgree
PROPERTIES TellsAsSent Delivered
