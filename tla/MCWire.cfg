\* One kind of message of each format, three in a row.
SPECIFICATION JsSpec
CONSTANTS
  Base = 2
  Names <- MCNames
  Payloads <- MCPayloads
  TextPayloads <- MCTextPayloads
  Id <- MCId
  Waits = {0, 3}
  Loads = {0, 3}
  Codes = {1, 3}
  Times = {1}
  Pairs = {"go-go", "js-go", "text-go", "go-js"}
  Kinds = {"r", "n", "p", "e", "h", "f"}
  MaxMsgs = 3
INVARIANT InStep
INVARIANT NothingHeldBack
