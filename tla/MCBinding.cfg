CONSTANTS
  Number <- MCNumber
  Input <- MCInput
  MaxCalls = 3
  TypeDef <- MCTypeDef
  PayloadType <- MCPayloadType
  Outgoing <- MCOutgoing
  Incoming <- MCIncoming
  MaxReads = 2
SPECIFICATION SessionSpec
INVARIANTS BodyJudged CallsAgree RoundTrip FormsAgree EnvelopeReadsBody SentIsRead
CHECK_DEADLOCK FALSE
