CONSTANTS
  Schema <- MCSchema
  Oversized = {"big"}
  Offered <- MCOffered
  Answers <- MCAnswers
  Foreign <- MCForeign
  MaxMessages = 2
  MaxForeign = 1
  MaxInbound <- MCMaxInbound
SPECIFICATION Spec
INVARIANTS AnswersMatch MalformedIsDeserved DropReachesPeer
CHECK_DEADLOCK FALSE
