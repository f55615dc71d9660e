SPECIFICATION Spec
CONSTANTS
  Symbol = {"/sendfile", "/gjoin", "/cancel", "/quit", "7", " "}
  Digit = {"7"}
  DigitValue <- MCDigitValue
  TidMax = 9
  LineMax = 8
  NameMax = 2
  FileMax = 3
  MaxTyped = 7
  MaxLines = 2
CHECK_DEADLOCK FALSE
INVARIANTS TypeOK InputIsTyped LinesSurvive MeansWhatWasTyped IncomingOnOwnRow PromptOnce
