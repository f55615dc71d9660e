------------------------------ MODULE Console ------------------------------
(***************************************************************************)
(* The user's side of a session: the lines that are typed, how they are    *)
(* read (app_handle_stdin) and what request each of them becomes           *)
(* (commands.c), and the row of the screen where the user types while      *)
(* messages of the server and notices of the client are printed (ui.c).    *)
(*                                                                         *)
(* A line is a sequence of symbols.  A command is one symbol, so that      *)
(* "/priv" may be followed by a blank, by nothing, or by a letter, which   *)
(* makes it another word; lengths count symbols.                           *)
(***************************************************************************)
EXTENDS Integers, Sequences, FiniteSets, SequencesExt

CONSTANTS
  Symbol,     \* what can be typed
  Digit,      \* the symbols among them that are digits
  DigitValue, \* what each of them stands for
  TidMax,     \* UINT32_MAX
  LineMax,    \* APP_INPUT_MAX, the buffer fgets fills, NUL included
  NameMax,    \* MAX_USERNAME_LEN and MAX_GROUP_NAME_LEN, NUL included
  FileMax,    \* MAX_FILENAME_LEN
  MaxTyped,   \* bound on the symbols that are typed
  MaxLines    \* bound on the lines that are entered

ASSUME ConsoleAssumption ==
  /\ LineMax \in Nat \ {0, 1} /\ NameMax \in Nat \ {0} /\ FileMax \in Nat \ {0}
  /\ "\n" \notin Symbol /\ Digit \subseteq Symbol
  /\ DigitValue \in [Digit -> 0..9] /\ TidMax \in Nat /\ MaxTyped \in Nat /\ MaxLines \in Nat

VARIABLES
  half,     \* the line being typed
  input,    \* typed lines that have not been read, with their line ends
  ended,    \* the input has ended
  running,
  request,  \* what the last line read became
  row,      \* what the row of the cursor shows
  prompt_shown,
  typed,    \* history: the lines that were entered
  handled,  \* history: the lines that were interpreted
  torn      \* history: a message of the server was printed into a row not empty

lineVars == <<half, input, ended, running, request, typed, handled>>
screenVars == <<row, prompt_shown, torn>>
vars == <<lineVars, screenVars>>

Blank == {" "}
NewLine == "\n"

TwoNames == {"/priv", "/gmsg", "/sendfile"}
OneName  == {"/gcreate", "/gjoin", "/gleave"}
OneTid   == {"/accept", "/reject", "/cancel"}
Alone    == {"/quit", "/help", "/users"}
Command  == TwoNames \cup OneName \cup OneTid \cup Alone

-----------------------------------------------------------------------------
(* The arguments of a command (commands_parse_priv and its like). *)

(* The first place from i on that holds, or does not hold, a blank. *)
SkipBlanks(s, i) == CHOOSE k \in i..Len(s)+1 :
  /\ \A j \in i..k-1 : s[j] \in Blank
  /\ k <= Len(s) => s[k] \notin Blank

SkipWord(s, i) == CHOOSE k \in i..Len(s)+1 :
  /\ \A j \in i..k-1 : s[j] \notin Blank
  /\ k <= Len(s) => s[k] \in Blank

After(s, i) == SubSeq(s, i, Len(s))

Usage == [type |-> "usage"]

(* Mutant: blanks before the second argument belong to it. *)
SplitKeepsBlanks(type, s) ==
  LET start == SkipBlanks(s, 1)
      end   == SkipWord(s, start)
      rest  == After(s, end)
  IN  IF start > Len(s) \/ end - start >= NameMax \/ rest = <<>> THEN Usage
      ELSE [type |-> type, name |-> SubSeq(s, start, end - 1), rest |-> rest]

(* Mutant: the name may fill the buffer. *)
SplitNoLimit(type, s) ==
  LET start == SkipBlanks(s, 1)
      end   == SkipWord(s, start)
      rest  == After(s, SkipBlanks(s, end))
  IN  IF start > Len(s) \/ end - start > NameMax \/ rest = <<>> THEN Usage
      ELSE [type |-> type, name |-> SubSeq(s, start, end - 1), rest |-> rest]

(* A name, then everything after the next blanks; a file name has a limit too. *)
Split(type, s) ==
  LET start == SkipBlanks(s, 1)
      end   == SkipWord(s, start)
      rest  == After(s, SkipBlanks(s, end))
  IN  IF \/ start > Len(s) \/ end - start >= NameMax \/ rest = <<>>
         \/ type = "/sendfile" /\ Len(rest) >= FileMax
      THEN Usage
      ELSE [type |-> type, name |-> SubSeq(s, start, end - 1), rest |-> rest]

(* A single name is everything after the blanks (cmd_send_single_name). *)
SingleName(type, s) ==
  LET name == After(s, SkipBlanks(s, 1))
  IN  IF name = <<>> \/ Len(name) >= NameMax THEN Usage
      ELSE [type |-> type, name |-> name]

(* The number that digits stand for (utils_parse_u64_range). *)
Number(digits) ==
  LET value[k \in 0..Len(digits)] ==
        IF k = 0 THEN 0 ELSE 10 * value[k-1] + DigitValue[digits[k]]
  IN  value[Len(digits)]

(* A tid is all digits and fits four bytes.  A number that overflows 64 bits is
   refused while it is read, and is larger than TidMax as well. *)
TidArgument(type, s) ==
  LET arg == After(s, SkipBlanks(s, 1))
  IN  IF arg = <<>> \/ ~(ToSet(arg) \subseteq Digit) \/ Number(arg) \notin 0..TidMax
      THEN Usage
      ELSE [type |-> type, tid |-> Number(arg)]

Interpret(line) ==
  LET word == line[1]
      bare == Len(line) = 1
      args == After(line, 2)
      own  == bare \/ (Len(line) > 1 /\ line[2] \in Blank)
  IN  CASE line = <<>>                   -> [type |-> "nothing"]
        [] bare /\ word \in Alone        -> [type |-> word]
        [] own /\ word \in TwoNames      -> Split(word, args)
        [] own /\ word \in OneName       -> SingleName(word, args)
        [] own /\ word \in OneTid        -> TidArgument(word, args)
        [] OTHER -> IF word \in Command
                    THEN [type |-> "unknown"] ELSE [type |-> "chat", text |-> line]

(* Requests that answer with a line of the client itself. *)
PrintsReply(r) == r.type \in {"usage", "unknown", "/help", "/sendfile"} \cup OneTid

-----------------------------------------------------------------------------
(* The screen. *)

(* Mutant: the prompt is printed whether or not it is there. *)
PromptAgain(shown, flag) == row' = Append(shown, "prompt") /\ prompt_shown' = TRUE

(* ui_prompt, with what the row and the flag are before it. *)
Prompt(shown, flag) ==
  /\ row' = IF flag THEN shown ELSE Append(shown, "prompt")
  /\ prompt_shown' = TRUE

(* Mutant: no line break protects the row. *)
EmitUnprotected ==
  /\ torn' = (torn \/ row # <<>>)
  /\ Prompt(<<>>, FALSE)

(* ui_emit_incoming: a line break if the prompt is there, the text, the prompt. *)
EmitIncoming ==
  /\ torn' = (torn \/ (~prompt_shown /\ row # <<>>))
  /\ Prompt(<<>>, FALSE)

(* Messages, errors, the list of users, progress. *)
Incoming == running /\ EmitIncoming /\ UNCHANGED lineVars

(* Notices that file.c and app.c print with ui_print while handling a message. *)
Notice ==
  /\ running
  /\ row' = <<>> /\ UNCHANGED <<lineVars, prompt_shown, torn>>

-----------------------------------------------------------------------------
(* Typing.  The terminal echoes what is typed.  A command that does not begin a
   line is text like any other. *)

Type ==
  /\ running /\ ~ended
  /\ Len(half) + Len(FlattenSeq(typed)) < MaxTyped
  /\ \E s \in Symbol :
       /\ s \in Command => half = <<>>
       /\ half' = Append(half, s)
  /\ row' = IF row # <<>> /\ Last(row) = "typed" THEN row ELSE Append(row, "typed")
  /\ UNCHANGED <<input, ended, running, request, typed, handled, prompt_shown, torn>>

Enter ==
  /\ running /\ ~ended /\ Len(typed) < MaxLines
  /\ input' = input \o half \o <<NewLine>> /\ half' = <<>>
  /\ typed' = Append(typed, half)
  /\ row' = <<>>
  /\ UNCHANGED <<ended, running, request, handled, prompt_shown, torn>>

(* Ctrl-D, or the end of a pipe: a last line may be without its end. *)
EndInput ==
  /\ running /\ ~ended /\ ended' = TRUE
  /\ input' = input \o half /\ half' = <<>>
  /\ UNCHANGED <<running, request, typed, handled, screenVars>>

-----------------------------------------------------------------------------
(* app_handle_stdin. *)

LineEnds == {k \in 1..Len(input) : input[k] = NewLine}

FirstEnd == {k \in LineEnds : \A j \in LineEnds : k <= j}

(* fgets returns when it has a line, when its buffer is full, or at the end. *)
CanRead == LineEnds # {} \/ ended

Fits(line) == Len(line) <= LineMax - 2

EndOfInput ==
  /\ running /\ ended /\ input = <<>>
  /\ running' = FALSE /\ row' = <<>>
  /\ UNCHANGED <<half, input, ended, request, typed, handled, prompt_shown, torn>>

(* What fgets returns: up to a line end, or what its buffer holds. *)
Got ==
  LET most == IF Len(input) < LineMax - 1 THEN Len(input) ELSE LineMax - 1
      ends == {k \in FirstEnd : k <= most}
  IN  SubSeq(input, 1, IF ends = {} THEN most ELSE CHOOSE k \in ends : TRUE)

(* Mutant: the rest of an overlong line stays in the input. *)
DrainNothing == After(input, Len(Got) + 1)

(* Mutant: the line end of an overlong line stays. *)
DrainKeepsEnd == IF LineEnds = {} THEN <<>> ELSE After(input, CHOOSE k \in FirstEnd : TRUE)

(* What is left when the rest of an overlong line has been read away. *)
Drained == IF LineEnds = {} THEN <<>> ELSE After(input, (CHOOSE k \in FirstEnd : TRUE) + 1)

(* No line end in the buffer: the line is thrown away.  So is a last line
   without an end. *)
ReadOverlong ==
  /\ running /\ CanRead /\ input # <<>> /\ ~Contains(Got, NewLine)
  /\ input' = Drained
  /\ row' = <<>>
  /\ UNCHANGED <<half, ended, running, request, typed, handled, prompt_shown, torn>>

(* After /quit app_handle_stdin returns before ui_prompt. *)
ReadLine ==
  /\ running /\ CanRead /\ Contains(Got, NewLine)
  /\ LET line == Front(Got)
         r == Interpret(line)
     IN  /\ request' = r
         /\ handled' = Append(handled, line)
         /\ running' = (r.type # "/quit")
         /\ IF r.type = "/quit" THEN UNCHANGED <<row, prompt_shown>>
            ELSE Prompt(IF PrintsReply(r) THEN <<>> ELSE row, prompt_shown)
  /\ input' = After(input, Len(Got) + 1)
  /\ UNCHANGED <<half, ended, typed, torn>>

-----------------------------------------------------------------------------
(* The session begins when Welcome has been displayed. *)
Init ==
  /\ half = <<>> /\ input = <<>> /\ ended = FALSE /\ running = TRUE
  /\ request = [type |-> "nothing"] /\ row = <<"prompt">> /\ prompt_shown = TRUE
  /\ typed = <<>> /\ handled = <<>> /\ torn = FALSE

Next ==
  \/ Incoming \/ Notice
  \/ Type \/ Enter \/ EndInput
  \/ ReadLine \/ ReadOverlong \/ EndOfInput

Spec == Init /\ [][Next]_vars

-----------------------------------------------------------------------------
Line == Seq(Symbol)

NameIn(limit) == {s \in Line : s # <<>> /\ Len(s) < limit}

Request ==
  [type : {"nothing", "usage", "unknown"} \cup Alone]
  \cup [type : {"chat"}, text : Line]
  \cup [type : {"/priv", "/gmsg"}, name : NameIn(NameMax), rest : Line]
  \cup [type : {"/sendfile"}, name : NameIn(NameMax), rest : NameIn(FileMax)]
  \cup [type : OneName, name : NameIn(NameMax)]
  \cup [type : OneTid, tid : 0..TidMax]

(* Names in a request fit the buffers of the server, and of the client, and are
   never cut to fit them; a tid fits its four bytes. *)
TypeOK ==
  /\ half \in Line /\ input \in Seq(Symbol \cup {NewLine})
  /\ ended \in BOOLEAN /\ running \in BOOLEAN /\ prompt_shown \in BOOLEAN
  /\ request \in Request
  /\ row \in Seq({"prompt", "typed"}) /\ torn \in BOOLEAN
  /\ typed \in Seq(Line) /\ handled \in Seq(Line)

(* What waits in the input is the lines entered last, each behind the end of the
   one before it and up to an end of its own; nothing follows the last end before
   the input has ended.  So a line is never joined to the next, nor split. *)
InputIsTyped ==
  /\ Cardinality(LineEnds) <= Len(typed)
  /\ \A p \in LineEnds :
       LET line  == typed[Len(typed) - Cardinality({q \in LineEnds : q > p})]
           start == p - Len(line) - 1
       IN  /\ start \in LineEnds \cup {0}
           /\ \A j \in 1..Len(line) : input[start + j] = line[j]
  /\ ~ended => Len(input) \in LineEnds \cup {0}

(* The lines that are interpreted are those that were entered and are not too
   long, in their order: nothing of an overlong line, and nothing of a line
   without an end, is taken for a line of its own.  A line that fits is the n-th
   to be interpreted when n lines up to it fit. *)
LinesSurvive ==
  LET read    == Len(typed) - Cardinality(LineEnds)
      fitting == {k \in 1..read : Fits(typed[k])}
  IN  /\ Len(handled) = Cardinality(fitting)
      /\ \A k \in fitting : handled[Cardinality({j \in fitting : j <= k})] = typed[k]

(* All ways to read a line as a command with a name and a rest: blanks, the
   name, blanks, and the rest, which does not begin with a blank. *)
Readings(line) ==
  LET place == 3..Len(line)
      Reads(t) ==
        /\ t[1] < t[2] /\ t[2] < t[3]
        /\ \A m \in 2..t[1]-1 : line[m] \in Blank
        /\ \A m \in t[1]..t[2]-1 : line[m] \notin Blank
        /\ \A m \in t[2]..t[3]-1 : line[m] \in Blank
        /\ line[t[3]] \notin Blank
  IN  {<<SubSeq(line, t[1], t[2] - 1), After(line, t[3])>> :
         t \in {u \in place \X place \X place : Reads(u)}}

(* A command with a name and a rest is sent as the one way there is to read it,
   and refused only when there is none or an argument is too long. *)
MeansWhatWasTyped ==
  handled # <<>> =>
    LET line == Last(handled)
    IN  line # <<>> /\ line[1] \in TwoNames =>
          /\ request.type = line[1] => Readings(line) = {<<request.name, request.rest>>}
          /\ request.type = "usage" => \A r \in Readings(line) :
               \/ Len(r[1]) >= NameMax
               \/ line[1] = "/sendfile" /\ Len(r[2]) >= FileMax

(* A message of the server never lands in the middle of what the user types, nor
   behind the prompt, though prompt_shown stays set when a line is entered. *)
IncomingOnOwnRow == ~torn

(* The prompt is never twice on a row, and the flag is set while it is there. *)
PromptOnce ==
  /\ \A i, j \in 1..Len(row) : row[i] = "prompt" /\ row[j] = "prompt" => i = j
  /\ Contains(row, "prompt") => prompt_shown
=============================================================================
