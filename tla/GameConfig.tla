----------------------------- MODULE GameConfig -----------------------------
(***************************************************************************)
(* The conversions behind "config get" and "config set": how a setting is  *)
(* found in a line of tes3mp-server-default.cfg (INI) or config.lua, how   *)
(* a new value replaces the old one inside that line, and how the ban list *)
(* takes a text.  The file is edited in place, so what one set leaves in a *)
(* line is what the next get and the next set have to read.                *)
(*                                                                         *)
(* A line is the text after its "="; a text is a sequence of characters of *)
(* a small alphabet that holds every character the code looks at.  Keys    *)
(* that differ only in type and range are one key.                         *)
(***************************************************************************)
EXTENDS Naturals, Sequences, SequencesExt, FiniteSetsExt

CONSTANTS
  MaxValue,     \* bound: length of a value given to set
  MaxLine       \* bound: length of a line

Quote == "q"    \* the double quote
Slash == "b"    \* the backslash
Blank == " "
Dash  == "-"
Hash  == "#"

VARIABLES
  key,          \* the setting a behaviour is about; settings share nothing
  line,         \* its line; for the ban list, the list of its items
  told          \* <<value>>, the value the last set reported; <<>> before it

vars == <<key, line, told>>

IniKeys  == {"hostname", "password", "port"}
MinPort == 7    MaxPort == 70

Texts(chars) == UNION {[1..n -> chars] : n \in 0..MaxValue}

First(S, otherwise) == IF S = {} THEN otherwise ELSE Min(S)

Visible(text) == {i \in DOMAIN text : text[i] # Blank}
Trim(text) ==
  IF Visible(text) = {} THEN <<>>
  ELSE SubSeq(text, Min(Visible(text)), Max(Visible(text)))

-----------------------------------------------------------------------------
(* parseTypedValue                                                         *)
Digits == [c \in {"0", "7"} |-> IF c = "7" THEN 7 ELSE 0]
Numeral(text) == text # <<>> /\ \A i \in DOMAIN text : text[i] \in DOMAIN Digits
Number(text)  == FoldLeft(LAMBDA n, c : 10 * n + Digits[c], 0, text)

Valid(value) ==
  CASE key = "hostname" -> value # <<>>
    [] key = "password" -> TRUE
    [] key = "port"     -> /\ Numeral(Trim(value))
                           /\ Number(Trim(value)) \in MinPort..MaxPort

Formatted(value) == IF key = "port" THEN Trim(value) ELSE value

-----------------------------------------------------------------------------
(* The server file.  A "#" starts a comment at the beginning of the text   *)
(* or after a blank (splitINIComment).                                     *)
Marker(l, i) == l[i] = Hash /\ (i = 1 \/ l[i - 1] = Blank)

CommentStart(l) == First({i \in DOMAIN l : Marker(l, i)}, Len(l) + 1)

IniValue(l) == Trim(SubSeq(l, 1, CommentStart(l) - 1))

(* setServer: the value starts at the first character that is not blank;   *)
(* it ends before the blanks that precede a comment, or with the line.     *)
SetIni(l, value) ==
  LET start == First(Visible(l), Len(l) + 1)
      stop  == First({i \in start..Len(l) : i > 1 /\ Marker(l, i)},
                     Len(l) + 1)
      last  == IF stop > Len(l) THEN Len(l)
               ELSE Max({start - 1} \cup
                        {i \in start..(stop - 1) : l[i] # Blank})
  IN SubSeq(l, 1, start - 1) \o value \o SubSeq(l, last + 1, Len(l))

-----------------------------------------------------------------------------
(* config.lua.  What luaCommentIndex and parseLuaString know after each     *)
(* character: whether it stood in a string or escapes the next one there,  *)
(* and what has been read of the string.                                   *)
Start == [state |-> "code", read |-> <<>>]

After(s, c) ==
  [state |-> CASE s.state = "escaped"               -> "string"
               [] s.state = "string" /\ c = Slash   -> "escaped"
               [] s.state = "string" /\ c = Quote   -> "code"
               [] s.state = "code" /\ c = Quote     -> "string"
               [] OTHER                             -> s.state,
   read  |-> IF s.state = "escaped" \/ (s.state = "string" /\ c \notin {Slash, Quote})
             THEN Append(s.read, c) ELSE s.read]

Scan(text) ==
  LET scan[i \in 0..Len(text)] ==
        IF i = 0 THEN Start ELSE After(scan[i - 1], text[i])
  IN  scan

(* Mutant of LuaComment: two dashes in a string are a comment too.         *)
LuaCommentAnywhere(text) ==
  First({i \in 1..(Len(text) - 1) : text[i] = Dash /\ text[i + 1] = Dash},
        Len(text) + 1)

LuaComment(text) ==
  LET scan == Scan(text)
  IN First({i \in 1..(Len(text) - 1) :
              scan[i - 1].state = "code" /\ text[i] = Dash /\ text[i + 1] = Dash},
           Len(text) + 1)

LuaExpression(l) == Trim(SubSeq(l, 1, LuaComment(l) - 1))

(* parseLuaString: up to the closing quote, escapes resolved.              *)
LuaString(expression) ==
  LET scan  == Scan(expression)
      close == First({i \in 2..Len(expression) :
                        scan[i - 1].state = "string" /\ expression[i] = Quote},
                     Len(expression) + 1)
  IN scan[close - 1].read

Escape(c) == IF c \in {Quote, Slash} THEN <<Slash, c>> ELSE <<c>>

LuaQuote(value) ==
  LET out[i \in 0..Len(value)] ==
        IF i = 0 THEN <<Quote>> ELSE out[i - 1] \o Escape(value[i])
  IN  Append(out[Len(value)], Quote)

SetLua(l, value) ==
  LET start == First(Visible(l), Len(l) + 1)
  IN SubSeq(l, 1, start - 1) \o LuaQuote(value)
       \o SubSeq(l, start + Len(LuaExpression(l)), Len(l))

-----------------------------------------------------------------------------
(* parseBanlistValue: a JSON array when the text begins with a bracket,    *)
(* otherwise one item per line, blanks trimmed and empty lines dropped.    *)
BanItems(lines) == SelectSeq([i \in DOMAIN lines |-> Trim(lines[i])],
                             LAMBDA item : item # <<>>)
LooksLikeJSON(lines) ==
  BanItems(lines) # <<>> /\ Head(BanItems(lines))[1] = "["

-----------------------------------------------------------------------------
(* Lines as they stand in a file nobody has set anything in yet.           *)
Fresh(k) ==
  CASE k = "hostname" -> {<<Blank, "x">>}
    [] k = "port"     -> {<<Blank, "7", Blank, Hash, "x">>}
    [] k = "password" -> {<<Blank>>, <<Blank, "x", Blank, Hash, "x">>}
    [] k = "config"   -> {<<Blank>> \o LuaQuote(<<"x">>) \o tail :
                            tail \in {<<>>, <<Blank, Dash, Dash, "x">>}}
    [] k = "playerNames" -> {<<>>}

Init ==
  /\ key \in IniKeys \cup {"config", "playerNames"}
  /\ line \in Fresh(key)
  /\ told = <<>>

(* The operator edits the file by hand.                                    *)
Edit == line' \in Fresh(key) /\ told' = <<>> /\ UNCHANGED key

(* config set --file server: an invalid value changes nothing.             *)
SetServer ==
  /\ key \in IniKeys
  /\ \E value \in Texts(IF key = "port" THEN DOMAIN Digits \cup {Blank}
                        ELSE {"x", Blank, Hash}) :
       /\ Valid(value)
       /\ line' = SetIni(line, Formatted(value))
       /\ told' = <<Formatted(value)>>
  /\ Len(line') <= MaxLine
  /\ UNCHANGED key

(* config set --file config, for a string.                                 *)
SetConfig ==
  /\ key = "config"
  /\ \E value \in Texts({"x", Blank, Dash, Quote, Slash}) :
       line' = SetLua(line, value) /\ told' = <<value>>
  /\ UNCHANGED key

(* config set --file banlist, the text given line by line.  What looks     *)
(* like JSON and is not is refused.                                        *)
SetBanlist ==
  /\ key = "playerNames"
  /\ \E a, b \in {<<>>, <<"x">>, <<"x", Blank>>, <<"[", "x">>} :
       ~LooksLikeJSON(<<a, b>>) /\ line' = BanItems(<<a, b>>)
  /\ told' = <<line'>>
  /\ UNCHANGED key

Next == Edit \/ SetServer \/ SetConfig \/ SetBanlist

Spec == Init /\ [][Next]_vars

-----------------------------------------------------------------------------
(* "Comments are kept" (docs/v2/04-ops.md:523): whatever is set, the text  *)
(* that was the comment of the line still ends it.  And what is told of    *)
(* config.lua is what the file says: every string the code accepts, with   *)
(* quotes, backslashes and dashes, comes back from the line it was written *)
(* into (setServer, setLua, parseLuaString).                               *)
Comment == SubSeq(line, IF key = "config" THEN LuaComment(line)
                        ELSE CommentStart(line), Len(line))
KeepsComment == key # "playerNames" /\ told' # <<>> => IsSuffix(Comment, line')

Holds(l, value) == LuaString(LuaExpression(l)) = value

SettingSticks ==
  /\ KeepsComment
  /\ key = "config" /\ told' # <<>> => Holds(line', told'[1])

ReadsBack == [][SettingSticks]_vars

(* A plain value, without a comment sign or blanks at its ends, is read    *)
(* back as it was set: what TestSetServerPreservesInlineCommentsAndAlias   *)
(* (internal/gameconfig/set_test.go:158) expects, no comment in a value.   *)
Plain(value) == value = Trim(value) /\ \A i \in DOMAIN value : value[i] # Hash
ServerReadsBack ==
  key \in IniKeys /\ told # <<>> =>
    (Plain(told[1]) => IniValue(line) = told[1])
=============================================================================
