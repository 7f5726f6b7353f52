-------------------------------- MODULE Headers --------------------------------
(***************************************************************************)
(* The headers of an article: how POST and the mail gateway split a text   *)
(* (Group::ParseArticle), what they change in its header (UpdatePath,      *)
(* Post), and how the file is read back (Article::Load and Overview,       *)
(* GetMessageID).                                                          *)
(*                                                                         *)
(* A text is a sequence of characters: "r" (CR), "n" (LF), ".", "<", " ",  *)
(* the digit "0", the name of a header field up to its colon, which counts *)
(* as one character, and any other, such as "x".  A line is a text without *)
(* "n".  Upper and lower case, tabs, signs of numbers, and the lengths     *)
(* beyond which the code cuts a line, a field or a number are left out.    *)
(***************************************************************************)
EXTENDS Integers, Sequences, SequencesExt

\* Fields that Article::Load keeps; those that go into a mail copy of an article
\* (Content-Transfer-Encoding, which only POST mails, is left out).
Loaded == {"Subject:", "From:", "Date:", "Xref:", "Message-ID:", "References:", "Lines:"}
Mailed == {"From:", "Subject:", "References:", "Xref:", "Path:", "Content-Type:",
           "MIME-Version:", "Message-ID:"}

\* ... and the others the code looks for.
Names == Loaded \cup Mailed \cup
  {"Newsgroups:", "NNTP-Posting-Host:", "X-Loop:", "X-Mail-To-News-Gateway:",
   "From ", "X-Original-From:"}

IsField(line, name) == line # << >> /\ line[1] = name
IsFold(line) == line # << >> /\ line[1] = " "

\* A text without the white space it begins with.
Trim(text) ==
  LET i == SelectInSeq(text, LAMBDA c : c # " ")
  IN  IF i = 0 THEN << >> ELSE SubSeq(text, i, Len(text))

-----------------------------------------------------------------------------
\* Group::ParseArticle.

\* A character of the text: CR is skipped, LF ends the line.
AddCharacter(at, c) ==
  CASE c = "r" -> at
    [] c = "n" -> [lines |-> Append(at.lines, at.line), line |-> << >>]
    [] OTHER -> [at EXCEPT !.line = Append(@, c)]

\* The lines of a text; what follows the last LF is dropped.
LinesOf(text) == FoldLeft(AddCharacter, [lines |-> << >>, line |-> << >>], text).lines

\* The header is the lines before the first empty one, which is dropped; an
\* empty first line is one of the header.
HeadSize(lines) ==
  LET k == SelectInSeq(SubSeq(lines, 2, Len(lines)), LAMBDA line : line = << >>)
  IN  IF k = 0 THEN Len(lines) ELSE k

\* Faulty: the empty line stays in the body, behind Post's own separator.
ParseKeepingSeparator(text) ==
  LET lines == LinesOf(text)
      k == HeadSize(lines)
  IN  [head |-> SubSeq(lines, 1, k), body |-> SubSeq(lines, k + 1, Len(lines))]

ParseArticle(text) ==
  LET lines == LinesOf(text)
      k == HeadSize(lines)
  IN  [head |-> SubSeq(lines, 1, k), body |-> SubSeq(lines, k + 2, Len(lines))]

-----------------------------------------------------------------------------
\* The header on its way into the file.

\* Group::GetHeaderIndex: the first line with the field, 0 for none.
GetHeaderIndex(head, name) == SelectInSeq(head, LAMBDA line : IsField(line, name))

\* Group::UpdatePath: this server is put before the others, or starts the list.
UpdatePath(head) ==
  LET rest(line) == IF Len(line) > 1 /\ line[2] = " " THEN SubSeq(line, 3, Len(line))
                                                     ELSE Tail(line)
      known == [t \in DOMAIN head |->
                  IF IsField(head[t], "Path:") THEN <<"Path:", " ", "here">> \o rest(head[t])
                                               ELSE head[t]]
  IN  IF GetHeaderIndex(head, "Path:") # 0 THEN known
      ELSE Append(known, <<"Path:", " ", "here">>)

\* Only the line with the name goes; the lines that continue it stay.
Erase(head, name) ==
  LET t == GetHeaderIndex(head, name) IN IF t = 0 THEN head ELSE RemoveAt(head, t)

\* Faulty: the field is added in any case, as it was before version 1.40.
DefaultAlways(head, line) == Append(head, line)

\* A field is added when the header has none.
Default(head, line) == IF GetHeaderIndex(head, line[1]) = 0 THEN Append(head, line) ELSE head

\* A number, written out: it has n + 1 digits, which no other has.
Decimal(n) == [i \in 1 .. n + 1 |-> "0"]

\* Group::Post: the fields of the server.  "now", "peer", "number" stand for
\* DateRFC822(), the client's address, and the article's number with what follows
\* it in "<number-group@here>".
Edited(head, body, preservedate) ==
  LET dated == GetHeaderIndex(head, "Date:") # 0
      bare == Erase(IF preservedate THEN head ELSE Erase(head, "Date:"), "NNTP-Posting-Host:")
      date == IF preservedate /\ dated THEN << >> ELSE << <<"Date:", " ", "now">> >>
      full == Append(Append(bare, <<"Xref:", " ", "here", "number">>) \o date,
                     <<"NNTP-Posting-Host:", " ", "peer">>)
  IN  Default(Default(full, <<"Message-ID:", " ", "<", "number">>),
              <<"Lines:", " ">> \o Decimal(Len(body)))

\* The file that Post writes.
FileOf(head, body) == head \o << << >> >> \o body

-----------------------------------------------------------------------------
\* ... and back.

\* The lines before the first empty one, and those behind it.
HeadOf(file) == SubSeq(file, 1, SelectInSeq(file, LAMBDA line : line = << >>) - 1)
BodyOf(file) == SubSeq(file, Len(HeadOf(file)) + 2, Len(file))

\* atoi: the number whose digits a text begins with behind white space, or 0.
Atoi(text) ==
  LET digits == SelectInSeq(Append(Trim(text), "end"), LAMBDA c : c # "0") - 1
  IN  IF digits = 0 THEN 0 ELSE digits - 1

\* What is kept of a field: its text, or its number.
Kept(key, val) == IF key = "Lines:" THEN Atoi(val) ELSE val

\* Article::_ParseHeader, of the field that was read last.
ParseHeader(at) ==
  IF at.key \in Loaded THEN [at.fields EXCEPT ![at.key] = Kept(at.key, at.val)] ELSE at.fields

\* Faulty: a line that continues a field is taken for the start of one.
LoadLineFlat(at, line) ==
  [fields |-> ParseHeader(at), key |-> line[1], val |-> Trim(Tail(line))]

\* One line of Article::Load: a continuation is added with its white space, a
\* new field ends the one before.
LoadLine(at, line) ==
  IF IsFold(line) THEN [at EXCEPT !.val = @ \o line]
  ELSE [fields |-> ParseHeader(at), key |-> line[1], val |-> Trim(Tail(line))]

\* Article::Load: the last of several fields with one name counts.
Load(file) ==
  ParseHeader(FoldLeft(LoadLine, [fields |-> [n \in Loaded |-> Kept(n, << >>)], key |-> "", val |-> << >>],
                       HeadOf(file)))
Loads(file) == Load(file)["Message-ID:"] # << >> /\ Load(file)["From:"] # << >>

\* Article::Overview, what XOVER sends behind the number: a column for each field
\* of newsd.C's overview[], but for Reply-To, which has none; Bytes has an empty
\* one, and so has a number of lines that is not positive.
Overview(file) ==
  LET article == Load(file) IN
  << article["Subject:"], article["From:"], article["Date:"], article["Message-ID:"],
     article["References:"], << >>,
     IF article["Lines:"] > 0 THEN Decimal(article["Lines:"]) ELSE << >>,
     IF article["Xref:"] # << >> THEN <<"Xref:", " ">> \o article["Xref:"] ELSE << >> >>

\* Faulty: the white space before the identifier is taken for a part of it.
GetMessageIDUntrimmed(file) ==
  LET t == GetHeaderIndex(HeadOf(file), "Message-ID:")
  IN  IF t = 0 THEN << >> ELSE Tail(file[t])

\* Group::GetMessageID: the first line with the field.
GetMessageID(file) ==
  LET t == GetHeaderIndex(HeadOf(file), "Message-ID:")
  IN  IF t = 0 THEN << >> ELSE Trim(Tail(file[t]))

\* The argument of a command whose line goes on like this: sscanf's %s skips
\* white space and stops at it.
Argument(text) ==
  LET arg == Trim(text)
      i == SelectInSeq(arg, LAMBDA c : c = " ")
  IN  IF i = 0 THEN arg ELSE SubSeq(arg, 1, i - 1)

\* ARTICLE with this text behind it finds the article of the file by its
\* identifier; another first character is not the beginning of one.
Finds(file, text) ==
  LET arg == Argument(text)
  IN  arg # << >> /\ arg[1] = "<" /\ GetMessageID(file) = arg

-----------------------------------------------------------------------------
\* The copy that is mailed: the fields Mailed whose name is followed by a space,
\* with the lines that continue them.
\* Faulty: pflag is not cleared by a field that is left out.
PreserveOpen(at, line) ==
  LET keep == IF IsFold(line) THEN at.pflag
              ELSE at.pflag \/ (\E n \in Mailed : IsField(line, n) /\ Len(line) > 1 /\ line[2] = " ")
  IN  [pflag |-> keep, lines |-> IF keep THEN Append(at.lines, line) ELSE at.lines]

Preserve(at, line) ==
  LET keep == IF IsFold(line) THEN at.pflag
              ELSE \E n \in Mailed : IsField(line, n) /\ Len(line) > 1 /\ line[2] = " "
  IN  [pflag |-> keep, lines |-> IF keep THEN Append(at.lines, line) ELSE at.lines]
Preserved(head) == FoldLeft(Preserve, [pflag |-> FALSE, lines |-> << >>], head).lines
=============================================================================
