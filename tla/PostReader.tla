------------------------------ MODULE PostReader ------------------------------
(***************************************************************************)
(* An article on its way into the spool and out again.  A client sends     *)
(* lines, dot-stuffed and ended by a line of one dot, which POST reads     *)
(* character by character (Server.C); or the mail system hands a mail to   *)
(* newsd -mailgateway (newsd.C), which ends with the input.  Both count    *)
(* lines against the group's limit, let ParseArticle, UpdatePath and Post  *)
(* make the file of it (module Headers), and mail a copy to the addresses  *)
(* of ccpost.  SendArticle sends the file back (Article.C).                *)
(*                                                                         *)
(* The group is loaded, locked and counted in module GroupSpool; that the  *)
(* limit may be another group's is a matter of module NntpSession.         *)
(***************************************************************************)
EXTENDS Headers

CONSTANTS
  Articles,   \* what is sent, sequences of lines: a set for each way to send it
  LineWidth,  \* a longer line counts as several (80 in the code)
  MayHangUp   \* whether the connection, or the pipe, may break meanwhile

ASSUME LineWidthAssumption == LineWidth \in Nat \ {0}
\* A way gives the server's choices, a line is without its CR and LF, and an
\* article has a first line; in POST one that needs no stuffing, as the code
\* takes a first dot for text.
ASSUME ArticlesAssumption ==
  \A h \in DOMAIN Articles :
    /\ h.via \in {"POST", "mail"} /\ h.postlimit \in Nat
    /\ h.postok \in BOOLEAN /\ h.ccpost \in BOOLEAN /\ h.preservedate \in BOOLEAN
    /\ \A a \in Articles[h] :
         /\ a \in Seq(Seq(STRING)) /\ a # << >>
         /\ \A i \in DOMAIN a : \A j \in DOMAIN a[i] : a[i][j] \notin {"r", "n"}
         /\ h.via = "POST" => a[1] = << >> \/ a[1][1] # "."
ASSUME MayHangUpAssumption == MayHangUp \in BOOLEAN

VARIABLES
  how,       \* via "POST" or "mail"; the group's postlimit, postok and ccpost;
             \* whether -preserve-date was given
  sent,      \* the article the client means
  wire,      \* what is still to be read
  mode,      \* MODE_NORMAL, MODE_CRLF, MODE_CRLF_DOT
  msg,       \* the text collected
  linechars, linecount, toolong,
  cut,       \* the input broke off
  pc,        \* "reading", then "posted" or "rejected"
  file,      \* the lines of the file Post writes
  mailed,    \* the mail to the addresses of ccpost
  dead       \* what the gateway puts into .deadletters

vars == <<how, sent, wire, mode, msg, linechars, linecount, toolong, cut, pc, file, mailed, dead>>

-----------------------------------------------------------------------------
\* What a client sends (RFC 3977, 3.1.1), with the next command behind it; and
\* what the mail system does.

CRLF == <<"r", "n">>
NextCommand == <<"x", "x">> \o CRLF
Stuffed(line) == (IF line # << >> /\ line[1] = "." THEN <<".">> ELSE << >>) \o line \o CRLF
WireOf(lines) == FlattenSeq([i \in DOMAIN lines |-> Stuffed(lines[i])]) \o <<".">> \o CRLF
MailOf(lines) == FlattenSeq([i \in DOMAIN lines |-> Append(lines[i], "n")])

\* The fields that the gateway puts before the mail.
Gateway == << <<"Newsgroups:", " ", "group">>, <<"X-Mail-To-News-Gateway:", " ", "newsd">> >>

Init ==
  /\ how \in DOMAIN Articles
  /\ sent \in Articles[how]
  /\ wire = IF how.via = "POST" THEN WireOf(sent) \o NextCommand ELSE MailOf(sent)
  /\ msg = IF how.via = "POST" THEN << >> ELSE MailOf(Gateway)
  /\ mode = "NORMAL" /\ linechars = 0 /\ linecount = 0 /\ toolong = FALSE
  /\ cut = FALSE /\ pc = "reading"
  /\ file = << >> /\ mailed = << >> /\ dead = << >>

-----------------------------------------------------------------------------
\* The end of the input.

Rejected ==
  /\ pc' = "rejected"
  /\ UNCHANGED <<file, mailed, dead>>

\* The gateway's mail says first where the article was posted.
Note == IF how.via = "mail" THEN << <<"x">>, << >> >> ELSE << >>

\* Group::Post of the header and body, and the mail.
Post(head, body, preservedate) ==
  LET full == Edited(head, body, preservedate) IN
  /\ pc' = "posted"
  /\ file' = FileOf(full, body)
  /\ mailed' = IF how.ccpost THEN FileOf(Preserved(full), Note \o body) ELSE << >>
  /\ UNCHANGED dead

\* 411 when too long, 441 without Newsgroups: or when posting is disabled, else 240.
FinishPost ==
  LET a == ParseArticle(msg) IN
  IF toolong \/ GetHeaderIndex(a.head, "Newsgroups:") = 0 \/ ~how.postok THEN Rejected
  ELSE Post(UpdatePath(a.head), a.body, FALSE)

\* The gateway renames the envelope's line and looks for a loop.
Massaged(head) ==
  [t \in DOMAIN head |-> IF IsField(head[t], "From ") THEN <<"X-Original-From:", " ">> \o Tail(head[t])
                                                     ELSE head[t]]

FinishMail ==
  LET a == ParseArticle(msg)
      head == UpdatePath(a.head)
      loop == GetHeaderIndex(head, "X-Loop:")
  IN  IF toolong THEN Rejected
      ELSE IF loop # 0
      THEN /\ pc' = "rejected"
           /\ dead' = FileOf(Massaged(SubSeq(head, 1, loop)) \o SubSeq(head, loop + 1, Len(head)), a.body)
           /\ UNCHANGED <<file, mailed>>
      ELSE Post(Massaged(head), a.body, how.preservedate)

Finish == IF how.via = "POST" THEN FinishPost ELSE FinishMail

-----------------------------------------------------------------------------
\* The loops of POST and of the gateway, one character per step.

\* Faulty: linechars is not reset after a long line; the limit itself is too
\* much.
CollectNoReset(c, text) ==
  LET chars == linechars + 1
      full == chars > LineWidth \/ c = "n"
      lines == linecount + (IF full THEN 1 ELSE 0)
      over == how.postlimit > 0 /\ lines > how.postlimit
  IN  /\ linechars' = IF c = "n" THEN 0 ELSE chars
      /\ linecount' = lines
      /\ toolong' = (toolong \/ over)
      /\ msg' = IF over THEN msg ELSE msg \o text
CollectBelow(c, text) ==
  LET chars == linechars + 1
      full == chars > LineWidth \/ c = "n"
      lines == linecount + (IF full THEN 1 ELSE 0)
      over == how.postlimit > 0 /\ lines >= how.postlimit
  IN  /\ linechars' = IF full THEN 0 ELSE chars
      /\ linecount' = lines
      /\ toolong' = (toolong \/ over)
      /\ msg' = IF over THEN msg ELSE msg \o text

\* The character c is counted, and text added to msg.
Collect(c, text) ==
  LET chars == linechars + 1
      full == chars > LineWidth \/ c = "n"
      lines == linecount + (IF full THEN 1 ELSE 0)
      over == how.postlimit > 0 /\ lines > how.postlimit
  IN  /\ linechars' = IF full THEN 0 ELSE chars
      /\ linecount' = lines
      /\ toolong' = (toolong \/ over)
      /\ msg' = IF over THEN msg ELSE msg \o text

Reading == pc = "reading" /\ wire # << >> /\ wire' = Tail(wire)
results == <<pc, file, mailed, dead>>

SkipCR ==
  /\ how.via = "POST" /\ Reading /\ Head(wire) = "r"
  /\ UNCHANGED <<how, sent, mode, msg, linechars, linecount, toolong, cut, results>>

\* "<CRLF>.": the dot is dropped.
SkipDot ==
  /\ how.via = "POST" /\ Reading /\ Head(wire) = "." /\ mode = "CRLF"
  /\ mode' = "CRLF_DOT"
  /\ UNCHANGED <<how, sent, msg, linechars, linecount, toolong, cut, results>>

EndOfText ==
  /\ how.via = "POST" /\ Reading /\ Head(wire) = "n" /\ mode = "CRLF_DOT"
  /\ Finish
  /\ UNCHANGED <<how, sent, mode, msg, linechars, linecount, toolong, cut>>

Character ==
  /\ how.via = "POST" /\ Reading /\ Head(wire) # "r"
  /\ ~(Head(wire) = "n" /\ mode = "CRLF_DOT")
  /\ ~(Head(wire) = "." /\ mode = "CRLF")
  /\ mode' = IF Head(wire) = "n" THEN "CRLF" ELSE "NORMAL"
  /\ Collect(Head(wire), <<Head(wire)>>)
  /\ UNCHANGED <<how, sent, cut, results>>

\* The gateway has no dots to undo, and puts the CR back itself.
MailCharacter ==
  /\ how.via = "mail" /\ Reading
  /\ Collect(Head(wire), IF Head(wire) = "n" THEN CRLF ELSE <<Head(wire)>>)
  /\ UNCHANGED <<how, sent, mode, cut, results>>

EndOfMail ==
  /\ how.via = "mail" /\ pc = "reading" /\ wire = << >>
  /\ Finish
  /\ UNCHANGED <<how, sent, wire, mode, msg, linechars, linecount, toolong, cut>>

\* read returns 0 or fails: the loop ends in the same way.
HangUp ==
  /\ MayHangUp
  /\ pc = "reading" /\ wire # << >>
  /\ cut' = TRUE
  /\ wire' = << >>
  /\ Finish
  /\ UNCHANGED <<how, sent, mode, msg, linechars, linecount, toolong>>

Next ==
  \/ SkipCR \/ SkipDot \/ EndOfText \/ Character
  \/ MailCharacter \/ EndOfMail
  \/ HangUp
Spec == Init /\ [][Next]_vars

-----------------------------------------------------------------------------
\* SendArticle: lines, dot-stuffed.  ARTICLE sends the file, HEAD and BODY its
\* parts, BODY with an empty line behind it.
SendPlain(lines) == FlattenSeq([i \in DOMAIN lines |-> lines[i] \o CRLF])   \* faulty
SendArticle(lines) == FlattenSeq([i \in DOMAIN lines |-> Stuffed(lines[i])])

Reply(cmd) ==
  (CASE cmd = "ARTICLE" -> SendArticle(file)
     [] cmd = "HEAD" -> SendArticle(HeadOf(file))
     [] cmd = "BODY" -> SendArticle(BodyOf(file)) \o CRLF)
  \o <<".">> \o CRLF

-----------------------------------------------------------------------------
(* Properties.                                                             *)

\* Every variable keeps its type; linechars, which the loops reset in two
\* cases, never exceeds the width.
TypeOK ==
  /\ how \in DOMAIN Articles /\ sent \in Articles[how]
  /\ mode \in {"NORMAL", "CRLF", "CRLF_DOT"}
  /\ linechars \in 0 .. LineWidth /\ linecount \in Nat
  /\ toolong \in BOOLEAN /\ cut \in BOOLEAN
  /\ pc \in {"reading", "posted", "rejected"}

\* What the sender means: header lines, and the body behind the first empty line
\* that is not the very first.
Meant == IF how.via = "POST" THEN sent ELSE Gateway \o sent
Closed == IF \E k \in 2 .. Len(Meant) : Meant[k] = << >> THEN Meant ELSE Append(Meant, << >>)
MeantHead == IF Meant[1] = << >> THEN << << >> >> \o HeadOf(Tail(Closed)) ELSE HeadOf(Closed)
MeantBody == SubSeq(Closed, Len(MeantHead) + 2, Len(Closed))

\* The fields of a header: each line with those that continue it.
AddToFields(fields, line) ==
  IF IsFold(line) /\ fields # << >> THEN [fields EXCEPT ![Len(fields)] = Append(@, line)]
                                   ELSE Append(fields, <<line>>)
Fields(head) == FoldLeft(AddToFields, << >>, head)
\* Those with one of the names; SelectSeq as a fold.
AddNamed(names, fields, field) ==
  IF field[1] # << >> /\ field[1][1] \in names THEN Append(fields, field) ELSE fields
Named(head, names) == FoldLeft(LAMBDA fields, f : AddNamed(names, fields, f), << >>, Fields(head))
Value(field) == Trim(Tail(FlattenSeq(field)))
Folded(head, name) == \E i \in DOMAIN Named(head, {name}) : Len(Named(head, {name})[i]) > 1

\* The header that the sender finds again: the gateway renames the envelope's line.
KeptHead == IF how.via = "mail" THEN Massaged(MeantHead) ELSE MeantHead

Whole == pc = "posted" /\ ~cut
\* Post takes the first line of these fields out, and leaves the others.
Proper == Meant[1] # << >> /\ ~Folded(MeantHead, "Date:") /\ ~Folded(MeantHead, "NNTP-Posting-Host:")

Ours == {"Date:", "NNTP-Posting-Host:", "Path:", "Xref:", "Message-ID:", "Lines:"}

\* An article is stored as it is meant: the body as it is, lines that begin with
\* dots, single dots and empty lines included; the fields of the sender, with the
\* lines that continue them, in their order; and each field of the server once,
\* where the sender has none, or in the place of one of the sender's.
StoredAsMeant ==
  Whole /\ Proper =>
    /\ BodyOf(file) = MeantBody
    /\ Named(HeadOf(file), Names \ Ours) = Named(KeptHead, Names \ Ours)
    /\ \A n \in Ours \ {"Xref:"} :
         Len(Named(HeadOf(file), {n})) = IF Named(MeantHead, {n}) = << >> THEN 1 ELSE Len(Named(MeantHead, {n}))
    /\ IsPrefix(<<"here">>, Value(Named(HeadOf(file), {"Path:"})[1]))

\* A sender's field, the last of several, or else the server's value.
Or(name, value) == IF Named(MeantHead, {name}) # << >> THEN Value(Last(Named(MeantHead, {name}))) ELSE value

\* The number of lines that a value tells, if it is one: the digits it begins with,
\* which stand for more than zero.
TellsLines(value, column) ==
  \A k \in 0 .. Len(value) :
    /\ \A j \in 1 .. k : value[j] = "0"
    /\ k = Len(value) \/ value[k + 1] # "0"
    => column = IF k > 1 THEN SubSeq(value, 1, k) ELSE << >>

\* What XOVER tells of an article is, column by column, what its sender wrote, in
\* several lines or one, and what the server knows better: its own Date, unless
\* the gateway preserves the mail's, and its own Xref.  Of a sender's Lines it
\* tells the number; of an article without a body it tells none.
OverviewRight ==
  Whole /\ Proper =>
    LET columns == Overview(file)
        told == [c \in 1 .. 8 |-> Trim(columns[c])]
    IN
    /\ told[1] = Or("Subject:", << >>) /\ told[2] = Or("From:", << >>)
    /\ told[3] = IF how.via = "mail" /\ how.preservedate THEN Or("Date:", <<"now">>) ELSE <<"now">>
    /\ told[4] = Or("Message-ID:", <<"<", "number">>) /\ told[5] = Or("References:", << >>)
    /\ TellsLines(Or("Lines:", Decimal(Len(MeantBody))), told[7])
    /\ told[8] = <<"Xref:", " ", "here", "number">>

\* The last field with the name says something; a line that continues it does,
\* even if it is all white.
Has(head, name) ==
  /\ Named(head, {name}) # << >>
  /\ Value(Last(Named(head, {name}))) # << >> \/ Len(Last(Named(head, {name}))) > 1

\* Of the articles that are acknowledged, those can be read again whose first
\* line is not empty, that have a From field, and that do not have an empty
\* Message-ID: POST itself asks for none of this.
LoadsIffNamed ==
  Whole /\ (Meant[1] # << >> => Proper) =>
    (Loads(file) <=> /\ Meant[1] # << >>
                     /\ Has(MeantHead, "From:")
                     /\ Named(MeantHead, {"Message-ID:"}) # << >> => Has(MeantHead, "Message-ID:"))

\* ARTICLE finds an article by the Message-ID that the server tells of it, if the
\* line with the field's name has one word that begins with "<" - and only then:
\* without "<" it is not taken for an identifier, and white space ends it (also
\* where the field goes on, but so does the search).  Of two such fields the
\* first is searched and the last is told.
FoundById ==
  Whole /\ Proper /\ Loads(file) /\ Len(Named(MeantHead, {"Message-ID:"})) < 2 =>
    LET id == IF Named(MeantHead, {"Message-ID:"}) = << >> THEN <<"<", "number">>
              ELSE Value(<<Last(Named(MeantHead, {"Message-ID:"}))[1]>>)
    IN  Finds(file, Load(file)["Message-ID:"]) <=>
          id # << >> /\ id[1] = "<" /\ \A i \in 1 .. Len(id) : id[i] # " "

\* What a client makes of a reply: lines up to the single dot, undone.
Received(text) ==
  LET lines == LinesOf(text)
      dot == SelectInSeq(lines, LAMBDA line : line = <<".">>)
  IN  [i \in 1 .. dot - 1 |-> IF lines[i] # << >> /\ lines[i][1] = "." THEN Tail(lines[i]) ELSE lines[i]]

\* ARTICLE, HEAD and BODY bring the stored lines to the client, whatever dots
\* they have, and BODY an empty line more.
SentAsReceived ==
  Whole /\ Proper =>
    /\ Received(Reply("ARTICLE")) = file
    /\ Received(Reply("HEAD")) \o << << >> >> \o Received(Reply("BODY")) = Append(file, << >>)
    /\ Received(Reply("BODY")) = Append(MeantBody, << >>)

\* The number of lines as the loops count them.
Cost(line) == 1 + Len(line) \div (LineWidth + 1)
AddCost(sum, line) == sum + Cost(line)
LineCount(lines) == FoldLeft(AddCost, 0, lines)

\* An article is refused exactly for these reasons: more lines than the limit,
\* where a line wider than LineWidth counts as several and stuffed dots do not
\* count; no Newsgroups field, or posting disabled, which does not hold the
\* gateway; a loop field in the header of a mail.  A mail that went round is
\* kept among the dead letters.  POST replies at the text's dot, neither before
\* nor behind: the next command is still to be read.
RefusedExactly ==
  pc # "reading" /\ ~cut =>
    LET toomany == how.postlimit > 0 /\ LineCount(sent) > how.postlimit
        loop == how.via = "mail" /\ Named(MeantHead, {"X-Loop:"}) # << >>
    IN  /\ pc = "rejected" <=>
             \/ toomany \/ loop
             \/ how.via = "POST" /\ (~how.postok \/ Named(MeantHead, {"Newsgroups:"}) = << >>)
        /\ dead # << >> <=> loop /\ ~toomany
        /\ how.via = "POST" => wire = NextCommand

\* Those whose name a space follows.
AddSpaced(fields, field) ==
  IF Len(field[1]) > 1 /\ field[1][2] = " " THEN Append(fields, field) ELSE fields
Spaced(fields) == FoldLeft(AddSpaced, << >>, fields)

\* The mail to ccpost has the fields it should have, each with the lines that
\* continue it and none that continue another, and the body.
MailedWhole ==
  Whole /\ Proper /\ how.ccpost =>
    /\ Fields(HeadOf(mailed)) = Spaced(Named(HeadOf(file), Mailed))
    /\ BodyOf(mailed) = Note \o MeantBody
=============================================================================
