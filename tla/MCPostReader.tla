----------------------------- MODULE MCPostReader -----------------------------
(* PostReader for TLC.  Texts: a Newsgroups field and up to three lines,     *)
(* each empty or made of dots and other characters.  Letters: headers with   *)
(* and without each field the code looks for, on one line or two, and with   *)
(* bodies that look like headers.                                            *)
EXTENDS PostReader

Lines == {<< >>, <<".">>, <<"x">>, <<".", ".">>, <<".", "x">>, <<"x", "x", "x", "x">>}
Group == <<"Newsgroups:", " ", "x">>
Texts == {<<Group>> \o s : s \in UNION {[1 .. n -> Lines] : n \in 0 .. 3}}

\* A field: absent, on one line, with its value on two, on the second, empty, or
\* empty but for a white line; and two of them.
None == << >>
One(name) == << <<name, " ", "x">> >>
Two(name) == << <<name, " ", "x">>, <<" ", "y">> >>
Late(name) == << <<name>>, <<" ", "y">> >>
Bare(name) == << <<name>> >>
White(name) == << <<name>>, <<" ", " ">> >>
Twice(name) == << <<name, " ", "x">>, <<name, "y">> >>

Bodies == {None, << << >> >>, << << >>, <<"Message-ID:", " ", "z">> >>, << << >>, << >>, <<"X-Loop:">> >>}

Subjects == {None, Two("Subject:")}
Froms == {None, One("From:"), Bare("From:"), Late("From:"), White("From:"), Bare("From:") \o One("From:")}
Id(text) == << <<"Message-ID:", " ", "<">> \o text >>
Ids == {None, Id(<<"x">>), Id(<<"x">>) \o << <<" ", "y">> >>, Id(<<" ", "x">>), Id(<<"x", " ">>),
        One("Message-ID:"), Late("Message-ID:"), Bare("Message-ID:"), White("Message-ID:"),
        Twice("Message-ID:")}
Number(text) == << <<"Lines:">> \o text >>
Others == {None, One("Path:") \o Two("Lines:"), One("NNTP-Posting-Host:") \o << <<"Path:", "x">> >>,
           One("X-Loop:") \o One("Xref:") \o Two("References:"),
           One("X-Mail-To-News-Gateway:") \o Two("Xref:") \o Number(<<"0", "0", "x">>),
           Twice("Path:") \o Twice("NNTP-Posting-Host:") \o Bare("Lines:") \o << <<" ", "0", "0">> >>,
           One("References:") \o Number(<<" ", "0", "x", "0", "0">>)}
Dates == {None, One("Date:"), Late("Date:"), Twice("Date:")}
Heads == {<<Group>>, << <<"From ", "x">> >>, << <<"From ", "x">>, Group>>, << << >>, Group>>}

Letter(h, s, f, i, d, o, b) == h \o s \o f \o i \o d \o o \o b
Letters ==
  {Letter(h, None, f, i, None, None, b) :
     h \in Heads, f \in Froms, b \in Bodies,
     i \in {None, Id(<<"x">>), Late("Message-ID:"), Bare("Message-ID:"), White("Message-ID:")}}
  \cup {Letter(h, None, One("From:"), i, None, None, None) : h \in Heads, i \in Ids}
  \cup {Letter(h, s, One("From:"), None, d, o, b) :
           h \in {<<Group>>, << <<"From ", "x">>, Group>>}, s \in Subjects, d \in Dates,
           o \in Others, b \in Bodies \ {<< << >> >>}}
  \cup {Letter(<<Group>>, s, One("From:"), i, d, o, None) :
           s \in Subjects, d \in Dates, o \in Others,
           i \in {Id(<<"x">>), White("Message-ID:"), Twice("Message-ID:")}}

\* Texts go to a group without a limit, and to one that some of them reach and
\* others exceed; letters to groups open and closed for posting; mail has its
\* date preserved or not.
Open == [via |-> "POST", postlimit |-> 0, postok |-> TRUE, ccpost |-> TRUE, preservedate |-> FALSE]
Limited == [Open EXCEPT !.postlimit = 3]
Disabled == [Open EXCEPT !.postok = FALSE, !.ccpost = FALSE]
Mail(way, preserve) == [way EXCEPT !.via = "mail", !.preservedate = preserve]

Ways ==
  [w \in {Open, Limited, Disabled, Mail(Limited, FALSE), Mail(Open, TRUE), Mail(Disabled, FALSE)} |->
     CASE w.postlimit = 3 -> Texts
       [] w = Open -> Texts \cup Letters
       [] OTHER -> Letters]
=============================================================================
