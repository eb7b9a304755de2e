--------------------------- MODULE MCPolicyParser ---------------------------
(***************************************************************************)
(* Small instances of PolicyParser: every kind of statement alone and      *)
(* after another that leaves something in the globals, with blanks or      *)
(* comments between the words; files with one word missing, doubled or     *)
(* out of place; and every text of up to three characters from an alphabet *)
(* of ones that start, end and break tokens.  Buffers of a few characters  *)
(* make tokens span reads, and a stack of four grow.                       *)
(***************************************************************************)
EXTENDS PolicyFrontEnd, PolicyTables

h1    == <<"h", "1">>
h20   == <<"h", "2", "0">>
m0    == <<"m", "0">>
list1 == <<"l", "i", "s", "t", "1">>
n1    == <<"1">>
n07   == <<"0", "7">>

ListStatement == DefList(list1, <<n07, n1>>)
MonStatement  == DefMonitor(m0, Member(h1, TRUE, list1))
OnList        == IfElse(Member(h20, FALSE, list1), "FWD12", "FWD1")
OnHeader      == IfElse(Compare(h1, "EQ", n07), "FWD3", "DROP")
OnSum         == IfElse(Sum(h1, "PLUS", h20, "GE", n1), "DROP", "FWD1")
OnMonitor     == IfElse(WatchAnd(m0, Compare(h1, "LE", n1)), "DROP", "FWD1")
NoElse        == If(Watch(m0), "FWD2")
InIf          == Nested(Compare(h1, "LT", h20), Nested(Watch(m0), OnHeader))

Singles == {<<s>> : s \in {ListStatement, MonStatement, OnList, OnHeader, OnSum, OnMonitor, NoElse, InIf}}
Pairs   == {<<MonStatement, OnList>>, <<OnList, MonStatement>>, <<OnSum, OnHeader>>, <<OnHeader, OnMonitor>>,
            <<NoElse, OnHeader>>, <<OnMonitor, OnSum>>, <<ListStatement, ListStatement>>, <<OnList, InIf>>}

Blank   == <<" ">>
Comment == <<"/", "/", "i", NUL, "\n">>

ProgramSources ==
    {[text |-> Written(p, Blank), program |-> p] : p \in Singles \cup Pairs}
    \cup {[text |-> Written(p, Comment), program |-> p] : p \in {<<ListStatement>>, <<OnMonitor>>}}

Texts(n) == [1..n -> {"/", "\n", "i", "f", "1", "=", ":", NUL}]

\* The words of a statement with word i missing, doubled, or after the next.
Edits(ws) ==
    {RemoveAt(ws, i) : i \in DOMAIN ws} \cup {InsertAt(ws, i, ws[i]) : i \in DOMAIN ws}
    \cup {[ws EXCEPT ![i] = ws[i + 1], ![i + 1] = ws[i]] : i \in 1..(Len(ws) - 1)}

\* A count, a number first in a sum, and predicates in the place of an operator.
Odd == {<<m0, Spelling["ASSIGN"], Spelling["COUNT"], Spelling["LP"], h1, Spelling["IN"], list1, Spelling["RP"]>>,
        <<Spelling["IF"], Spelling["MATCH"], Spelling["LP"], n1, Spelling["MINUS"], h1, Spelling["EQ"], n1>>,
        <<Spelling["IF"], Spelling["MATCH"], Spelling["LP"], h1, h1, Spelling["EQ"], n1, Spelling["OR"], h1,
          Spelling["GT"], h20, n07, Spelling["RP"], Spelling["THEN"], Spelling["DROP"]>>}

Spaced(ws) == FlattenSeq([i \in DOMAIN ws |-> ws[i] \o Blank])

RawSources ==
    {[text |-> t, program |-> <<>>] :
        t \in UNION {Texts(n) : n \in 0..3}
             \cup {Spaced(ws) : ws \in Edits(OnMonitor.words) \cup Edits(MonStatement.words) \cup Odd}}

MCSources == ProgramSources \cup RawSources
=============================================================================
