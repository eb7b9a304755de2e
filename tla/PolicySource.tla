---------------------------- MODULE PolicySource ----------------------------
(***************************************************************************)
(* How the statements of a policy are written and what each of them says,  *)
(* for comparison with what the compiler's front end makes of a whole      *)
(* file.  A condition has its words, the match expression it stands for    *)
(* and the headers it names; a statement has its words and what it adds to *)
(* the program.                                                            *)
(***************************************************************************)
EXTENDS PolicyText, SequencesExt

\* A number is kept by its value, a name by its letters.
Value(w) == IF Range(w) \subseteq Digit THEN <<ToString(atoi(w))>> ELSE w

Condition(words, type, pred, mvar, headers) ==
    [words |-> words, match |-> [type |-> type, pred |-> pred, mvar |-> mvar], headers |-> headers]

Operator == [EQ |-> "==", LT |-> "<", GT |-> ">", LE |-> "<=", GE |-> ">=",
             PLUS |-> "+", MINUS |-> "-", MULTI |-> "*", MOD |-> "%"]

Compare(h, op, w) ==
    Condition(<<h, Spelling[op], w>>, "PRED", <<h, Operator[op], Value(w)>>, <<>>,
              IF Range(w) \subseteq Digit THEN <<h>> ELSE <<h, w>>)

Sum(h, aop, k, op, w) ==
    Condition(<<h, Spelling[aop], k, Spelling[op], w>>, "PRED",
              <<h \o <<" ", Operator[aop], " ">> \o k, Operator[op], Value(w)>>, <<>>, <<h, k>>)

Member(h, isin, list) ==
    Condition(<<h, Spelling[IF isin THEN "IN" ELSE "NOTIN"], list>>, "LIST",
              <<h, IF isin THEN "in" ELSE "notin", list>>, <<>>, <<h>>)

Watch(m) == Condition(<<m>>, "MONITOR", <<>>, m, <<>>)

WatchAnd(m, c) ==
    Condition(<<m, Spelling["AND"]>> \o c.words, "MONITOR", c.match.pred, m, c.headers)

-----------------------------------------------------------------------------
Statement(words, lists, mons, matches, headers) ==
    [words |-> words, lists |-> lists, mons |-> mons, matches |-> matches, headers |-> headers]

DefList(name, items) ==
    Statement(<<Spelling["DEF"], name, Spelling["ASSIGN"], Spelling["LB"]>> \o items \o <<Spelling["RB"]>>,
              <<[name |-> name, items |-> [i \in DOMAIN items |-> Value(items[i])]]>>, <<>>, <<>>, <<>>)

DefMonitor(m, c) ==
    Statement(<<m, Spelling["ASSIGN"], Spelling["MONITOR"], Spelling["LP"]>> \o c.words \o <<Spelling["RP"]>>,
              <<>>, <<[mvar |-> m, lp |-> c.match.pred]>>, <<>>, c.headers)

IfMatch(c) == <<Spelling["IF"], Spelling["MATCH"], Spelling["LP"]>> \o c.words \o <<Spelling["RP"], Spelling["THEN"]>>

WithActions(c, acts) ==
    [type |-> c.match.type, pred |-> c.match.pred, mvar |-> c.match.mvar, acts |-> acts]

If(c, a) == Statement(IfMatch(c) \o <<Spelling[a]>>, <<>>, <<>>, <<WithActions(c, <<a>>)>>, c.headers)

IfElse(c, a, b) ==
    Statement(IfMatch(c) \o <<Spelling[a], Spelling["ELSE"], Spelling[b]>>, <<>>, <<>>,
              <<WithActions(c, <<a, b>>)>>, c.headers)

Nested(c, s) ==
    Statement(IfMatch(c) \o s.words, s.lists, s.mons, <<WithActions(c, <<>>)>> \o s.matches, c.headers \o s.headers)

\* A policy file: the words of its statements, each followed by a separator.
Written(p, sep) ==
    FlattenSeq([i \in DOMAIN p |-> FlattenSeq([j \in DOMAIN p[i].words |-> p[i].words[j] \o sep])])
=============================================================================
