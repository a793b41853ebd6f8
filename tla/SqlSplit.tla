------------------------------ MODULE SqlSplit ------------------------------
(***************************************************************************)
(* split_sql_statements: a migration file is cut into statements at the    *)
(* semicolons that stand in code, not at those of strings, quoted names,   *)
(* comments and dollar-quoted bodies.                                      *)
(*                                                                         *)
(* A file is put together from whole tokens, so that what it says is known *)
(* before it is read; the splitter sees the characters.                    *)
(***************************************************************************)
EXTENDS Integers, SequencesExt

CONSTANT MaxTokens

ASSUME SqlSplitAssumption == MaxTokens \in Nat

VARIABLES
  tokens,   \* the file
  pos,      \* the index i
  lexer,    \* state, block_depth, dollar_tag
  bufStart, \* buf is the text from here to pos
  emitted

sqlVars == <<tokens, pos, lexer, bufStart, emitted>>

(* Characters stand for themselves; three have a name. *)
Space == "space"
Semi == "semicolon"
DoubleQuote == "doublequote"

Spaces == {<<Space>>}
Words == {<<"x">>, <<"x", "E">>}
Parameters == {<<"$", "1">>}
Operators == {<<"-">>, <<"/">>}
Semicolon == <<Semi>>
Strings == {<<"'", "'">>, <<"'", Semi, "'">>, <<"'", "\\", "'">>, <<"'", "'", "'", Semi, "'">>}
EStrings == {<<"E", "'", "\\", "'", Semi, "'">>, <<"E", "'", "'", "'", Semi, "'">>}
Names == {<<DoubleQuote, Semi, DoubleQuote>>,
          <<DoubleQuote, DoubleQuote, DoubleQuote, Semi, DoubleQuote>>}
LineComments == {<<"-", "-", Semi, "\n">>, <<"-", "-", "'", "\n">>}
BlockComments == {<<"/", "*", "'", "*", "/">>,
                  <<"/", "*", "/", "*", "*", "/", Semi, "*", "/">>}
Bodies == {<<"$", "$", Semi, "$", "$">>, <<"$", "$", "'", "$", "$">>,
           <<"$", "x", "$", "$", "$", Semi, "$", "x", "$">>}
SqlTokens == Spaces \cup Words \cup Parameters \cup Operators \cup {Semicolon} \cup Strings
             \cup EStrings \cup Names \cup LineComments \cup BlockComments \cup Bodies

(* Two tokens that read as another when nothing stands between them. *)
Merge(t, u) ==
  \/ t \in Words \cup Parameters /\ u \in Words \cup Parameters \cup EStrings \cup Bodies
  \/ t \in Strings \cup EStrings /\ u \in Strings
  \/ t \in Names /\ u \in Names
  \/ t \in Operators /\ u \in Operators \cup LineComments

SqlFiles == {f \in SeqOf(SqlTokens, MaxTokens) : \A k \in 1..(Len(f) - 1) : ~Merge(f[k], f[k + 1])}

Text == FlattenSeq(tokens)
Ch(k) == IF k \in 1..Len(Text) THEN Text[k] ELSE ""
TwoAt(k, a, b) == Ch(k) = a /\ Ch(k + 1) = b

SqlSplitInit ==
  /\ tokens \in SqlFiles
  /\ pos = 1 /\ bufStart = 1 /\ emitted = <<>>
  /\ lexer = [state |-> "code", depth |-> 0, tag |-> <<>>]

----------------------------------------------------------------------------
Letters == {"x", "E"}
Alnum == Letters \cup {"1"}

(* The dollar quote that opens at k, or none: the tag is a name. *)
DollarOpen(k) ==
  LET ends == {j \in (k + 1)..Len(Text) :
                 Ch(j) = "$" /\ \A i \in (k + 1)..(j - 1) : Ch(i) \in Alnum}
  IN IF Ch(k) = "$" /\ ends # {} /\ Ch(k + 1) \in Letters \cup {"$"}
     THEN SubSeq(Text, k, CHOOSE j \in ends : TRUE) ELSE <<>>

IsEStringStart(k) == Ch(k - 1) = "E" /\ Ch(k - 2) \notin Alnum

Blank == {Space, "\n"}
Strip(s) ==
  LET inked == {k \in 1..Len(s) : s[k] \notin Blank}
  IN IF inked = {} THEN <<>> ELSE SubSeq(s, Min(inked), Max(inked))

(* Mutant: block comments do not nest. *)
DeeperNot(depth) == depth

(* Nested block comments count. *)
Deeper(depth) == depth + 1

(* _only_trivia comes to ch, with nxt after it: skip is 1 when ch was read
   together with the character before it, and "text" is its False. *)
Reads(r, ch, nxt) ==
  LET both(state, depth) == [state |-> state, depth |-> depth, skip |-> 1]
      only(state) == [r EXCEPT !.state = state]
  IN IF r.skip = 1 THEN [r EXCEPT !.skip = 0]
     ELSE CASE r.state = "code" ->
            IF ch \in Blank THEN r
            ELSE IF ch = "-" /\ nxt = "-" THEN both("line", 0)
            ELSE IF ch = "/" /\ nxt = "*" THEN both("block", 1)
            ELSE only("text")
       [] r.state = "line" -> only(IF ch = "\n" THEN "code" ELSE "line")
       [] r.state = "block" ->
            IF ch = "/" /\ nxt = "*" THEN both("block", Deeper(r.depth))
            ELSE IF ch = "*" /\ nxt = "/"
            THEN both(IF r.depth = 1 THEN "code" ELSE "block", r.depth - 1)
            ELSE r
       [] r.state = "text" -> r

Fresh == [state |-> "code", depth |-> 0, skip |-> 0]

(* _only_trivia: nothing but blanks and comments. *)
OnlyTrivia(s) ==
  LET read[k \in 0..Len(s)] ==
        IF k = 0 THEN Fresh
        ELSE Reads(read[k - 1], s[k], IF k < Len(s) THEN s[k + 1] ELSE "")
  IN read[Len(s)].state # "text"

Emit ==
  LET text == Strip(SubSeq(Text, bufStart, pos - 1))
  IN emitted' = IF text = <<>> \/ OnlyTrivia(text) THEN emitted ELSE Append(emitted, text)

----------------------------------------------------------------------------
Goto(n, state) ==
  /\ pos' = pos + n /\ lexer' = [state |-> state, depth |-> IF state = "block" THEN 1 ELSE 0,
                                 tag |-> <<>>]
  /\ UNCHANGED <<tokens, bufStart, emitted>>
Stay(n) == Goto(n, lexer.state)
In(state) == lexer.state = state /\ pos <= Len(Text)

InLine == In("line") /\ Goto(1, IF Ch(pos) = "\n" THEN "code" ELSE "line")

InBlock ==
  /\ In("block")
  /\ IF TwoAt(pos, "*", "/") /\ lexer.depth = 1 THEN Goto(2, "code")
     ELSE /\ IF TwoAt(pos, "/", "*")
             THEN pos' = pos + 2 /\ lexer' = [lexer EXCEPT !.depth = Deeper(@)]
             ELSE IF TwoAt(pos, "*", "/")
             THEN pos' = pos + 2 /\ lexer' = [lexer EXCEPT !.depth = @ - 1]
             ELSE pos' = pos + 1 /\ UNCHANGED lexer
          /\ UNCHANGED <<tokens, bufStart, emitted>>

(* squote, estring and dquote: the quote doubled does not close, and in an E
   string neither does what a backslash escapes. *)
InQuoted ==
  \E q \in {"'", DoubleQuote} :
    /\ In("squote") \/ In("estring") \/ In("dquote")
    /\ (q = DoubleQuote) <=> (lexer.state = "dquote")
    /\ \/ lexer.state = "estring" /\ Ch(pos) = "\\" /\ Stay(2)
       \/ TwoAt(pos, q, q) /\ Stay(2)
       \/ Ch(pos) = q /\ Ch(pos + 1) # q /\ Goto(1, "code")
       \/ Ch(pos) # q /\ (lexer.state = "estring" => Ch(pos) # "\\") /\ Stay(1)

InDollar ==
  /\ In("dollar")
  /\ IF DollarOpen(pos) = lexer.tag THEN Goto(Len(lexer.tag), "code")
     ELSE pos' = pos + 1 /\ UNCHANGED <<tokens, lexer, bufStart, emitted>>

CodeOpens ==
  /\ In("code")
  /\ \/ TwoAt(pos, "-", "-") /\ Goto(2, "line")
     \/ TwoAt(pos, "/", "*") /\ Goto(2, "block")
     \/ Ch(pos) = "'" /\ Goto(1, IF IsEStringStart(pos) THEN "estring" ELSE "squote")
     \/ Ch(pos) = DoubleQuote /\ Goto(1, "dquote")
     \/ /\ DollarOpen(pos) # <<>>
        /\ pos' = pos + Len(DollarOpen(pos))
        /\ lexer' = [state |-> "dollar", depth |-> 0, tag |-> DollarOpen(pos)]
        /\ UNCHANGED <<tokens, bufStart, emitted>>

CodeCuts ==
  /\ In("code") /\ Ch(pos) = Semi
  /\ Emit /\ pos' = pos + 1 /\ bufStart' = pos + 1
  /\ UNCHANGED <<tokens, lexer>>

CodeGoesOn ==
  /\ In("code") /\ Ch(pos) \notin {"'", DoubleQuote, Semi} /\ DollarOpen(pos) = <<>>
  /\ ~TwoAt(pos, "-", "-") /\ ~TwoAt(pos, "/", "*")
  /\ Stay(1)

FileEnds ==
  /\ pos = Len(Text) + 1
  /\ Emit /\ pos' = pos + 1 /\ bufStart' = pos + 1
  /\ UNCHANGED <<tokens, lexer>>

SqlSplitNext ==
  InLine \/ InBlock \/ InQuoted \/ InDollar \/ CodeOpens \/ CodeCuts \/ CodeGoesOn \/ FileEnds

SqlSplitSpec == SqlSplitInit /\ [][SqlSplitNext]_sqlVars

----------------------------------------------------------------------------
SqlSplitTypeOK ==
  /\ pos \in 1..(Len(Text) + 2) /\ bufStart \in 1..pos
  /\ lexer.state \in {"code", "line", "block", "squote", "estring", "dquote", "dollar"}

(* What the file says: its tokens between semicolons, but for statements of
   blanks and comments. *)
Trivia == Spaces \cup LineComments \cup BlockComments
Says(part) == \E i \in DOMAIN part : part[i] \notin Trivia
Closed(file) ==
  IF Says(file.part) THEN Append(file.done, Strip(FlattenSeq(file.part))) ELSE file.done

(* The statements before the k-th token, and the tokens of the next one. *)
Read ==
  LET read[k \in 0..Len(tokens)] ==
        IF k = 0 THEN [done |-> <<>>, part |-> <<>>]
        ELSE IF tokens[k] = Semicolon THEN [done |-> Closed(read[k - 1]), part |-> <<>>]
        ELSE [read[k - 1] EXCEPT !.part = Append(@, tokens[k])]
  IN read
Meant == Closed(Read[Len(tokens)])

(* However strings, names, comments and bodies follow each other, and
   whatever they hold, the statements that run are those the file says, in
   their order and with nothing lost. *)
SplitsAsMeant == pos = Len(Text) + 2 => emitted = Meant
=============================================================================
