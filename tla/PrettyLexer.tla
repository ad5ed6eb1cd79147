----------------------------- MODULE PrettyLexer -----------------------------
(***************************************************************************)
(* The lexers of prettify.js: an ordered list of patterns cuts a source    *)
(* into tokens, each token is looked at again by itself to find its style, *)
(* and a token that holds another language is handed to that one's lexer.  *)
(* A source is a sequence of characters; a word ("return", "x") stands as  *)
(* one of them; "sq", "dq", "bq" are the quotes, "bs" is the backslash.    *)
(***************************************************************************)
EXTENDS Naturals, FiniteSets, Sequences, SequencesExt

Space  == {" ", "nl", "tab"}
Words  == {"return", "x", "Ty", "7", "script", "onx", "nbsp"}
Quotes == {"sq", "dq", "bq"}

(* What may precede a regular expression, and be taken for its beginning.  *)
REGEXP_PRECEDER_PATTERN ==
    {<<c>> : c \in {"+", "!", "#", "*", "/", ";", "<", "=", ">", "?", "@", "return"}}
        \union {<<c, "=">> : c \in {"!", "*", "+", "/", "<", ">", "="}}

-----------------------------------------------------------------------------
(* Places in a text: the first of a set of places, the end of a run.       *)

First(places, none) == IF places = {} THEN none ELSE Min(places)

RunEnd(s, p, S) == First({i \in p..Len(s) : s[i] \notin S}, Len(s) + 1) - 1
RunUpTo(s, p, S) == First({i \in p..Len(s) : s[i] \in S}, Len(s) + 1) - 1

At(s, p, t) == p + Len(t) - 1 <= Len(s) /\ SubSeq(s, p, p + Len(t) - 1) = t

(* The last place of the first t that begins at p or later; none if none.  *)
Through(s, p, t, none) ==
    LET at == First({i \in p..Len(s) : At(s, i, t)}, 0)
    IN  IF at = 0 THEN none ELSE at + Len(t) - 1

(* The character at i, in what began at p, is preceded by an odd number of *)
(* backslashes.                                                            *)
Escaped(s, p, i) ==
    LET plain == {j \in p..(i - 1) : s[j] # "bs"}
    IN  (i - 1 - Max(plain)) % 2 = 1

-----------------------------------------------------------------------------
(* Where the match of a pattern at p ends; 0 if it does not match there.   *)

(* (Mutant: every string may go on in the next line.)                      *)
StringEndAcross(s, p, multiLine) ==
    LET close == First({i \in (p + 1)..Len(s) : s[i] = s[p] /\ ~Escaped(s, p, i)}, 0)
        end   == IF close = 0 THEN Len(s) ELSE close
    IN  IF close = 0 /\ Escaped(s, p, Len(s) + 1) THEN 0 ELSE end

StringEnd(s, p, multiLine) ==
    LET close == First({i \in (p + 1)..Len(s) : s[i] = s[p] /\ ~Escaped(s, p, i)}, 0)
        end   == IF close = 0 THEN Len(s) ELSE close
    IN  IF \/ close = 0 /\ Escaped(s, p, Len(s) + 1)
           \/ ~multiLine /\ \E i \in p..end : s[i] = "nl"
        THEN 0 ELSE end

RECURSIVE HashEnd(_, _, _)
HashEnd(s, i, cStyle) ==
    LET close == Through(s, i + 2, <<"*", "/">>, 0)
    IN  CASE i > Len(s)                           -> Len(s)
          [] i <= Len(s) /\ s[i] = "nl"           -> i - 1
          [] cStyle /\ At(s, i, <<"/", "*">>)     ->
                IF close = 0 \/ close > RunUpTo(s, i, {"nl"}) THEN i - 1
                ELSE HashEnd(s, close + 1, cStyle)
          [] OTHER                                -> HashEnd(s, i + 1, cStyle)

(* A literal needs something between its slashes: no comment begins here.  *)
LiteralEnd(s, q) ==
    IF q >= Len(s) \/ s[q] # "/" \/ s[q + 1] \in {"/", "*"} THEN 0
    ELSE First({i \in (q + 2)..Len(s) : s[i] = "/" /\ ~Escaped(s, q, i)}, 0)

LiteralStart(s, p) ==
    LET after  == {p + Len(t) : t \in {u \in REGEXP_PRECEDER_PATTERN : At(s, p, u)}}
        starts == {q \in {RunEnd(s, r, Space) + 1 : r \in after} : LiteralEnd(s, q) # 0}
        first  == RunEnd(s, 1, Space) + 1
    IN  IF p = 1 /\ LiteralEnd(s, 1) # 0 THEN 1
        ELSE IF p = 1 /\ LiteralEnd(s, first) # 0 THEN first
        ELSE First(starts, 0)

(* The value of an attribute without quotes: no slash at its end, unless   *)
(* a space follows it.                                                     *)
UnquotedStart(s, p) == RunEnd(s, p + 1, Space) + 1
UnquotedEnd(s, p) ==
    LET from == UnquotedStart(s, p)
        to   == RunUpTo(s, from, Space \union {">", "sq", "dq"})
        ends == {i \in from..to :
                    s[i] # "/" \/ (i < Len(s) /\ s[i + 1] \in Space)}
    IN  IF s[p] # "=" \/ ends = {} THEN 0 ELSE Max(ends)

(* onclick="...": the place of the quote, 0 if it is no such attribute.    *)
HandlerQuote(s, p) ==
    LET eq == RunEnd(s, RunEnd(s, p, Words) + 1, Space) + 1
        q  == RunEnd(s, eq + 1, Space) + 1
    IN  IF s[p] = "onx" /\ q < Len(s) /\ s[eq] = "=" /\ s[q] \in {"sq", "dq"} /\ s[q + 1] # s[q]
        THEN q ELSE 0

(* <script ...>text</script ...>: where the text begins and ends.          *)
ScriptText(s, p) ==
    LET open  == Through(s, p + 2, <<">">>, 0)
        close == First({i \in (open + 2)..Len(s) : At(s, i, <<"<", "/", "script">>)}, 0)
    IN  IF ~At(s, p, <<"<", "script">>) \/ (p + 2 <= Len(s) /\ s[p + 2] \in Words)
              \/ open = 0 \/ close = 0 THEN <<0, 0>>
        ELSE <<open + 1, close - 1>>

TagEnd(s, p) ==
    LET name == IF At(s, p, <<"<", "/">>) THEN p + 2 ELSE p + 1
        end  == RunUpTo(s, name, {"<", ">"}) + 1
    IN  IF s[p] = "<" /\ name <= Len(s) /\ s[name] \in Words \ {"7"}
              /\ end <= Len(s) /\ s[end] = ">" THEN end ELSE 0

MatchEnd(pattern, s, p) ==
    LET c == s[p]
        n == Len(s)
        If(so, end) == IF so THEN end ELSE 0
    IN  CASE pattern = "string"     -> If(c \in Quotes \ {"bq"}, StringEnd(s, p, FALSE))
          [] pattern = "strings"    -> If(c \in Quotes, StringEnd(s, p, TRUE))
          [] pattern = "hash"       -> If(c = "#", HashEnd(s, p + 1, FALSE))
          [] pattern = "cHash"      -> If(c = "#", HashEnd(s, p + 1, TRUE))
          [] pattern = "space"      -> If(c \in Space, RunEnd(s, p, Space))
          [] pattern = "line"       -> If(At(s, p, <<"/", "/">>), RunUpTo(s, p, {"nl"}))
          [] pattern = "block"      -> If(At(s, p, <<"/", "*">>), Through(s, p + 2, <<"*", "/">>, n))
          [] pattern = "regex"      ->
                LET q == LiteralStart(s, p) IN If(q # 0, LiteralEnd(s, q))
          [] pattern = "keyword"    -> If(c = "return" /\ ~(p < n /\ s[p + 1] \in Words), p)
          [] pattern = "annotation" -> If(c = "@" /\ p < n /\ s[p + 1] \in Words \ {"7"},
                                          RunEnd(s, p + 1, Words \union {"@"}))
          [] pattern = "type"       -> If(c = "Ty", RunEnd(s, p, Words \union {"@"}))
          [] pattern = "word"       -> If(c \in Words \ {"7"}, RunEnd(s, p, Words \union {"@"}))
          [] pattern = "number"     -> If(c = "7", RunEnd(s, p, Words))
          [] pattern = "punctuation" ->
                If(c # "nl", RunUpTo(s, p + 1, Space \union Words \union Quotes \union {"@", "/", "#"}))
          [] pattern = "text"       -> If(c \notin {"<", "?"}, RunUpTo(s, p, {"<", "?"}))
          [] pattern = "declaration" ->
                If(At(s, p, <<"<", "!">>) /\ p + 2 <= n /\ s[p + 2] \in Words, Through(s, p, <<">">>, n))
          [] pattern = "comment"    -> If(At(s, p, <<"<", "!", "--">>), Through(s, p + 3, <<"--", ">">>, n))
          [] pattern = "php"        ->
                If(At(s, p, <<"<", "?">>) /\ p + 2 <= n, Through(s, p + 3, <<"?", ">">>, n))
          [] pattern = "phpMark"    -> If(At(s, p, <<"<", "?">>) \/ At(s, p, <<"?", ">">>), p + 1)
          [] pattern = "script"     ->
                LET text == ScriptText(s, p)
                    end  == Through(s, text[2] + 4, <<">">>, 0)
                IN  If(text # <<0, 0>> /\ end # 0 /\ s[text[2] + 4] \notin Words, end)
          [] pattern = "tag"        -> TagEnd(s, p)
          [] pattern = "quoted"     ->
                If(c \in {"sq", "dq"}, First({i \in (p + 1)..n : s[i] = c}, n))
          [] pattern = "tagName"    ->
                LET name == IF At(s, p, <<"<", "/">>) THEN p + 2 ELSE p + 1
                IN  IF p = 1 /\ c = "<" /\ name <= n /\ s[name] \in Words \ {"7", "Ty"}
                    THEN RunEnd(s, name, Words)
                    ELSE If(p \in {n - 1, n} /\ SubSeq(s, p, n) \in {<<">">>, <<"/", ">">>}, n)
          [] pattern = "attribName" -> If(c \in Words \ {"7", "Ty", "onx"}, RunEnd(s, p, Words))
          [] pattern = "unquoted"   -> UnquotedEnd(s, p)
          [] pattern = "tagPunctuation" ->
                If(c \in {"=", "<", ">", "/"}, RunEnd(s, p, {"=", "<", ">", "/"}))
          [] pattern = "handler"    ->
                LET q == HandlerQuote(s, p) IN If(q # 0, First({i \in (q + 1)..n : s[i] = s[q]}, 0))
          [] pattern = "all"        -> n

(* What group 1 of the pattern holds: its first and its last place.        *)
Group(pattern, tok) ==
    CASE pattern = "regex"    -> <<LiteralStart(tok, 1), Len(tok)>>
      [] pattern = "php"      ->
            <<3, IF Len(tok) > 4 /\ SubSeq(tok, Len(tok) - 1, Len(tok)) = <<"?", ">">>
                 THEN Len(tok) - 2 ELSE Len(tok)>>
      [] pattern = "script"   -> ScriptText(tok, 1)
      [] pattern = "tag"      -> <<1, Len(tok)>>
      [] pattern = "unquoted" -> <<UnquotedStart(tok, 1), UnquotedEnd(tok, 1)>>
      [] pattern = "handler"  -> <<HandlerQuote(tok, 1) + 1, Len(tok) - 1>>

-----------------------------------------------------------------------------
(* The lexers.  A pattern that names a language has no style of its own.   *)

PatternStyle ==
    [string |-> "str", strings |-> "str", hash |-> "com", cHash |-> "com", space |-> "pln",
     line |-> "com", block |-> "com", keyword |-> "kwd", annotation |-> "lit", type |-> "typ",
     word |-> "pln", number |-> "lit", punctuation |-> "pun", text |-> "pln",
     declaration |-> "dec", comment |-> "com", phpMark |-> "pun", quoted |-> "atv",
     tagName |-> "tag", attribName |-> "atn", tagPunctuation |-> "pun"]
PatternLanguage ==
    [regex |-> "regex", php |-> "", script |-> "js", tag |-> "in.tag", unquoted |-> "uq.val",
     handler |-> "js"]
Shortcuts ==
    [string |-> Quotes \ {"bq"}, strings |-> Quotes, hash |-> {"#"}, cHash |-> {"#"},
     space |-> Space, annotation |-> {"@"}, number |-> {"7"}, quoted |-> {"sq", "dq"}]

sourceDecorator(options) ==
    LET Opt(o, patterns) == IF o \in options THEN patterns ELSE <<>>
        hash == IF "cStyleComments" \in options THEN "cHash" ELSE "hash"
    IN  [short |-> <<IF "multiLineStrings" \in options THEN "strings" ELSE "string">>
                     \o Opt("hashComments", <<hash>>) \o <<"space">>,
         fall  |-> Opt("cStyleComments", <<"line", "block">>) \o Opt("regexLiterals", <<"regex">>)
                     \o <<"keyword", "annotation", "type", "word", "number", "punctuation">>]

registered == {"default-code", "default-markup", "in.tag", "uq.val", "regex", "js", "java", "sh"}
langHandlerRegistry(lang) ==
    CASE lang = "default-code"   -> sourceDecorator({"hashComments", "cStyleComments",
                                                     "multiLineStrings", "regexLiterals"})
      [] lang = "default-markup" ->
            [short |-> <<>>, fall |-> <<"text", "declaration", "comment", "php", "phpMark",
                                        "script", "tag">>]
      [] lang = "in.tag"         ->
            [short |-> <<"space", "quoted">>,
             fall  |-> <<"tagName", "attribName", "unquoted", "tagPunctuation", "handler">>]
      [] lang = "js"             -> sourceDecorator({"cStyleComments", "regexLiterals"})
      [] lang = "java"           -> sourceDecorator({"cStyleComments"})
      [] lang = "sh"             -> sourceDecorator({"hashComments", "multiLineStrings"})
      [] lang \in {"uq.val", "regex"} -> [short |-> <<>>, fall |-> <<"all">>]

AllStyle(lang) == IF lang = "regex" THEN "str" ELSE "atv"

langHandlerForExtension(extension, s) ==
    IF extension \in registered THEN extension
    ELSE LET p == RunEnd(s, 1, Space) + 1
         IN  IF p <= Len(s) /\ s[p] = "<" THEN "default-markup" ELSE "default-code"

(* The next token: the first pattern of the lexer that matches at p, else  *)
(* one character.                                                          *)
TokenEnd(lexer, s, p) ==
    LET patterns == lexer.short \o lexer.fall
        ends     == [i \in DOMAIN patterns |-> MatchEnd(patterns[i], s, p)]
    IN  Append(SelectSeq(ends, LAMBDA end : end # 0), p)[1]

(* The pattern that decides the style of a token: the one its first        *)
(* character is a shortcut to, else the first that matches it; "" if none. *)
Deciding(lexer, tok) ==
    LET all   == lexer.short \o lexer.fall
        short == {i \in DOMAIN all : all[i] \in DOMAIN Shortcuts /\ tok[1] \in Shortcuts[all[i]]}
        fall  == {i \in DOMAIN lexer.fall : MatchEnd(lexer.fall[i], tok, 1) # 0}
    IN  IF short # {} THEN all[Max(short)]
        ELSE IF fall # {} THEN lexer.fall[Min(fall)] ELSE ""

(* Where the text of the group first occurs in the token.                  *)
IndexOf(tok, g) == Min({i \in DOMAIN tok : At(tok, i, g)})

RECURSIVE Decorate(_, _, _), Tokens(_, _, _, _)

(* appendDecorations: nothing for an empty text.                           *)
appendDecorations(base, s, lang) == IF s = <<>> THEN <<>> ELSE Decorate(lang, s, base)

(* The decorations of the text s that begins at base: <<place, style>>.    *)
Decorate(lang, s, base) == << <<base, "pln">> >> \o Tokens(lang, s, base, 1)

(* source, at from in the token, is of the language inner; the rest is of  *)
(* the token's own.                                                        *)
Embedded(lang, tok, start, source, from, inner) ==
    LET after == from + Len(source)
    IN  appendDecorations(start, SubSeq(tok, 1, from - 1), lang)
          \o appendDecorations(start + from - 1, source, inner)
          \o appendDecorations(start + after - 1, SubSeq(tok, after, Len(tok)), lang)

TokenDecorations(lang, tok, start, pattern) ==
    CASE pattern = ""    -> << <<start, "pln">> >>
      [] pattern = "all" -> << <<start, AllStyle(lang)>> >>
      [] pattern \in DOMAIN PatternStyle -> << <<start, PatternStyle[pattern]>> >>
      [] pattern \in DOMAIN PatternLanguage ->
            LET group  == Group(pattern, tok)
                source == SubSeq(tok, group[1], group[2])
            IN  Embedded(lang, tok, start, source, IndexOf(tok, source),
                         langHandlerForExtension(PatternLanguage[pattern], source))

Tokens(lang, s, base, p) ==
    IF p > Len(s) THEN <<>>
    ELSE LET lexer == langHandlerRegistry(lang)
             end   == TokenEnd(lexer, s, p)
             tok   == SubSeq(s, p, end)
         IN  TokenDecorations(lang, tok, base + p - 1, Deciding(lexer, tok))
               \o Tokens(lang, s, base, end + 1)

Decorations(extension, s) == Decorate(langHandlerForExtension(extension, s), s, 0)
=============================================================================
